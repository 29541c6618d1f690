---------------------------- MODULE ConnPoolProofs ----------------------------
(***************************************************************************)
(* Proofs about the MySQL connection pool, for every number of threads and *)
(* sessions, every pool size and any number of outages and drops: the      *)
(* pool's books balance, and while the pool is open a connection has one   *)
(* user.                                                                   *)
(***************************************************************************)
EXTENDS ConnPool, SequencesExt, FiniteSetsExt, FiniteSetTheorems, SequenceTheorems, TLAPS

(* A set of numbers that is not empty has a least member, and Min is it.    *)
LEMMA MinFacts ==
  ASSUME NEW S \in SUBSET Nat, S # {}
  PROVE  Min(S) \in S /\ \A j \in S : Min(S) <= j
<1>1. \E i \in S : \A j \in S : i <= j
  <2> DEFINE R == {ss \in Nat \X Nat : ss[1] < ss[2]}
  <2>1. OpToRel(<, Nat) = R
    BY DEF OpToRel
  <2>2. IsWellFoundedOn(R, Nat)
    BY <2>1, NatLessThanWellFounded
  <2> HIDE DEF R
  <2>3. PICK i \in S : \A j \in S : ~ (<<j, i>> \in R)
    BY <2>2, WFMin
  <2>4. ASSUME NEW j \in S
        PROVE  i <= j
    <3>1. ~ (<<j, i>> \in R)
      BY <2>3
    <3>2. i \in Nat /\ j \in Nat
      OBVIOUS
    <3>3. j < i => <<j, i>> \in R
      BY <3>2 DEF R
    <3>4. QED
      BY <3>1, <3>2, <3>3
  <2>5. QED
    BY <2>4
<1>2. QED
  BY <1>1 DEF Min

(* One of the first n + 1 numbers is not in a set of n.                     *)
LEMMA FreshNumber ==
  ASSUME NEW S, IsFiniteSet(S)
  PROVE  \E a \in 1 .. Cardinality(S) + 1 : a \notin S
<1> DEFINE n == Cardinality(S)
<1>1. n \in Nat
  BY FS_CardinalityType
<1> HIDE DEF n
<1>2. IsFiniteSet(1 .. n + 1) /\ Cardinality(1 .. n + 1) = n + 1
  BY <1>1, FS_Interval, n + 1 \in Int, 1 \in Int
<1>3. SUFFICES ASSUME 1 .. n + 1 \subseteq S
               PROVE  FALSE
  BY DEF n
<1>4. (1 .. n + 1) \in SUBSET S
  BY <1>3
<1>5. Cardinality(1 .. n + 1) <= Cardinality(S)
  BY <1>4, FS_Subset
<1>6. QED
  BY <1>1, <1>2, <1>5 DEF n

(* Adding at the head.                                                      *)
LEMMA ConsFacts ==
  ASSUME NEW T, NEW s \in Seq(T), NEW x \in T
  PROVE  /\ <<x>> \o s \in Seq(T) /\ Len(<<x>> \o s) = Len(s) + 1
         /\ ToSet(<<x>> \o s) = {x} \cup ToSet(s)
         /\ IsInjective(s) /\ x \notin ToSet(s) => IsInjective(<<x>> \o s)
<1> DEFINE c == <<x>> \o s
<1>1. c \in Seq(T) /\ Len(c) = Len(s) + 1 /\ Len(s) \in Nat
  OBVIOUS
<1>2. c[1] = x /\ \A i \in 1 .. Len(s) : c[i + 1] = s[i]
  OBVIOUS
<1>3. \A i \in 1 .. Len(s) + 1 : i # 1 => i - 1 \in 1 .. Len(s) /\ c[i] = s[i - 1]
  OBVIOUS
<1>4. DOMAIN c = 1 .. Len(s) + 1 /\ DOMAIN s = 1 .. Len(s)
  BY <1>1
<1> HIDE DEF c
<1>5. ToSet(c) = {x} \cup ToSet(s)
  <2>1. ASSUME NEW i \in 1 .. Len(s) + 1 PROVE c[i] \in {x} \cup ToSet(s)
    <3>1. CASE i = 1
      BY <1>2, <3>1
    <3>2. CASE i # 1
      BY <1>3, <1>4, <3>2 DEF ToSet
    <3>3. QED
      BY <3>1, <3>2
  <2>2. x \in ToSet(c)
    BY <1>1, <1>2, <1>4, 1 \in 1 .. Len(s) + 1 DEF ToSet
  <2>3. ASSUME NEW i \in 1 .. Len(s) PROVE s[i] \in ToSet(c)
    BY <1>1, <1>2, <1>4, i + 1 \in 1 .. Len(s) + 1 DEF ToSet
  <2>4. QED
    BY <2>1, <2>2, <2>3, <1>4 DEF ToSet
<1>6. ASSUME IsInjective(s), x \notin ToSet(s) PROVE IsInjective(c)
  <2>1. SUFFICES ASSUME NEW i \in 1 .. Len(s) + 1, NEW j \in 1 .. Len(s) + 1, c[i] = c[j]
                 PROVE  i = j
    BY <1>4 DEF IsInjective
  <2>2. \A k \in 1 .. Len(s) : s[k] # x
    BY <1>4, <1>6 DEF ToSet
  <2>3. \A k, l \in 1 .. Len(s) : s[k] = s[l] => k = l
    BY <1>4, <1>6 DEF IsInjective
  <2>4. i \in Int /\ j \in Int /\ Len(s) \in Nat
    BY <1>1
  <2>5. CASE i = 1
    BY <1>2, <1>3, <2>1, <2>2, <2>5
  <2>6. CASE j = 1
    BY <1>2, <1>3, <2>1, <2>2, <2>6
  <2>7. CASE i # 1 /\ j # 1
    BY <1>3, <2>1, <2>3, <2>4, <2>7, i - 1 = j - 1
  <2>8. QED
    BY <2>5, <2>6, <2>7
<1>7. QED
  BY <1>1, <1>5, <1>6 DEF c

(* Taking the head.                                                         *)
LEMMA TailFacts ==
  ASSUME NEW T, NEW s \in Seq(T), s # <<>>
  PROVE  /\ Tail(s) \in Seq(T) /\ Head(s) \in T /\ Len(Tail(s)) = Len(s) - 1
         /\ ToSet(s) = {Head(s)} \cup ToSet(Tail(s))
         /\ IsInjective(s) => IsInjective(Tail(s)) /\ Head(s) \notin ToSet(Tail(s))
<1> DEFINE c == Tail(s)
<1>1. c \in Seq(T) /\ Len(c) = Len(s) - 1 /\ Len(s) \in Nat \ {0} /\ Head(s) = s[1]
  OBVIOUS
<1>2. \A i \in 1 .. Len(s) - 1 : c[i] = s[i + 1]
  OBVIOUS
<1>3. DOMAIN c = 1 .. Len(s) - 1 /\ DOMAIN s = 1 .. Len(s)
  BY <1>1
<1>4. s[1] \in T
  BY <1>1
<1> HIDE DEF c
<1>5. \A i \in 1 .. Len(s) : i = 1 \/ (i - 1 \in 1 .. Len(s) - 1 /\ c[i - 1] = s[i])
  BY <1>1, <1>2
<1>6. ToSet(s) = {Head(s)} \cup ToSet(c)
  <2>1. ASSUME NEW i \in 1 .. Len(s) PROVE s[i] \in {Head(s)} \cup ToSet(c)
    BY <1>1, <1>3, <1>5 DEF ToSet
  <2>2. s[1] \in ToSet(s)
    BY <1>1, <1>3 DEF ToSet
  <2>3. ASSUME NEW i \in 1 .. Len(s) - 1 PROVE c[i] \in ToSet(s)
    BY <1>1, <1>2, <1>3, i + 1 \in 1 .. Len(s) DEF ToSet
  <2>4. QED
    BY <1>1, <2>1, <2>2, <2>3, <1>3 DEF ToSet
<1>7. ASSUME IsInjective(s) PROVE IsInjective(c) /\ Head(s) \notin ToSet(c)
  <2>1. \A k, l \in 1 .. Len(s) : s[k] = s[l] => k = l
    BY <1>3, <1>7 DEF IsInjective
  <2>2. \A i \in 1 .. Len(s) - 1 : i + 1 \in 1 .. Len(s) /\ i + 1 # 1
    BY <1>1
  <2>3. ASSUME NEW i \in 1 .. Len(s) - 1, NEW j \in 1 .. Len(s) - 1, c[i] = c[j]
        PROVE  i = j
    BY <1>1, <1>2, <2>1, <2>2, <2>3, i + 1 = j + 1
  <2>4. \A i \in 1 .. Len(s) - 1 : c[i] # s[1]
    BY <1>1, <1>2, <2>1, <2>2
  <2>5. QED
    BY <1>1, <1>3, <2>3, <2>4 DEF IsInjective, ToSet
<1>8. QED
  BY <1>1, <1>4, <1>6, <1>7 DEF c

(* Taking out one place.                                                    *)
LEMMA RemoveAtFacts ==
  ASSUME NEW T, NEW s \in Seq(T), NEW k \in 1 .. Len(s)
  PROVE  /\ RemoveAt(s, k) \in Seq(T) /\ Len(RemoveAt(s, k)) = Len(s) - 1
         /\ \A i \in 1 .. Len(s) - 1 : RemoveAt(s, k)[i] = IF i < k THEN s[i] ELSE s[i + 1]
<1> DEFINE a == SubSeq(s, 1, k - 1)
           b == SubSeq(s, k + 1, Len(s))
<1>1. Len(s) \in Nat /\ k \in Int
  OBVIOUS
<1>2. a \in Seq(T) /\ Len(a) = k - 1 /\ \A i \in 1 .. k - 1 : a[i] = s[i]
  OBVIOUS
<1>3. b \in Seq(T) /\ Len(b) = Len(s) - k /\ \A i \in 1 .. Len(s) - k : b[i] = s[k + i]
  OBVIOUS
<1> HIDE DEF a, b
<1>4. a \o b \in Seq(T) /\ Len(a \o b) = Len(s) - 1
  <2>1. a \o b \in Seq(T) /\ Len(a \o b) = Len(a) + Len(b)
    BY <1>2, <1>3, ConcatProperties
  <2>2. QED
    BY <1>1, <1>2, <1>3, <2>1
<1>5. ASSUME NEW i \in 1 .. Len(s) - 1
      PROVE  (a \o b)[i] = IF i < k THEN s[i] ELSE s[i + 1]
  <2>0. (a \o b)[i] = IF i <= Len(a) THEN a[i] ELSE b[i - Len(a)]
    <3>1. i \in 1 .. Len(a) + Len(b)
      BY <1>1, <1>2, <1>3
    <3>2. QED
      BY <1>2, <1>3, <3>1, ConcatProperties
  <2>1. CASE i < k
    BY <1>1, <1>2, <2>0, <2>1
  <2>2. CASE ~(i < k)
    <3>1. i - (k - 1) \in 1 .. Len(s) - k /\ k + (i - (k - 1)) = i + 1
      BY <1>1, <2>2
    <3>2. (a \o b)[i] = b[i - (k - 1)]
      BY <1>1, <1>2, <2>0, <2>2
    <3>3. b[i - (k - 1)] = s[i + 1]
      BY <1>3, <3>1
    <3>4. QED
      BY <2>2, <3>2, <3>3
  <2>3. QED
    BY <2>1, <2>2
<1>6. QED
  BY <1>4, <1>5 DEF RemoveAt, a, b

(* Taking a member out of a list without duplicates.                        *)
LEMMA RemoveFirstFacts ==
  ASSUME NEW T, NEW s \in Seq(T), NEW x \in ToSet(s), IsInjective(s)
  PROVE  /\ RemoveFirst(s, x) \in Seq(T) /\ Len(RemoveFirst(s, x)) = Len(s) - 1
         /\ ToSet(RemoveFirst(s, x)) = ToSet(s) \ {x}
         /\ IsInjective(RemoveFirst(s, x))
<1>1. Len(s) \in Nat /\ DOMAIN s = 1 .. Len(s)
  OBVIOUS
<1> DEFINE I == {i \in 1 .. Len(s) : s[i] = x}
           k == Min(I)
           c == RemoveAt(s, k)
<1>2. I \in SUBSET Nat /\ I # {}
  BY <1>1 DEF ToSet
<1>3. k \in I
  BY <1>2, MinFacts
<1>4. RemoveFirst(s, x) = c
  BY <1>1, <1>2 DEF RemoveFirst, SelectInSeq
<1> HIDE DEF k
<1>5. k \in 1 .. Len(s) /\ s[k] = x
  BY <1>3
<1>6. /\ c \in Seq(T) /\ Len(c) = Len(s) - 1
      /\ \A i \in 1 .. Len(s) - 1 : c[i] = IF i < k THEN s[i] ELSE s[i + 1]
  BY <1>5, RemoveAtFacts
<1>7. DOMAIN c = 1 .. Len(s) - 1
  BY <1>6
<1> HIDE DEF c
<1>8. \A i, j \in 1 .. Len(s) : s[i] = s[j] => i = j
  BY <1>1 DEF IsInjective
<1>9. \A i \in 1 .. Len(s) - 1 : i \in 1 .. Len(s) /\ i + 1 \in 1 .. Len(s)
  BY <1>1
<1>10. IsInjective(c)
  <2>1. SUFFICES ASSUME NEW i \in 1 .. Len(s) - 1, NEW j \in 1 .. Len(s) - 1, c[i] = c[j]
                 PROVE  i = j
    BY <1>7 DEF IsInjective
  <2>2. QED
    BY <1>1, <1>5, <1>6, <1>8, <1>9, <2>1
<1>11. ToSet(c) = ToSet(s) \ {x}
  <2>1. ASSUME NEW i \in 1 .. Len(s) - 1
        PROVE  c[i] \in ToSet(s) \ {x}
    <3>1. CASE i < k
      <4>1. c[i] = s[i] /\ i # k /\ i \in 1 .. Len(s)
        BY <1>5, <1>6, <1>9, <3>1
      <4>2. QED
        BY <1>1, <1>5, <1>8, <4>1 DEF ToSet
    <3>2. CASE ~(i < k)
      <4>1. c[i] = s[i + 1] /\ i + 1 # k /\ i + 1 \in 1 .. Len(s)
        BY <1>5, <1>6, <1>9, <3>2
      <4>2. QED
        BY <1>1, <1>5, <1>8, <4>1 DEF ToSet
    <3>3. QED
      BY <3>1, <3>2
  <2>2. ASSUME NEW i \in 1 .. Len(s), s[i] # x
        PROVE  s[i] \in ToSet(c)
    <3>1. CASE i < k
      <4>1. i \in 1 .. Len(s) - 1 /\ c[i] = s[i]
        BY <1>1, <1>5, <1>6, <3>1
      <4>2. QED
        BY <4>1, <1>7 DEF ToSet
    <3>2. CASE ~(i < k)
      <4>1. i # k
        BY <1>5, <2>2
      <4>2. i - 1 \in 1 .. Len(s) - 1 /\ ~(i - 1 < k) /\ (i - 1) + 1 = i
        BY <1>1, <1>5, <3>2, <4>1
      <4>3. c[i - 1] = s[i]
        BY <1>6, <4>2
      <4>4. QED
        BY <4>2, <4>3, <1>7 DEF ToSet
    <3>3. QED
      BY <3>1, <3>2
  <2>3. QED
    BY <1>1, <1>7, <2>1, <2>2 DEF ToSet
<1>12. QED
  BY <1>4, <1>6, <1>10, <1>11

(* The members of a sequence are finitely many.                             *)
LEMMA ToSetFinite ==
  ASSUME NEW T, NEW s \in Seq(T)
  PROVE  IsFiniteSet(ToSet(s))
<1>1. Len(s) \in Nat /\ DOMAIN s = 1 .. Len(s)
  OBVIOUS
<1>2. IsFiniteSet(DOMAIN s)
  BY <1>1, FS_Interval, 1 \in Int, Len(s) \in Int
<1>3. s \in [DOMAIN s -> ToSet(s)]
  BY <1>1 DEF ToSet
<1>4. s \in Surjection(DOMAIN s, ToSet(s))
  BY <1>3 DEF ToSet, Surjection
<1>5. QED
  BY <1>2, <1>4, FS_Surjection

------------------------------------------------------------------------------
(* Before the pool is made nobody is in it.                                 *)
NobodyBefore == g_pool.state = "none" => \A t \in Thread : thread[t].at = "start"

(* The inductive invariant.  The two properties need each other: release    *)
(* finds the right node because handles are not shared, and the books       *)
(* balance because release finds the right node.                            *)
IInv == Accounting /\ HeldIsOwn /\ NobodyBefore

Free == ToSet(g_pool.free_list)

Used == ToSet(g_pool.used_list)

------------------------------------------------------------------------------
(* An address that is not in use.                                           *)
LEMMA NewAddressFacts ==
  ASSUME NEW f, IsFiniteSet(DOMAIN f)
  PROVE  NewAddress(f) \in Address /\ NewAddress(f) \notin DOMAIN f
<1>1. Cardinality(DOMAIN f) \in Nat
  BY FS_CardinalityType
<1>2. \E a \in 1 .. Cardinality(DOMAIN f) + 1 : a \notin DOMAIN f
  BY FreshNumber
<1>3. NewAddress(f) \in 1 .. Cardinality(DOMAIN f) + 1 /\ NewAddress(f) \notin DOMAIN f
  BY <1>2 DEF NewAddress
<1>4. QED
  BY <1>1, <1>3 DEF Address

(* Allocating and freeing.                                                  *)
LEMMA MemoryFacts ==
  ASSUME NEW D \in SUBSET Address, NEW T, NEW f \in [D -> T], NEW x \in Address, NEW y \in T
  PROVE  /\ DOMAIN Put(f, x, y) = D \cup {x} /\ Put(f, x, y) \in [D \cup {x} -> T]
         /\ Put(f, x, y)[x] = y /\ \A z \in D : z # x => Put(f, x, y)[z] = f[z]
         /\ DOMAIN Drop(f, x) = D \ {x} /\ Drop(f, x) \in [D \ {x} -> T]
         /\ \A z \in D \ {x} : Drop(f, x)[z] = f[z]
BY DEF Put, Drop

(* The nodes that are allocated are finitely many.                          *)
LEMMA NodesFinite ==
  ASSUME Accounting
  PROVE  IsFiniteSet(DOMAIN mysql)
<1>1. g_pool.free_list \in Seq(Address) /\ g_pool.used_list \in Seq(Address)
  BY DEF Accounting, TypeOK
<1>2. IsFiniteSet(Free) /\ IsFiniteSet(Used)
  BY <1>1, ToSetFinite DEF Free, Used
<1>3. DOMAIN mysql = Free \cup Used
  BY DEF Accounting, Free, Used
<1>4. QED
  BY <1>2, <1>3, FS_Union

(* A step of one thread leaves what the others hold alone and takes or      *)
(* gives back nodes that are its own or not in use: connections keep one    *)
(* user.                                                                    *)
LEMMA HeldTransfer ==
  ASSUME IInv, g_pool.state = "open", NEW t \in Thread,
         \A u \in Thread : u # t => Held(u)' = Held(u) /\ thread'[u].at = thread[u].at,
         thread'[t].at \in {"got", "use", "release"} => Held(t)' # {},
         thread'[t].at # "undefined",
         Held(t)' \cap Used \subseteq Held(t),
         Used' = (Used \ Held(t)) \cup Held(t)'
  PROVE  HeldIsOwn'
<1> DEFINE H(u) == Held(u)
           K(u) == Held(u)'
           V == Used'
<1>1. /\ \A u \in Thread : thread[u].at \in {"got", "use", "release"} => H(u) # {}
      /\ \A u \in Thread : H(u) \subseteq Used
      /\ \A u, v \in Thread : u # v => H(u) \cap H(v) = {}
      /\ \A x \in Used : \E u \in Thread : x \in H(u)
      /\ \A u \in Thread : thread[u].at # "undefined"
  <2>1. \A u \in Thread : thread[u].at \notin {"got", "use", "release"} => H(u) = {}
    BY DEF Held
  <2>2. QED
    BY <2>1 DEF IInv, HeldIsOwn, Used
<1>2. /\ \A u \in Thread : u # t => K(u) = H(u) /\ thread'[u].at = thread[u].at
      /\ K(t) \cap Used \subseteq H(t) /\ V = (Used \ H(t)) \cup K(t)
  OBVIOUS
<1>3. \A u \in Thread : thread'[u].at \in {"got", "use", "release"} => K(u) # {} /\ K(u) \subseteq V
  <2> HIDE DEF H, K, V
  <2> SUFFICES ASSUME NEW u \in Thread, thread'[u].at \in {"got", "use", "release"}
               PROVE  K(u) # {} /\ K(u) \subseteq V
    OBVIOUS
  <2>1. CASE u = t
    BY <1>2, <2>1 DEF K
  <2>2. CASE u # t
    BY <1>1, <1>2, <2>2
  <2>3. QED
    BY <2>1, <2>2
<1>4. \A u, v \in Thread : u # v => K(u) \cap K(v) = {}
  <2> HIDE DEF H, K, V
  <2> QED
    BY <1>1, <1>2
<1>5. \A x \in V : \E u \in Thread : x \in K(u)
  <2> HIDE DEF H, K, V
  <2> QED
    BY <1>1, <1>2
<1>6. \A u \in Thread : thread'[u].at # "undefined"
  BY <1>1, <1>2
<1>7. QED
  BY <1>3, <1>4, <1>5, <1>6 DEF HeldIsOwn, Used

(* What a thread holds in the middle of its session is one used node.       *)
LEMMA HeldNode ==
  ASSUME IInv, g_pool.state = "open", NEW t \in Thread, thread[t].at \in {"got", "use", "release"}
  PROVE  \E x \in Used : /\ Held(t) = {x} /\ x \in DOMAIN mysql
                         /\ thread[t].at = "got" => x = thread[t].conn
                         /\ thread[t].at # "got" => mysql[x] = thread[t].mysql
<1>1. Held(t) # {} /\ Held(t) \subseteq Used /\ Used \subseteq DOMAIN mysql
  BY DEF IInv, HeldIsOwn, Accounting, Used
<1>2. CASE thread[t].at = "got"
  BY <1>1, <1>2 DEF Held
<1>3. CASE thread[t].at # "got"
  <2>1. Held(t) = {x \in DOMAIN mysql : mysql[x] = thread[t].mysql}
    BY <1>3 DEF Held
  <2>2. PICK x \in Held(t) : TRUE
    BY <1>1
  <2>3. \A y, z \in DOMAIN mysql : mysql[y] = mysql[z] => y = z
    BY DEF IInv, Accounting, IsInjective
  <2>4. Held(t) = {x}
    BY <2>1, <2>2, <2>3
  <2>5. QED
    BY <1>1, <1>3, <2>1, <2>4
<1>4. QED
  BY <1>2, <1>3

(* What the others hold stays when their threads do not move, a node they   *)
(* do not hold is added, dropped or gets another handle, and that handle's  *)
(* address is not one that a used node has.                                 *)
LEMMA OthersHold ==
  ASSUME IInv, g_pool.state = "open", NEW u \in Thread, NEW x,
         thread'[u] = thread[u], x \notin Held(u),
         DOMAIN mysql' \cup {x} = DOMAIN mysql \cup {x},
         \A y \in DOMAIN mysql : y # x => mysql'[y] = mysql[y],
         x \in DOMAIN mysql' => \A y \in Used : y # x => mysql'[x] # mysql[y]
  PROVE  Held(u)' = Held(u)
<1>1. CASE thread[u].at \notin {"use", "release"}
  BY <1>1 DEF Held
<1>2. CASE thread[u].at \in {"use", "release"}
  <2>1. PICK z \in Used : /\ Held(u) = {z} /\ z \in DOMAIN mysql /\ mysql[z] = thread[u].mysql
    BY <1>2, HeldNode
  <2>2. Held(u)' = {y \in DOMAIN mysql' : mysql'[y] = thread[u].mysql}
    BY <1>2 DEF Held
  <2>3. Held(u) = {y \in DOMAIN mysql : mysql[y] = thread[u].mysql}
    BY <1>2 DEF Held
  <2>4. z # x
    BY <2>1
  <2>5. \A y \in DOMAIN mysql' : y # x => y \in DOMAIN mysql
    OBVIOUS
  <2>6. \A y \in DOMAIN mysql : y # x => y \in DOMAIN mysql'
    OBVIOUS
  <2>7. x \in DOMAIN mysql' => mysql'[x] # thread[u].mysql
    BY <2>1, <2>4
  <2>8. QED
    BY <2>1, <2>2, <2>3, <2>4, <2>5, <2>6, <2>7
<1>3. QED
  BY <1>1, <1>2
------------------------------------------------------------------------------
(* The parts of the type invariant and of the books, as the proofs of the   *)
(* steps use them.                                                          *)
LEMMA Books ==
  ASSUME Accounting
  PROVE  /\ g_pool = [state |-> g_pool.state, free_list |-> g_pool.free_list,
                      used_list |-> g_pool.used_list,
                      total_connections |-> g_pool.total_connections]
         /\ g_pool.free_list \in Seq(Address) /\ g_pool.used_list \in Seq(Address)
         /\ Len(g_pool.free_list) \in Nat /\ Len(g_pool.used_list) \in Nat
         /\ Free \cap Used = {} /\ DOMAIN mysql = Free \cup Used
         /\ DOMAIN mysql \in SUBSET Address /\ mysql \in [DOMAIN mysql -> Address]
         /\ DOMAIN handle \in SUBSET Address /\ IsFiniteSet(DOMAIN handle)
         /\ handle \in [DOMAIN handle -> {"ok", "broken"}]
         /\ \A x, y \in DOMAIN mysql : mysql[x] = mysql[y] => x = y
         /\ \A x \in DOMAIN mysql : mysql[x] \in DOMAIN handle
BY DEF Accounting, TypeOK, IsInjective, Free, Used

(* The first free node goes to the used ones.                               *)
LEMMA TakenFacts ==
  ASSUME Accounting, g_pool.free_list # <<>>, NEW x, x = Head(g_pool.free_list), NEW p,
         p = Taken(g_pool, x)
  PROVE  /\ x \in Free /\ x \in Address /\ x \notin Used
         /\ p = [state |-> g_pool.state, free_list |-> p.free_list, used_list |-> p.used_list,
                 total_connections |-> g_pool.total_connections]
         /\ p.free_list \in Seq(Address) /\ p.used_list \in Seq(Address)
         /\ IsInjective(p.free_list) /\ IsInjective(p.used_list)
         /\ Len(p.free_list) = Len(g_pool.free_list) - 1
         /\ Len(p.used_list) = Len(g_pool.used_list) + 1
         /\ ToSet(p.free_list) = Free \ {x} /\ ToSet(p.used_list) = Used \cup {x}
<1>1. p = [g_pool EXCEPT !.free_list = Tail(@), !.used_list = <<x>> \o @]
  BY DEF Taken
<1>2. p.free_list = Tail(g_pool.free_list) /\ p.used_list = <<x>> \o g_pool.used_list
  BY <1>1, Books
<1>3. p = [state |-> g_pool.state, free_list |-> p.free_list, used_list |-> p.used_list,
           total_connections |-> g_pool.total_connections]
  BY <1>1, Books
<1>4. g_pool.free_list \in Seq(Address) /\ g_pool.used_list \in Seq(Address)
  BY Books
<1>5. IsInjective(g_pool.free_list) /\ IsInjective(g_pool.used_list)
  BY DEF Accounting
<1>6. /\ Tail(g_pool.free_list) \in Seq(Address) /\ x \in Address
      /\ Len(Tail(g_pool.free_list)) = Len(g_pool.free_list) - 1
      /\ Free = {x} \cup ToSet(Tail(g_pool.free_list))
      /\ IsInjective(Tail(g_pool.free_list)) /\ x \notin ToSet(Tail(g_pool.free_list))
  BY <1>4, <1>5, TailFacts DEF Free
<1>7. x \in Free /\ x \notin Used
  BY <1>6, Books
<1>8. /\ <<x>> \o g_pool.used_list \in Seq(Address)
      /\ Len(<<x>> \o g_pool.used_list) = Len(g_pool.used_list) + 1
      /\ ToSet(<<x>> \o g_pool.used_list) = {x} \cup Used
      /\ IsInjective(<<x>> \o g_pool.used_list)
  BY <1>4, <1>5, <1>6, <1>7, ConsFacts DEF Used
<1>9. QED
  BY <1>2, <1>3, <1>6, <1>7, <1>8

(* A used node goes.                                                        *)
LEMMA DiscardedFacts ==
  ASSUME NEW p, NEW x \in ToSet(p.used_list), NEW q, q = Discarded(p, x),
         p = [state |-> p.state, free_list |-> p.free_list, used_list |-> p.used_list,
              total_connections |-> p.total_connections],
         p.used_list \in Seq(Address), IsInjective(p.used_list)
  PROVE  /\ q = [state |-> p.state, free_list |-> p.free_list, used_list |-> q.used_list,
                 total_connections |-> p.total_connections - 1]
         /\ q.used_list \in Seq(Address) /\ IsInjective(q.used_list)
         /\ Len(q.used_list) = Len(p.used_list) - 1
         /\ ToSet(q.used_list) = ToSet(p.used_list) \ {x}
<1>1. q = [p EXCEPT !.used_list = RemoveFirst(@, x), !.total_connections = @ - 1]
  BY DEF Discarded
<1>2. q.used_list = RemoveFirst(p.used_list, x)
  BY <1>1
<1>3. q = [state |-> p.state, free_list |-> p.free_list, used_list |-> q.used_list,
           total_connections |-> p.total_connections - 1]
  BY <1>1
<1>4. QED
  BY <1>2, <1>3, RemoveFirstFacts

(* A used node becomes the first free one.                                  *)
LEMMA FreedFacts ==
  ASSUME Accounting, NEW x \in Used, NEW q, q = Freed(g_pool, x)
  PROVE  /\ q = [state |-> g_pool.state, free_list |-> q.free_list, used_list |-> q.used_list,
                 total_connections |-> g_pool.total_connections]
         /\ q.used_list \in Seq(Address) /\ q.free_list \in Seq(Address)
         /\ IsInjective(q.used_list) /\ IsInjective(q.free_list)
         /\ Len(q.used_list) = Len(g_pool.used_list) - 1
         /\ Len(q.free_list) = Len(g_pool.free_list) + 1
         /\ ToSet(q.used_list) = Used \ {x} /\ ToSet(q.free_list) = Free \cup {x}
<1>1. q = [g_pool EXCEPT !.used_list = RemoveFirst(@, x), !.free_list = <<x>> \o @]
  BY DEF Freed
<1>2. /\ q.used_list = RemoveFirst(g_pool.used_list, x)
      /\ q.free_list = <<x>> \o g_pool.free_list
  BY <1>1, Books
<1>3. q = [state |-> g_pool.state, free_list |-> q.free_list, used_list |-> q.used_list,
           total_connections |-> g_pool.total_connections]
  BY <1>1, Books
<1>4. /\ g_pool.free_list \in Seq(Address) /\ g_pool.used_list \in Seq(Address)
      /\ IsInjective(g_pool.free_list) /\ IsInjective(g_pool.used_list)
      /\ x \notin Free /\ x \in Address
  BY Books DEF Accounting
<1>5. /\ RemoveFirst(g_pool.used_list, x) \in Seq(Address)
      /\ IsInjective(RemoveFirst(g_pool.used_list, x))
      /\ Len(RemoveFirst(g_pool.used_list, x)) = Len(g_pool.used_list) - 1
      /\ ToSet(RemoveFirst(g_pool.used_list, x)) = Used \ {x}
  BY <1>4, RemoveFirstFacts DEF Used
<1>6. /\ <<x>> \o g_pool.free_list \in Seq(Address)
      /\ IsInjective(<<x>> \o g_pool.free_list)
      /\ Len(<<x>> \o g_pool.free_list) = Len(g_pool.free_list) + 1
      /\ ToSet(<<x>> \o g_pool.free_list) = Free \cup {x}
  BY <1>4, ConsFacts DEF Free
<1>7. QED
  BY <1>2, <1>3, <1>5, <1>6
(* A node that moves, comes or goes is counted.                             *)
LEMMA CountMoves ==
  ASSUME Accounting
  PROVE  /\ g_pool.total_connections = (Len(g_pool.free_list) - 1) + (Len(g_pool.used_list) + 1)
         /\ g_pool.total_connections = (Len(g_pool.free_list) + 1) + (Len(g_pool.used_list) - 1)
         /\ g_pool.total_connections - 1 = Len(g_pool.free_list) + (Len(g_pool.used_list) - 1)
         /\ g_pool.total_connections - 1 =
              (Len(g_pool.free_list) - 1) + ((Len(g_pool.used_list) + 1) - 1)
         /\ g_pool.total_connections + 1 = Len(g_pool.free_list) + (Len(g_pool.used_list) + 1)
         /\ g_pool.total_connections <= MAX_POOL_SIZE
         /\ g_pool.total_connections - 1 <= MAX_POOL_SIZE
         /\ g_pool.total_connections < MAX_POOL_SIZE => g_pool.total_connections + 1 <= MAX_POOL_SIZE
<1> DEFINE n == g_pool.total_connections
           f == Len(g_pool.free_list)
           u == Len(g_pool.used_list)
<1>1. n = f + u /\ n <= MAX_POOL_SIZE /\ MAX_POOL_SIZE \in Nat
  BY PoolAssumption DEF Accounting
<1>2. f \in Nat /\ u \in Nat
  BY Books
<1> HIDE DEF n, f, u
<1>3. /\ n = (f - 1) + (u + 1) /\ n = (f + 1) + (u - 1) /\ n - 1 = f + (u - 1)
      /\ n - 1 = (f - 1) + ((u + 1) - 1) /\ n + 1 = f + (u + 1) /\ n - 1 <= MAX_POOL_SIZE
      /\ n < MAX_POOL_SIZE => n + 1 <= MAX_POOL_SIZE
  BY <1>1, <1>2
<1>4. QED
  BY <1>1, <1>3 DEF n, f, u

(* A thread gets a node.                                                    *)
LEMMA TakesNode ==
  ASSUME TypeOK, NEW t \in Thread, NEW a \in At, NEW c \in Nat,
         thread' = [thread EXCEPT ![t].at = a, ![t].conn = c]
  PROVE  thread' \in [Thread -> [at : At, conn : Nat, mysql : Nat, step : 0 .. Len(Session),
                                 sessions : 0 .. MaxSessions]]
<1> DEFINE r == [thread[t] EXCEPT !.at = a, !.conn = c]
           R == [at : At, conn : Nat, mysql : Nat, step : 0 .. Len(Session),
                 sessions : 0 .. MaxSessions]
<1>1. thread[t] \in R /\ thread \in [Thread -> R]
  BY DEF TypeOK
<1>2. r \in R
  BY <1>1
<1>3. thread' = [thread EXCEPT ![t] = r]
  BY <1>1
<1> HIDE DEF R, r
<1>4. thread' \in [Thread -> R]
  BY <1>1, <1>2, <1>3
<1>5. QED
  BY <1>4 DEF R

------------------------------------------------------------------------------
(* The first free connection is taken, repaired or given up.                *)
LEMMA GetFreeStep ==
  ASSUME IInv, NEW t \in Thread, GetFree(t)
  PROVE  IInv'
<1> DEFINE x == Head(g_pool.free_list)
           h == mysql[x]
           p == Taken(g_pool, x)
           closed == mysql_close(handle, h)
           a == NewAddress(closed)
<1>1. /\ thread[t].at = "get" /\ g_pool.state = "open" /\ g_pool.free_list # <<>>
      /\ server' = server /\ thread[t].at # "undefined" /\ Accounting
  BY DEF GetFree, IInv
<1>2. /\ x \in Free /\ x \in Address /\ x \notin Used
      /\ p = [state |-> g_pool.state, free_list |-> p.free_list, used_list |-> p.used_list,
              total_connections |-> g_pool.total_connections]
      /\ p.free_list \in Seq(Address) /\ p.used_list \in Seq(Address)
      /\ IsInjective(p.free_list) /\ IsInjective(p.used_list)
      /\ Len(p.free_list) = Len(g_pool.free_list) - 1
      /\ Len(p.used_list) = Len(g_pool.used_list) + 1
      /\ ToSet(p.free_list) = Free \ {x} /\ ToSet(p.used_list) = Used \cup {x}
  BY <1>1, TakenFacts
<1>3. x \in DOMAIN mysql /\ h \in DOMAIN handle /\ h \in Address
  BY <1>1, <1>2, Books
<1>4. Held(t) = {}
  BY <1>1 DEF Held
<1>5. \A u \in Thread : x \notin Held(u)
  <2>1. \A u \in Thread : thread[u].at \in {"got", "use", "release"} => Held(u) \subseteq Used
    BY <1>1 DEF IInv, HeldIsOwn, Used
  <2>2. \A u \in Thread : thread[u].at \notin {"got", "use", "release"} => Held(u) = {}
    BY DEF Held
  <2>3. QED
    BY <1>2, <2>1, <2>2
<1>6. /\ closed \in [DOMAIN handle \ {h} -> {"ok", "broken"}]
      /\ DOMAIN closed = DOMAIN handle \ {h}
      /\ DOMAIN closed \in SUBSET Address /\ IsFiniteSet(DOMAIN closed)
  <2>1. /\ closed \in [DOMAIN handle \ {h} -> {"ok", "broken"}]
        /\ DOMAIN closed = DOMAIN handle \ {h}
    <3> HIDE DEF h
    <3> QED
      BY <1>1, Books DEF mysql_close, Drop
  <2>2. IsFiniteSet(DOMAIN handle \ {h})
    BY <1>1, Books, FS_Difference
  <2>3. QED
    BY <1>1, <2>1, <2>2, Books
<1>7. a \in Address /\ a \notin DOMAIN closed
  BY <1>6, NewAddressFacts
<1>8. /\ \A v \in {"ok", "broken"} :
           /\ Put(closed, a, v) \in [DOMAIN closed \cup {a} -> {"ok", "broken"}]
           /\ DOMAIN Put(closed, a, v) = DOMAIN closed \cup {a}
      /\ IsFiniteSet(DOMAIN closed \cup {a})
      /\ DOMAIN closed \cup {a} \subseteq Address
  <2> HIDE DEF a, closed
  <2>1. \A v \in {"ok", "broken"} :
           /\ Put(closed, a, v) \in [DOMAIN closed \cup {a} -> {"ok", "broken"}]
           /\ DOMAIN Put(closed, a, v) = DOMAIN closed \cup {a}
    BY <1>6, <1>7 DEF Put
  <2>2. IsFiniteSet(DOMAIN closed \cup {a})
    BY <1>6, FS_AddElement
  <2>3. QED
    BY <1>6, <1>7, <2>1, <2>2
<1>9. \A y \in Used : y \in DOMAIN mysql /\ y # x /\ mysql[y] \in DOMAIN closed
  <2> HIDE DEF closed, x
  <2> QED
    BY <1>1, <1>2, <1>3, <1>6, Books
<1>10. \A y \in DOMAIN mysql \ {x} : mysql[y] \in DOMAIN closed
  <2> HIDE DEF closed, x
  <2> QED
    BY <1>1, <1>3, <1>6, Books
<1>11. CASE handle[h] = "ok" /\ g_pool' = p /\ UNCHANGED <<mysql, handle>>
            /\ thread' = [thread EXCEPT ![t].at = "got", ![t].conn = x]
  <2>1. TypeOK'
    <3>1. g_pool' \in [state : {"none", "open", "closed"}, free_list : Seq(Address),
                       used_list : Seq(Address), total_connections : Int]
      <4> HIDE DEF p
      <4> QED
        BY <1>1, <1>2, <1>11 DEF Accounting, TypeOK
    <3>2. thread' \in [Thread -> [at : At, conn : Nat, mysql : Nat, step : 0 .. Len(Session),
                                  sessions : 0 .. MaxSessions]]
      <4> HIDE DEF x
      <4>1. x \in Nat /\ "got" \in At
        BY <1>2 DEF Address, At
      <4>2. QED
        BY <1>1, <1>11, <4>1, TakesNode DEF Accounting
    <3>3. QED
      BY <1>1, <1>11, <3>1, <3>2 DEF Accounting, TypeOK
  <2>2. /\ Free' = Free \ {x} /\ Used' = Used \cup {x} /\ g_pool'.state = "open"
        /\ g_pool'.total_connections = g_pool.total_connections
    <3> HIDE DEF p, x
    <3> QED
      BY <1>1, <1>2, <1>11 DEF Free, Used
  <2>3. Accounting'
    <3> HIDE DEF x
    <3>1. g_pool'.total_connections = Len(g_pool'.free_list) + Len(g_pool'.used_list)
      <4> HIDE DEF p
      <4>1. /\ Len(g_pool'.free_list) = Len(g_pool.free_list) - 1
            /\ Len(g_pool'.used_list) = Len(g_pool.used_list) + 1
        BY <1>2, <1>11
      <4>2. QED
        BY <1>1, <2>2, <4>1, CountMoves
    <3>2. Free' \cap Used' = {} /\ Free' \cup Used' = DOMAIN mysql'
      BY <1>1, <1>2, <1>11, <2>2, Books
    <3>3. IsInjective(g_pool'.free_list) /\ IsInjective(g_pool'.used_list)
      BY <1>2, <1>11
    <3>4. QED
      BY <1>1, <1>11, <2>1, <2>2, <3>1, <3>2, <3>3 DEF Accounting, Free, Used
  <2>4. thread'[t].at = "got" /\ thread'[t].conn = x /\ \A u \in Thread : u # t => thread'[u] = thread[u]
    BY <1>1, <1>11 DEF Accounting, TypeOK
  <2>5. Held(t)' = {x}
    BY <2>4 DEF Held
  <2>6. \A u \in Thread : u # t => Held(u)' = Held(u) /\ thread'[u].at = thread[u].at
    BY <1>11, <2>4 DEF Held
  <2>7. HeldIsOwn'
    <3> HIDE DEF x
    <3> QED
      BY <1>1, <1>2, <1>4, <2>2, <2>4, <2>5, <2>6, HeldTransfer
  <2>8. QED
    BY <2>2, <2>3, <2>7 DEF IInv, NobodyBefore
<1>12. CASE /\ g_pool' = p /\ mysql' = [mysql EXCEPT ![x] = a] /\ handle' = Connected(closed)
            /\ thread' = [thread EXCEPT ![t].at = "got", ![t].conn = x]
  <2>1. /\ mysql' \in [DOMAIN mysql -> Address] /\ DOMAIN mysql' = DOMAIN mysql
        /\ mysql'[x] = a /\ \A y \in DOMAIN mysql : y # x => mysql'[y] = mysql[y]
    <3> HIDE DEF a, x
    <3> QED
      BY <1>1, <1>2, <1>3, <1>7, <1>12, Books
  <2>2. handle' \in [DOMAIN closed \cup {a} -> {"ok", "broken"}] /\ DOMAIN handle' = DOMAIN closed \cup {a}
    BY <1>8, <1>12 DEF Connected
  <2> HIDE DEF a, closed
  <2>3. TypeOK'
    <3>1. g_pool' \in [state : {"none", "open", "closed"}, free_list : Seq(Address),
                       used_list : Seq(Address), total_connections : Int]
      <4> HIDE DEF p
      <4> QED
        BY <1>1, <1>2, <1>12 DEF Accounting, TypeOK
    <3>2. thread' \in [Thread -> [at : At, conn : Nat, mysql : Nat, step : 0 .. Len(Session),
                                  sessions : 0 .. MaxSessions]]
      <4> HIDE DEF x
      <4>1. x \in Nat /\ "got" \in At
        BY <1>2 DEF Address, At
      <4>2. QED
        BY <1>1, <1>12, <4>1, TakesNode DEF Accounting
    <3>3. DOMAIN mysql' \subseteq Address /\ DOMAIN handle' \subseteq Address /\ IsFiniteSet(DOMAIN handle')
      BY <1>1, <1>8, <2>1, <2>2, Books
    <3>4. QED
      BY <1>1, <2>1, <2>2, <3>1, <3>2, <3>3 DEF Accounting, TypeOK
  <2>4. /\ Free' = Free \ {x} /\ Used' = Used \cup {x} /\ g_pool'.state = "open"
        /\ g_pool'.total_connections = g_pool.total_connections
    <3> HIDE DEF p, x
    <3> QED
      BY <1>1, <1>2, <1>12 DEF Free, Used
  <2>5. Accounting'
    <3> HIDE DEF x
    <3>1. g_pool'.total_connections = Len(g_pool'.free_list) + Len(g_pool'.used_list)
      <4> HIDE DEF p
      <4>1. /\ Len(g_pool'.free_list) = Len(g_pool.free_list) - 1
            /\ Len(g_pool'.used_list) = Len(g_pool.used_list) + 1
        BY <1>2, <1>12
      <4>2. QED
        BY <1>1, <2>4, <4>1, CountMoves
    <3>2. Free' \cap Used' = {} /\ Free' \cup Used' = DOMAIN mysql'
      BY <1>1, <1>2, <2>1, <2>4, Books
    <3>3. IsInjective(g_pool'.free_list) /\ IsInjective(g_pool'.used_list)
      BY <1>2, <1>12
    <3>4. IsInjective(mysql')
      BY <1>1, <1>7, <1>10, <2>1, Books DEF IsInjective
    <3>5. \A y \in DOMAIN mysql' : mysql'[y] \in DOMAIN handle'
      BY <1>10, <2>1, <2>2
    <3>6. QED
      BY <1>1, <2>3, <2>4, <3>1, <3>2, <3>3, <3>4, <3>5 DEF Accounting, Free, Used
  <2>6. thread'[t].at = "got" /\ thread'[t].conn = x /\ \A u \in Thread : u # t => thread'[u] = thread[u]
    BY <1>1, <1>12 DEF Accounting, TypeOK
  <2>7. Held(t)' = {x}
    BY <2>6 DEF Held
  <2>8. \A u \in Thread : u # t => Held(u)' = Held(u) /\ thread'[u].at = thread[u].at
    <3> HIDE DEF x
    <3>1. \A y \in Used : y # x => mysql'[x] # mysql[y]
      BY <1>7, <1>9, <2>1
    <3>2. QED
      BY <1>1, <1>5, <2>1, <2>6, <3>1, OthersHold
  <2>9. HeldIsOwn'
    <3> HIDE DEF x
    <3> QED
      BY <1>1, <1>2, <1>4, <2>4, <2>6, <2>7, <2>8, HeldTransfer
  <2>10. QED
    BY <2>4, <2>5, <2>9 DEF IInv, NobodyBefore
<1>13. CASE /\ g_pool' = Discarded(p, x) /\ mysql' = Drop(mysql, x) /\ handle' = LeftBehind(closed)
            /\ thread' = [thread EXCEPT ![t].at = "done"]
  <2>1. /\ mysql' \in [DOMAIN mysql \ {x} -> Address] /\ DOMAIN mysql' = DOMAIN mysql \ {x}
        /\ \A y \in DOMAIN mysql : y # x => mysql'[y] = mysql[y]
    <3> HIDE DEF x
    <3> QED
      BY <1>1, <1>2, <1>13, Books DEF Drop
  <2>2. handle' \in [DOMAIN closed \cup {a} -> {"ok", "broken"}] /\ DOMAIN handle' = DOMAIN closed \cup {a}
    BY <1>8, <1>13 DEF LeftBehind
  <2> HIDE DEF a, closed
  <2>3. /\ g_pool' = [state |-> p.state, free_list |-> p.free_list, used_list |-> g_pool'.used_list,
                      total_connections |-> p.total_connections - 1]
        /\ g_pool'.used_list \in Seq(Address) /\ IsInjective(g_pool'.used_list)
        /\ Len(g_pool'.used_list) = Len(p.used_list) - 1
        /\ ToSet(g_pool'.used_list) = ToSet(p.used_list) \ {x}
    <3> HIDE DEF p, x
    <3>1. x \in ToSet(p.used_list)
      BY <1>2
    <3>2. p = [state |-> p.state, free_list |-> p.free_list, used_list |-> p.used_list,
               total_connections |-> p.total_connections]
      BY <1>2
    <3>3. QED
      BY <1>2, <1>13, <3>1, <3>2, DiscardedFacts
  <2>4. p.state = "open" /\ p.total_connections = g_pool.total_connections /\ p.free_list \in Seq(Address)
    <3> HIDE DEF p
    <3> QED
      BY <1>1, <1>2
  <2>5. TypeOK'
    <3>1. g_pool' \in [state : {"none", "open", "closed"}, free_list : Seq(Address),
                       used_list : Seq(Address), total_connections : Int]
      <4> HIDE DEF p
      <4>1. p.total_connections - 1 \in Int
        BY <1>1, <2>4 DEF Accounting, TypeOK
      <4>2. QED
        BY <2>3, <2>4, <4>1
    <3>2. thread' \in [Thread -> [at : At, conn : Nat, mysql : Nat, step : 0 .. Len(Session),
                                  sessions : 0 .. MaxSessions]]
      BY <1>1, <1>13, ZenonT(60) DEF Accounting, TypeOK, At
    <3>3. DOMAIN mysql' \subseteq Address /\ DOMAIN handle' \subseteq Address /\ IsFiniteSet(DOMAIN handle')
      BY <1>1, <1>8, <2>1, <2>2, Books
    <3>4. QED
      BY <1>1, <2>1, <2>2, <3>1, <3>2, <3>3 DEF Accounting, TypeOK
  <2>6. /\ Free' = Free \ {x} /\ Used' = Used /\ g_pool'.state = "open"
        /\ g_pool'.total_connections = g_pool.total_connections - 1
        /\ g_pool'.free_list = p.free_list
    <3> HIDE DEF p, x
    <3> QED
      BY <1>2, <2>3, <2>4 DEF Free, Used
  <2>7. Accounting'
    <3> HIDE DEF x
    <3>1. /\ g_pool'.total_connections = Len(g_pool'.free_list) + Len(g_pool'.used_list)
          /\ g_pool'.total_connections <= MAX_POOL_SIZE
      <4> HIDE DEF p
      <4>1. /\ Len(g_pool'.free_list) = Len(g_pool.free_list) - 1
            /\ Len(g_pool'.used_list) = (Len(g_pool.used_list) + 1) - 1
        BY <1>2, <2>3, <2>6
      <4>2. QED
        BY <1>1, <2>6, <4>1, CountMoves
    <3>2. Free' \cap Used' = {} /\ Free' \cup Used' = DOMAIN mysql'
      BY <1>1, <1>2, <2>1, <2>6, Books
    <3>3. IsInjective(g_pool'.free_list) /\ IsInjective(g_pool'.used_list)
      BY <1>2, <2>3, <2>6
    <3>4. IsInjective(mysql')
      BY <1>1, <2>1, Books DEF IsInjective
    <3>5. \A y \in DOMAIN mysql' : mysql'[y] \in DOMAIN handle'
      BY <1>10, <2>1, <2>2
    <3>6. QED
      BY <2>5, <3>1, <3>2, <3>3, <3>4, <3>5 DEF Accounting, Free, Used
  <2>8. thread'[t].at = "done" /\ \A u \in Thread : u # t => thread'[u] = thread[u]
    BY <1>1, <1>13 DEF Accounting, TypeOK
  <2>9. Held(t)' = {}
    BY <2>8 DEF Held
  <2>10. \A u \in Thread : u # t => Held(u)' = Held(u) /\ thread'[u].at = thread[u].at
    <3> HIDE DEF x
    <3>1. x \notin DOMAIN mysql' /\ DOMAIN mysql' \cup {x} = DOMAIN mysql \cup {x}
      BY <2>1
    <3>2. QED
      BY <1>1, <1>5, <2>1, <2>8, <3>1, OthersHold
  <2>11. HeldIsOwn'
    BY <1>1, <1>4, <2>6, <2>8, <2>9, <2>10, HeldTransfer
  <2>12. QED
    BY <2>6, <2>7, <2>11 DEF IInv, NobodyBefore
<1>14. QED
  BY <1>11, <1>12, <1>13 DEF GetFree
(* The pool grows by a connection for the caller.                           *)
LEMMA GetNewStep ==
  ASSUME IInv, NEW t \in Thread, GetNew(t)
  PROVE  IInv'
<1> DEFINE x == NewAddress(mysql)
           a == NewAddress(handle)
<1>1. /\ thread[t].at = "get" /\ g_pool.state = "open" /\ Accounting
      /\ g_pool.total_connections < MAX_POOL_SIZE /\ server' = server
      /\ g_pool' = [g_pool EXCEPT !.used_list = <<x>> \o @, !.total_connections = @ + 1]
      /\ mysql' = Put(mysql, x, a) /\ handle' = Put(handle, a, "ok")
      /\ thread' = [thread EXCEPT ![t].at = "got", ![t].conn = x]
  BY DEF GetNew, IInv, MayGrow, Connected
<1>2. x \in Address /\ x \notin DOMAIN mysql /\ a \in Address /\ a \notin DOMAIN handle
  BY <1>1, NodesFinite, NewAddressFacts, Books
<1> HIDE DEF x, a
<1>3. Held(t) = {}
  BY <1>1 DEF Held
<1>4. \A u \in Thread : x \notin Held(u)
  <2>1. \A u \in Thread : thread[u].at \in {"got", "use", "release"} => Held(u) \subseteq Used
    BY <1>1 DEF IInv, HeldIsOwn, Used
  <2>2. \A u \in Thread : thread[u].at \notin {"got", "use", "release"} => Held(u) = {}
    BY DEF Held
  <2>3. Used \subseteq DOMAIN mysql
    BY <1>1, Books
  <2>4. QED
    BY <1>2, <2>1, <2>2, <2>3
<1>5. /\ mysql' \in [DOMAIN mysql \cup {x} -> Address] /\ DOMAIN mysql' = DOMAIN mysql \cup {x}
      /\ mysql'[x] = a /\ \A y \in DOMAIN mysql : y # x => mysql'[y] = mysql[y]
  BY <1>1, <1>2, Books DEF Put
<1>6. /\ handle' \in [DOMAIN handle \cup {a} -> {"ok", "broken"}]
      /\ DOMAIN handle' = DOMAIN handle \cup {a}
  BY <1>1, <1>2, Books DEF Put
<1>7. /\ <<x>> \o g_pool.used_list \in Seq(Address)
      /\ Len(<<x>> \o g_pool.used_list) = Len(g_pool.used_list) + 1
      /\ ToSet(<<x>> \o g_pool.used_list) = Used \cup {x}
      /\ IsInjective(<<x>> \o g_pool.used_list)
  <2>1. x \notin Used /\ g_pool.used_list \in Seq(Address) /\ IsInjective(g_pool.used_list)
    BY <1>1, <1>2, Books DEF Accounting
  <2>2. QED
    BY <1>2, <2>1, ConsFacts DEF Used
<1>8. /\ g_pool'.free_list = g_pool.free_list /\ g_pool'.used_list = <<x>> \o g_pool.used_list
      /\ g_pool'.total_connections = g_pool.total_connections + 1 /\ g_pool'.state = "open"
  BY <1>1, Books
<1>9. Free' = Free /\ Used' = Used \cup {x}
  BY <1>7, <1>8 DEF Free, Used
<1>10. TypeOK'
  <2>1. g_pool' \in [state : {"none", "open", "closed"}, free_list : Seq(Address),
                     used_list : Seq(Address), total_connections : Int]
    <3>1. g_pool.total_connections + 1 \in Int
      BY <1>1 DEF Accounting, TypeOK
    <3>2. g_pool' = [state |-> "open", free_list |-> g_pool.free_list,
                     used_list |-> <<x>> \o g_pool.used_list,
                     total_connections |-> g_pool.total_connections + 1]
      BY <1>1, Books
    <3>3. QED
      BY <1>1, <1>7, <3>1, <3>2, Books
  <2>2. thread' \in [Thread -> [at : At, conn : Nat, mysql : Nat, step : 0 .. Len(Session),
                                sessions : 0 .. MaxSessions]]
    <3>1. x \in Nat /\ "got" \in At
      BY <1>2 DEF Address, At
    <3>2. QED
      BY <1>1, <3>1, TakesNode DEF Accounting
  <2>3. DOMAIN mysql' \subseteq Address /\ DOMAIN handle' \subseteq Address
    BY <1>1, <1>2, <1>5, <1>6, Books
  <2>4. IsFiniteSet(DOMAIN handle')
    <3>1. IsFiniteSet(DOMAIN handle \cup {a})
      BY <1>1, Books, FS_AddElement
    <3>2. QED
      BY <1>6, <3>1
  <2>5. QED
    BY <1>1, <1>5, <1>6, <2>1, <2>2, <2>3, <2>4 DEF Accounting, TypeOK
<1>11. Accounting'
  <2>1. /\ g_pool'.total_connections = Len(g_pool'.free_list) + Len(g_pool'.used_list)
        /\ g_pool'.total_connections <= MAX_POOL_SIZE
    BY <1>1, <1>7, <1>8, CountMoves
  <2>2. Free' \cap Used' = {} /\ Free' \cup Used' = DOMAIN mysql'
    BY <1>1, <1>2, <1>5, <1>9, Books
  <2>3. IsInjective(g_pool'.free_list) /\ IsInjective(g_pool'.used_list)
    BY <1>1, <1>7, <1>8 DEF Accounting
  <2>4. IsInjective(mysql')
    BY <1>1, <1>2, <1>5, Books DEF IsInjective
  <2>5. \A y \in DOMAIN mysql' : mysql'[y] \in DOMAIN handle'
    BY <1>1, <1>5, <1>6, Books
  <2>6. QED
    BY <1>10, <2>1, <2>2, <2>3, <2>4, <2>5 DEF Accounting, Free, Used
<1>12. thread'[t].at = "got" /\ thread'[t].conn = x /\ \A u \in Thread : u # t => thread'[u] = thread[u]
  BY <1>1 DEF Accounting, TypeOK
<1>13. Held(t)' = {x}
  BY <1>12 DEF Held
<1>14. \A u \in Thread : u # t => Held(u)' = Held(u) /\ thread'[u].at = thread[u].at
  <2>1. \A y \in Used : y # x => mysql'[x] # mysql[y]
    BY <1>1, <1>2, <1>5, Books
  <2>2. DOMAIN mysql' \cup {x} = DOMAIN mysql \cup {x}
    BY <1>5
  <2>3. QED
    BY <1>1, <1>4, <1>5, <1>12, <2>1, <2>2, OthersHold
<1>15. HeldIsOwn'
  <2>1. Held(t)' \cap Used \subseteq Held(t)
    BY <1>1, <1>2, <1>13, Books
  <2>2. QED
    BY <1>1, <1>3, <1>9, <1>12, <1>13, <1>14, <2>1, HeldTransfer
<1>16. QED
  BY <1>8, <1>11, <1>15 DEF IInv, NobodyBefore

(* A step that moves one thread and keeps what it holds.                    *)
LEMMA ThreadMoves ==
  ASSUME IInv, NEW t \in Thread, UNCHANGED <<g_pool, mysql, handle, server>>,
         thread' \in [Thread -> [at : At, conn : Nat, mysql : Nat, step : 0 .. Len(Session),
                                 sessions : 0 .. MaxSessions]],
         \A u \in Thread : u # t => thread'[u] = thread[u],
         g_pool.state # "none",
         g_pool.state = "open" =>
           /\ Held(t)' = Held(t) /\ thread'[t].at # "undefined"
           /\ thread'[t].at \in {"got", "use", "release"} => Held(t) # {}
  PROVE  IInv'
<1>1. Accounting'
  BY DEF IInv, Accounting, TypeOK
<1>2. Used' = Used
  BY DEF Used
<1>3. CASE g_pool.state = "open"
  <2>1. Held(t)' = Held(t) /\ thread'[t].at # "undefined"
    BY <1>3
  <2>2. Held(t) \subseteq Used
    BY <1>3 DEF IInv, HeldIsOwn, Used, Held
  <2>3. \A u \in Thread : u # t => Held(u)' = Held(u) /\ thread'[u].at = thread[u].at
    BY DEF Held
  <2>4. HeldIsOwn'
    BY <1>2, <1>3, <2>1, <2>2, <2>3, HeldTransfer
  <2>5. QED
    BY <1>1, <2>4 DEF IInv, NobodyBefore
<1>4. CASE g_pool.state # "open"
  BY <1>1, <1>4 DEF IInv, HeldIsOwn, NobodyBefore
<1>5. QED
  BY <1>3, <1>4
(* The handle is read from the node.                                        *)
LEMMA ReturnStep ==
  ASSUME IInv, NEW t \in Thread, Return(t)
  PROVE  IInv'
<1> DEFINE R == [at : At, conn : Nat, mysql : Nat, step : 0 .. Len(Session),
                 sessions : 0 .. MaxSessions]
           h == mysql[thread[t].conn]
           r == [thread[t] EXCEPT !.at = "use", !.mysql = h, !.conn = 0, !.step = 1]
<1>1. /\ thread[t].at = "got" /\ thread[t].conn \in DOMAIN mysql
      /\ UNCHANGED <<g_pool, mysql, handle, server>>
      /\ thread' = [thread EXCEPT ![t].at = "use", ![t].mysql = h, ![t].conn = 0, ![t].step = 1]
  BY DEF Return
<1>2. thread \in [Thread -> R] /\ thread[t] \in R
  BY DEF IInv, Accounting, TypeOK
<1>3. h \in Nat /\ 1 \in 0 .. Len(Session) /\ "use" \in At
  BY <1>1 DEF IInv, Accounting, TypeOK, Address, Session, At
<1> HIDE DEF h
<1>4. /\ r \in R /\ r.at = "use" /\ r.mysql = h
  <2> USE <1>2, <1>3
  <2>1. r \in R
    OBVIOUS
  <2>2. r.at = "use" /\ r.mysql = h
    OBVIOUS
  <2>3. QED
    BY <2>1, <2>2
<1>5. thread' = [thread EXCEPT ![t] = r]
  BY <1>1, <1>2
<1> HIDE DEF r
<1>6. thread' \in [Thread -> R] /\ thread'[t] = r /\ \A u \in Thread : u # t => thread'[u] = thread[u]
  <2> HIDE DEF R
  <2> QED
    BY <1>2, <1>4, <1>5
<1>7. g_pool.state # "none"
  BY <1>1 DEF IInv, NobodyBefore
<1>8. Held(t) = {thread[t].conn}
  BY <1>1 DEF Held
<1>9. Held(t)' = {y \in DOMAIN mysql : mysql[y] = h}
  BY <1>1, <1>4, <1>6 DEF Held
<1>10. Held(t)' = Held(t)
  BY <1>1, <1>8, <1>9 DEF h, IInv, Accounting, IsInjective
<1>11. thread'[t].at = "use"
  BY <1>4, <1>6
<1>12. QED
  <2>1. g_pool.state = "open" =>
           /\ Held(t)' = Held(t) /\ thread'[t].at # "undefined"
           /\ thread'[t].at \in {"got", "use", "release"} => Held(t) # {}
    BY <1>8, <1>10, <1>11
  <2>2. QED
    BY <1>1, <1>6, <1>7, <2>1, ThreadMoves

(* A statement of the session.                                              *)
LEMMA StatementStep ==
  ASSUME IInv, NEW t \in Thread, Statement(t)
  PROVE  IInv'
<1> DEFINE R == [at : At, conn : Nat, mysql : Nat, step : 0 .. Len(Session),
                 sessions : 0 .. MaxSessions]
<1>1. thread \in [Thread -> R] /\ thread[t] \in R /\ thread[t].at = "use" /\ Len(Session) = 7
  BY DEF Statement, IInv, Accounting, TypeOK, Session
<1>2. \/ thread' = [thread EXCEPT ![t].at = "release", ![t].step = 0]
      \/ thread[t].step # Len(Session) /\ thread' = [thread EXCEPT ![t].step = @ + 1]
  BY DEF Statement, LastStatement
<1>3. \E r \in R : /\ thread' = [thread EXCEPT ![t] = r] /\ r.at \in {"use", "release"}
                   /\ r.mysql = thread[t].mysql
  <2>1. CASE thread' = [thread EXCEPT ![t].at = "release", ![t].step = 0]
    <3> DEFINE r == [thread[t] EXCEPT !.at = "release", !.step = 0]
    <3>1. "release" \in At /\ 0 \in 0 .. Len(Session)
      BY <1>1 DEF At
    <3>2. r \in R
      BY <1>1, <3>1
    <3>3. r.at = "release" /\ r.mysql = thread[t].mysql
      BY <1>1
    <3>4. thread' = [thread EXCEPT ![t] = r]
      BY <1>1, <2>1
    <3>5. QED
      BY <3>2, <3>3, <3>4
  <2>2. CASE thread[t].step # Len(Session) /\ thread' = [thread EXCEPT ![t].step = @ + 1]
    <3> DEFINE r == [thread[t] EXCEPT !.step = thread[t].step + 1]
    <3>1. thread[t].step + 1 \in 0 .. Len(Session)
      BY <1>1, <2>2
    <3>2. r \in R
      BY <1>1, <3>1
    <3>3. r.at = "use" /\ r.mysql = thread[t].mysql
      BY <1>1
    <3>4. thread' = [thread EXCEPT ![t] = r]
      BY <1>1, <2>2
    <3>5. QED
      BY <3>2, <3>3, <3>4
  <2>3. QED
    BY <1>2, <2>1, <2>2
<1>4. /\ thread' \in [Thread -> R] /\ \A u \in Thread : u # t => thread'[u] = thread[u]
      /\ thread'[t].at \in {"use", "release"} /\ thread'[t].mysql = thread[t].mysql
  <2>1. PICK r \in R : /\ thread' = [thread EXCEPT ![t] = r] /\ r.at \in {"use", "release"}
                       /\ r.mysql = thread[t].mysql
    BY <1>3
  <2> HIDE DEF R
  <2>2. thread'[t] = r
    BY <1>1, <2>1
  <2>3. QED
    BY <1>1, <2>1, <2>2
<1>5. UNCHANGED <<g_pool, mysql, handle, server>>
  BY DEF Statement
<1>6. Held(t)' = Held(t)
  BY <1>1, <1>4, <1>5 DEF Held
<1>7. g_pool.state # "none"
  BY <1>1 DEF IInv, NobodyBefore
<1>8. g_pool.state = "open" => Held(t) # {}
  BY <1>1 DEF IInv, HeldIsOwn
<1>9. thread'[t].at # "undefined"
  BY <1>4
<1>10. QED
  BY <1>4, <1>5, <1>6, <1>7, <1>8, <1>9, ThreadMoves

(* A thread goes to another place and changes nothing else of its record.   *)
LEMMA PlaceMoves ==
  ASSUME IInv, NEW t \in Thread, NEW a \in At, thread' = [thread EXCEPT ![t].at = a]
  PROVE  thread' \in [Thread -> [at : At, conn : Nat, mysql : Nat, step : 0 .. Len(Session),
                                 sessions : 0 .. MaxSessions]]
<1> DEFINE R == [at : At, conn : Nat, mysql : Nat, step : 0 .. Len(Session),
                 sessions : 0 .. MaxSessions]
           r == [thread[t] EXCEPT !.at = a]
<1>1. thread \in [Thread -> R] /\ thread[t] \in R
  BY DEF IInv, Accounting, TypeOK
<1>2. r \in R
  BY <1>1
<1>3. thread' = [thread EXCEPT ![t] = r]
  BY <1>1
<1> HIDE DEF R, r
<1>4. thread' \in [Thread -> R]
  BY <1>1, <1>2, <1>3
<1>5. QED
  BY <1>4 DEF R

(* Nothing undefined happens while the pool is open.                        *)
LEMMA UndefinedStep ==
  ASSUME IInv, NEW t \in Thread,
         \/ GetAfterClose(t) \/ ReturnAfterClose(t)
         \/ StatementAfterClose(t) \/ ReleaseAfterClose(t)
  PROVE  IInv'
<1>1. thread[t].at # "start" /\ Undefined(t)
  BY DEF GetAfterClose, ReturnAfterClose, StatementAfterClose, ReleaseAfterClose
<1>2. g_pool.state # "open"
  <2> SUFFICES ASSUME g_pool.state = "open"
               PROVE  FALSE
    OBVIOUS
  <2>1. CASE GetAfterClose(t) \/ ReleaseAfterClose(t)
    BY <2>1 DEF GetAfterClose, ReleaseAfterClose
  <2>2. CASE ReturnAfterClose(t)
    <3>1. thread[t].at = "got" /\ thread[t].conn \notin DOMAIN mysql
      BY <2>2 DEF ReturnAfterClose
    <3>2. QED
      BY <3>1, HeldNode
  <2>3. CASE StatementAfterClose(t)
    <3>1. thread[t].at = "use" /\ thread[t].mysql \notin DOMAIN handle
      BY <2>3 DEF StatementAfterClose
    <3>2. QED
      BY <3>1, HeldNode, Books DEF IInv
  <2>4. QED
    BY <2>1, <2>2, <2>3
<1>3. g_pool.state # "none"
  BY <1>1 DEF IInv, NobodyBefore
<1>4. thread' \in [Thread -> [at : At, conn : Nat, mysql : Nat, step : 0 .. Len(Session),
                              sessions : 0 .. MaxSessions]]
  BY <1>1, PlaceMoves, "undefined" \in At DEF Undefined, At
<1>5. \A u \in Thread : u # t => thread'[u] = thread[u]
  BY <1>1 DEF IInv, Accounting, TypeOK, Undefined
<1>6. QED
  BY <1>1, <1>2, <1>3, <1>4, <1>5, ThreadMoves DEF Undefined

(* A thread begins a session.                                               *)
LEMMA BeginStep ==
  ASSUME IInv, NEW t \in Thread, Begin(t)
  PROVE  IInv'
<1> DEFINE R == [at : At, conn : Nat, mysql : Nat, step : 0 .. Len(Session),
                 sessions : 0 .. MaxSessions]
           r == [thread[t] EXCEPT !.at = "get", !.sessions = thread[t].sessions + 1]
<1>1. thread \in [Thread -> R] /\ thread[t] \in R
  BY DEF IInv, Accounting, TypeOK
<1>2. /\ thread[t].at = "start" /\ g_pool.state = "open" /\ thread[t].sessions < MaxSessions
      /\ thread' = [thread EXCEPT ![t].at = "get", ![t].sessions = @ + 1]
      /\ UNCHANGED <<g_pool, mysql, handle, server>>
  BY DEF Begin
<1>3. thread[t].sessions + 1 \in 0 .. MaxSessions /\ "get" \in At
  BY <1>1, <1>2, PoolAssumption DEF At
<1>4. r \in R
  BY <1>1, <1>3
<1>5. r.at = "get"
  BY <1>1
<1>6. thread' = [thread EXCEPT ![t] = r]
  BY <1>1, <1>2
<1>7. /\ thread' \in [Thread -> R] /\ thread'[t] = r
      /\ \A u \in Thread : u # t => thread'[u] = thread[u]
  <2> HIDE DEF R, r
  <2> QED
    BY <1>1, <1>4, <1>6
<1>8. thread'[t].at = "get"
  BY <1>5, <1>7
<1>9. Held(t) = {} /\ Held(t)' = {}
  BY <1>2, <1>8 DEF Held
<1>10. QED
  BY <1>2, <1>7, <1>8, <1>9, ThreadMoves, ZenonT(60)
(* release finds the node of the handle, which is the caller's.             *)
LEMMA ReleaseStep ==
  ASSUME IInv, NEW t \in Thread, release_connection_to_pool(t)
  PROVE  IInv'
<1> DEFINE R == [at : At, conn : Nat, mysql : Nat, step : 0 .. Len(Session),
                 sessions : 0 .. MaxSessions]
           h == thread[t].mysql
           x == g_pool.used_list[Min(NodesOf(h))]
           r == [thread[t] EXCEPT !.at = After(t), !.mysql = 0]
<1>1. /\ thread[t].at = "release" /\ g_pool.state = "open" /\ server' = server /\ Accounting
      /\ thread' = [thread EXCEPT ![t].at = After(t), ![t].mysql = 0]
  BY DEF release_connection_to_pool, IInv
<1>2. PICK y \in Used : Held(t) = {y} /\ y \in DOMAIN mysql /\ mysql[y] = h
  BY <1>1, HeldNode
<1>3. NodesOf(h) # {} /\ x = y
  <2>1. g_pool.used_list \in Seq(Address) /\ Len(g_pool.used_list) \in Nat
    BY <1>1, Books
  <2>2. PICK i \in 1 .. Len(g_pool.used_list) : g_pool.used_list[i] = y
    BY <1>2, <2>1 DEF Used, ToSet
  <2>3. i \in NodesOf(h)
    BY <1>2, <2>2 DEF NodesOf
  <2>4. NodesOf(h) \in SUBSET Nat
    BY <2>1 DEF NodesOf
  <2>5. Min(NodesOf(h)) \in NodesOf(h)
    BY <2>3, <2>4, MinFacts
  <2>6. x \in Used /\ mysql[x] = h
    <3>1. PICK k \in NodesOf(h) : x = g_pool.used_list[k]
      BY <2>5
    <3>2. QED
      BY <2>1, <3>1 DEF NodesOf, Used, ToSet
  <2>7. QED
    BY <1>1, <1>2, <2>3, <2>6, Books
<1>4. x \in Used /\ Held(t) = {x} /\ x \in DOMAIN mysql /\ mysql[x] = h /\ h \in DOMAIN handle
  BY <1>1, <1>2, <1>3, Books
<1>5. \/ g_pool' = Freed(g_pool, x) /\ UNCHANGED <<mysql, handle>>
      \/ /\ g_pool' = Discarded(g_pool, x) /\ mysql' = Drop(mysql, x)
         /\ handle' = mysql_close(handle, h)
  BY <1>3 DEF release_connection_to_pool
<1> HIDE DEF x
<1>6. thread \in [Thread -> R] /\ thread[t] \in R
  BY <1>1 DEF Accounting, TypeOK
<1>7. After(t) \in At /\ After(t) \notin {"got", "use", "release", "undefined"}
  BY DEF After, At
<1>8. r \in R
  BY <1>6, <1>7
<1>9. r.at = After(t)
  BY <1>6
<1>10. thread' = [thread EXCEPT ![t] = r]
  BY <1>1, <1>6
<1> HIDE DEF r
<1>11. /\ thread' \in [Thread -> R] /\ thread'[t].at = After(t)
       /\ \A u \in Thread : u # t => thread'[u] = thread[u]
  <2> HIDE DEF R
  <2>1. thread' \in [Thread -> R] /\ thread'[t] = r /\ \A u \in Thread : u # t => thread'[u] = thread[u]
    BY <1>6, <1>8, <1>10
  <2>2. QED
    BY <1>9, <2>1
<1>12. Held(t)' = {}
  BY <1>7, <1>11 DEF Held
<1>13. \A u \in Thread : u # t => x \notin Held(u)
  <2>1. \A u \in Thread : u # t => Held(u) \cap Held(t) = {}
    BY <1>1 DEF IInv, HeldIsOwn
  <2>2. QED
    BY <1>4, <2>1
<1> HIDE DEF h
<1>14. CASE g_pool' = Freed(g_pool, x) /\ UNCHANGED <<mysql, handle>>
  <2> DEFINE q == g_pool'
  <2>1. /\ q = [state |-> g_pool.state, free_list |-> q.free_list, used_list |-> q.used_list,
                total_connections |-> g_pool.total_connections]
        /\ q.used_list \in Seq(Address) /\ q.free_list \in Seq(Address)
        /\ IsInjective(q.used_list) /\ IsInjective(q.free_list)
        /\ Len(q.used_list) = Len(g_pool.used_list) - 1
        /\ Len(q.free_list) = Len(g_pool.free_list) + 1
        /\ ToSet(q.used_list) = Used \ {x} /\ ToSet(q.free_list) = Free \cup {x}
    BY <1>1, <1>4, <1>14, FreedFacts
  <2>2. TypeOK'
    <3>1. g_pool' \in [state : {"none", "open", "closed"}, free_list : Seq(Address),
                       used_list : Seq(Address), total_connections : Int]
      BY <1>1, <2>1 DEF Accounting, TypeOK
    <3>2. QED
      BY <1>1, <1>11, <1>14, <3>1 DEF Accounting, TypeOK
  <2>3. /\ Free' = Free \cup {x} /\ Used' = Used \ {x} /\ g_pool'.state = "open"
        /\ g_pool'.total_connections = g_pool.total_connections
    BY <1>1, <2>1 DEF Free, Used
  <2>4. Accounting'
    <3>1. /\ g_pool'.total_connections = Len(g_pool'.free_list) + Len(g_pool'.used_list)
          /\ g_pool'.total_connections <= MAX_POOL_SIZE
      BY <1>1, <2>1, <2>3, CountMoves
    <3>2. Free' \cap Used' = {} /\ Free' \cup Used' = DOMAIN mysql'
      BY <1>1, <1>4, <1>14, <2>3, Books
    <3>3. QED
      BY <1>1, <1>14, <2>1, <2>2, <3>1, <3>2 DEF Accounting, Free, Used
  <2>5. \A u \in Thread : u # t => Held(u)' = Held(u) /\ thread'[u].at = thread[u].at
    BY <1>11, <1>14 DEF Held
  <2>6. HeldIsOwn'
    BY <1>1, <1>4, <1>7, <1>11, <1>12, <2>3, <2>5, HeldTransfer
  <2>7. QED
    BY <2>3, <2>4, <2>6 DEF IInv, NobodyBefore
<1>15. CASE /\ g_pool' = Discarded(g_pool, x) /\ mysql' = Drop(mysql, x)
            /\ handle' = mysql_close(handle, h)
  <2>1. /\ g_pool' = [state |-> g_pool.state, free_list |-> g_pool.free_list,
                      used_list |-> g_pool'.used_list,
                      total_connections |-> g_pool.total_connections - 1]
        /\ g_pool'.used_list \in Seq(Address) /\ IsInjective(g_pool'.used_list)
        /\ Len(g_pool'.used_list) = Len(g_pool.used_list) - 1
        /\ ToSet(g_pool'.used_list) = Used \ {x}
    <3>1. IsInjective(g_pool.used_list) /\ x \in ToSet(g_pool.used_list)
      BY <1>1, <1>4 DEF Accounting, Used
    <3>2. QED
      BY <1>1, <1>15, <3>1, Books, DiscardedFacts DEF Used
  <2>2. /\ mysql' \in [DOMAIN mysql \ {x} -> Address] /\ DOMAIN mysql' = DOMAIN mysql \ {x}
        /\ \A z \in DOMAIN mysql : z # x => mysql'[z] = mysql[z]
    BY <1>1, <1>15, Books DEF Drop
  <2>3. /\ handle' \in [DOMAIN handle \ {h} -> {"ok", "broken"}]
        /\ DOMAIN handle' = DOMAIN handle \ {h}
    BY <1>1, <1>15, Books DEF mysql_close, Drop
  <2>4. IsFiniteSet(DOMAIN handle \ {h})
    BY <1>1, Books, FS_Difference
  <2>5. TypeOK'
    <3>1. g_pool' \in [state : {"none", "open", "closed"}, free_list : Seq(Address),
                       used_list : Seq(Address), total_connections : Int]
      <4>1. g_pool.total_connections - 1 \in Int
        BY <1>1 DEF Accounting, TypeOK
      <4>2. QED
        BY <1>1, <2>1, <4>1, Books
    <3>2. DOMAIN mysql' \subseteq Address /\ DOMAIN handle' \subseteq Address
      BY <1>1, <2>2, <2>3, Books
    <3>3. QED
      BY <1>1, <1>11, <2>2, <2>3, <2>4, <3>1, <3>2 DEF Accounting, TypeOK
  <2>6. /\ Free' = Free /\ Used' = Used \ {x} /\ g_pool'.state = "open"
        /\ g_pool'.free_list = g_pool.free_list
        /\ g_pool'.total_connections = g_pool.total_connections - 1
    BY <1>1, <2>1 DEF Free, Used
  <2>7. Accounting'
    <3>1. /\ g_pool'.total_connections = Len(g_pool'.free_list) + Len(g_pool'.used_list)
          /\ g_pool'.total_connections <= MAX_POOL_SIZE
      BY <1>1, <2>1, <2>6, CountMoves
    <3>2. Free' \cap Used' = {} /\ Free' \cup Used' = DOMAIN mysql'
      BY <1>1, <1>4, <2>2, <2>6, Books
    <3>3. IsInjective(g_pool'.free_list)
      BY <1>1, <2>6 DEF Accounting
    <3>4. IsInjective(mysql')
      BY <1>1, <2>2, Books DEF IsInjective
    <3>5. \A z \in DOMAIN mysql' : mysql'[z] \in DOMAIN handle'
      BY <1>1, <1>4, <2>2, <2>3, Books
    <3>6. QED
      BY <2>1, <2>5, <3>1, <3>2, <3>3, <3>4, <3>5 DEF Accounting, Free, Used
  <2>8. \A u \in Thread : u # t => Held(u)' = Held(u) /\ thread'[u].at = thread[u].at
    <3>1. x \notin DOMAIN mysql' /\ DOMAIN mysql' \cup {x} = DOMAIN mysql \cup {x}
      BY <2>2
    <3>2. QED
      BY <1>1, <1>11, <1>13, <2>2, <3>1, OthersHold
  <2>9. HeldIsOwn'
    BY <1>1, <1>4, <1>7, <1>11, <1>12, <2>6, <2>8, HeldTransfer
  <2>10. QED
    BY <2>6, <2>7, <2>9 DEF IInv, NobodyBefore
<1>16. QED
  BY <1>5, <1>14, <1>15

(* main makes the pool, from the node of the last connection on.            *)
LEMMA InitPoolStep ==
  ASSUME IInv, init_connection_pool
  PROVE  IInv'
<1> DEFINE n == g_pool'.total_connections
           s == [i \in 1 .. n |-> n + 1 - i]
<1>1. /\ n \in 0 .. MAX_POOL_SIZE /\ n \in Nat
      /\ g_pool' = [state |-> "open", free_list |-> s, used_list |-> <<>>, total_connections |-> n]
      /\ mysql' = [x \in 1 .. n |-> x] /\ handle' = [h \in 1 .. n |-> "ok"]
      /\ thread' = [thread EXCEPT ![Main].at = "get"] /\ server' = server
      /\ \A t \in Thread : thread[t].at = "start"
  BY PoolAssumption DEF init_connection_pool, IInv, NobodyBefore
<1> HIDE DEF n
<1>2. s \in Seq(Address) /\ Len(s) = n
  <2>1. \A i \in 1 .. n : n + 1 - i \in Address
    BY <1>1 DEF Address
  <2>2. s \in [1 .. n -> Address]
    BY <2>1
  <2>3. s \in Seq(Address) /\ DOMAIN s = 1 .. n
    BY <1>1, <2>2, SeqDef
  <2>4. QED
    BY <1>1, <2>3, LenProperties
<1>3. IsInjective(s)
  BY <1>1 DEF IsInjective
<1>4. ToSet(s) = 1 .. n
  <2>1. \A y \in 1 .. n : (n + 1 - y) \in 1 .. n /\ s[n + 1 - y] = y
    BY <1>1
  <2>2. \A y \in 1 .. n : s[y] \in 1 .. n
    BY <1>1
  <2>3. QED
    BY <2>1, <2>2 DEF ToSet
<1>5. IsInjective(<<>>) /\ ToSet(<<>>) = {} /\ <<>> \in Seq(Address) /\ Len(<<>>) = 0
  BY DEF IsInjective, ToSet
<1> HIDE DEF s
<1>6. thread' \in [Thread -> [at : At, conn : Nat, mysql : Nat, step : 0 .. Len(Session),
                              sessions : 0 .. MaxSessions]]
  BY <1>1, PlaceMoves, PoolAssumption, "get" \in At DEF At
<1>7. \A t \in Thread : thread'[t].at \in {"start", "get"}
  BY <1>1 DEF IInv, Accounting, TypeOK
<1>8. /\ IsFiniteSet(1 .. n) /\ 1 .. n \subseteq Address
  <2>1. IsFiniteSet(1 .. n)
    BY <1>1, FS_Interval, 1 \in Int, n \in Int
  <2>2. QED
    BY <1>1, <2>1 DEF Address
<1>9. TypeOK'
  <2>1. g_pool' \in [state : {"none", "open", "closed"}, free_list : Seq(Address),
                     used_list : Seq(Address), total_connections : Int]
    BY <1>1, <1>2, <1>5
  <2>2. QED
    BY <1>1, <1>6, <1>8, <2>1 DEF IInv, Accounting, TypeOK
<1>10. Accounting'
  <2>1. n = Len(s) + 0 /\ n <= MAX_POOL_SIZE
    BY <1>1, <1>2, PoolAssumption
  <2>2. QED
    BY <1>1, <1>2, <1>3, <1>4, <1>5, <1>9, <2>1 DEF Accounting, IsInjective
<1>11. \A t \in Thread : Held(t)' = {}
  BY <1>7 DEF Held
<1>12. HeldIsOwn'
  BY <1>1, <1>5, <1>7, <1>11 DEF HeldIsOwn
<1>13. QED
  BY <1>1, <1>10, <1>12 DEF IInv, NobodyBefore

(* main closes the pool.                                                    *)
LEMMA ClosePoolStep ==
  ASSUME IInv, close_connection_pool
  PROVE  IInv'
<1> DEFINE D == DOMAIN handle \
                  {mysql[x] : x \in ToSet(g_pool.free_list) \cup ToSet(g_pool.used_list)}
<1>1. /\ g_pool' = [state |-> "closed", free_list |-> <<>>, used_list |-> <<>>,
                    total_connections |-> 0]
      /\ mysql' = <<>> /\ handle' = [h \in D |-> handle[h]] /\ server' = server
      /\ thread' = [thread EXCEPT ![Main].at = "done"]
  BY DEF close_connection_pool
<1>2. D \in SUBSET DOMAIN handle /\ IsFiniteSet(DOMAIN handle)
  BY DEF IInv, Accounting, TypeOK
<1>3. IsFiniteSet(D)
  BY <1>2, FS_Subset
<1>4. handle' \in [D -> {"ok", "broken"}] /\ DOMAIN handle' = D /\ D \subseteq Address
  BY <1>1, <1>2 DEF IInv, Accounting, TypeOK
<1> HIDE DEF D
<1>5. /\ IsInjective(<<>>) /\ ToSet(<<>>) = {} /\ <<>> \in Seq(Address) /\ Len(<<>>) = 0
      /\ DOMAIN <<>> = {} /\ <<>> \in [{} -> Address]
  BY DEF IsInjective, ToSet
<1>6. thread' \in [Thread -> [at : At, conn : Nat, mysql : Nat, step : 0 .. Len(Session),
                              sessions : 0 .. MaxSessions]]
  BY <1>1, PlaceMoves, PoolAssumption, "done" \in At DEF At
<1>7. TypeOK'
  <2>1. g_pool' \in [state : {"none", "open", "closed"}, free_list : Seq(Address),
                     used_list : Seq(Address), total_connections : Int]
    BY <1>1, <1>5
  <2>2. QED
    BY <1>1, <1>3, <1>4, <1>5, <1>6, <2>1 DEF IInv, Accounting, TypeOK
<1>8. Accounting'
  BY <1>1, <1>5, <1>7, PoolAssumption DEF Accounting
<1>9. QED
  BY <1>1, <1>8 DEF IInv, HeldIsOwn, NobodyBefore

(* The server breaks handles; whose they are stays the same.                *)
LEMMA ServerStep ==
  ASSUME IInv, ServerDown \/ ServerUp \/ (\E h \in DOMAIN handle : ServerDrops(h))
  PROVE  IInv'
<1>1. UNCHANGED <<g_pool, mysql, thread>>
  BY DEF ServerDown, ServerUp, ServerDrops
<1>2. handle' \in [DOMAIN handle -> {"ok", "broken"}] /\ DOMAIN handle' = DOMAIN handle
  BY DEF ServerDown, ServerUp, ServerDrops, IInv, Accounting, TypeOK
<1>3. server' \in [up : BOOLEAN, outages : 0 .. MaxOutages, drops : 0 .. MaxDrops]
  <2>1. server \in [up : BOOLEAN, outages : 0 .. MaxOutages, drops : 0 .. MaxDrops]
    BY DEF IInv, Accounting, TypeOK
  <2>2. CASE ServerDown
    <3>1. server.outages - 1 \in 0 .. MaxOutages
      BY <2>1, <2>2, PoolAssumption DEF ServerDown
    <3>2. server' = [server EXCEPT !.up = FALSE, !.outages = server.outages - 1]
      BY <2>2 DEF ServerDown
    <3>3. QED
      BY <2>1, <3>1, <3>2
  <2>3. CASE ServerUp
    BY <2>1, <2>3 DEF ServerUp
  <2>4. CASE \E h \in DOMAIN handle : ServerDrops(h)
    <3>1. server.drops - 1 \in 0 .. MaxDrops
      BY <2>1, <2>4, PoolAssumption DEF ServerDrops
    <3>2. server' = [server EXCEPT !.drops = server.drops - 1]
      BY <2>4 DEF ServerDrops
    <3>3. QED
      BY <2>1, <3>1, <3>2
  <2>5. QED
    BY <2>2, <2>3, <2>4
<1>4. Accounting'
  BY <1>1, <1>2, <1>3 DEF IInv, Accounting, TypeOK
<1>5. HeldIsOwn' /\ NobodyBefore'
  BY <1>1 DEF IInv, HeldIsOwn, NobodyBefore, Held
<1>6. QED
  BY <1>4, <1>5 DEF IInv

------------------------------------------------------------------------------
(* The invariant holds before main makes the pool.                          *)
LEMMA InitHolds == Init => IInv
<1> SUFFICES ASSUME Init
             PROVE  IInv
  OBVIOUS
<1>1. /\ IsInjective(<<>>) /\ ToSet(<<>>) = {} /\ <<>> \in Seq(Address) /\ Len(<<>>) = 0
      /\ DOMAIN <<>> = {} /\ <<>> \in [{} -> Address] /\ <<>> \in [{} -> {"ok", "broken"}]
  BY DEF IsInjective, ToSet
<1>2. IsFiniteSet({})
  BY FS_EmptySet
<1>3. Len(Session) = 7
  BY DEF Session
<1>4. TypeOK
  BY <1>1, <1>2, <1>3, PoolAssumption DEF Init, TypeOK, At
<1>5. Accounting
  BY <1>1, <1>4, PoolAssumption DEF Init, Accounting
<1>6. QED
  BY <1>5 DEF Init, IInv, HeldIsOwn, NobodyBefore

(* Every step of the threads, of main and of the server keeps it.           *)
LEMMA NextHolds == IInv /\ [Next]_vars => IInv'
<1> SUFFICES ASSUME IInv, [Next]_vars
             PROVE  IInv'
  OBVIOUS
<1>1. CASE MainStep
  BY <1>1, InitPoolStep, ClosePoolStep DEF MainStep
<1>2. ASSUME NEW t \in Thread, Begin(t)
      PROVE  IInv'
  BY <1>2, BeginStep
<1>3. ASSUME NEW t \in Thread, ThreadStep(t)
      PROVE  IInv'
  BY <1>3, GetFreeStep, GetNewStep, ReturnStep, StatementStep, ReleaseStep, UndefinedStep
     DEF ThreadStep
<1>4. CASE ServerDown \/ ServerUp \/ (\E h \in DOMAIN handle : ServerDrops(h))
  BY <1>4, ServerStep
<1>5. CASE UNCHANGED vars
  <2>1. Accounting' /\ NobodyBefore'
    BY <1>5 DEF vars, IInv, Accounting, TypeOK, NobodyBefore
  <2>2. HeldIsOwn'
    <3>1. \A t \in Thread : Held(t)' = Held(t)
      BY <1>5 DEF vars, Held
    <3>2. QED
      BY <1>5, <3>1 DEF vars, IInv, HeldIsOwn
  <2>3. QED
    BY <2>1, <2>2 DEF IInv
<1>6. QED
  BY <1>1, <1>2, <1>3, <1>4, <1>5 DEF Next

(* The pool's books balance through growth, reconnects and failures, for    *)
(* every pool size and any number of threads: total_connections counts the  *)
(* nodes of the two lists and stays within MAX_POOL_SIZE, a node is in one  *)
(* list, and no two nodes share a handle.                                   *)
THEOREM PoolBalances == Spec => []Accounting
<1>1. IInv => Accounting
  BY DEF IInv
<1>2. QED
  BY <1>1, InitHolds, NextHolds, PTL DEF Spec

(* While the pool is open a used connection has exactly one user, its       *)
(* handle is allocated, and no thread meets freed memory, although handles' *)
(* addresses are used again and the handle is read outside the mutex.       *)
THEOREM ConnectionsOwned == Spec => []HeldIsOwn
<1>1. IInv => HeldIsOwn
  BY DEF IInv
<1>2. QED
  BY <1>1, InitHolds, NextHolds, PTL DEF Spec
===============================================================================
