-------------------------- MODULE RpcProxyIndexProofs --------------------------
(***************************************************************************)
(* What the RpcConnectionManager of the proxy keeps, however disordered    *)
(* its index: the connections that are open and no others, once each.  And *)
(* what it needs order for: to find.                                       *)
(***************************************************************************)
EXTENDS RpcProxyProofs

\* The manager holds the connections that are open, once each.
HoldsOpen ==
  /\ IsInjective(index)
  /\ Registered = {c \in Conns : tcp[c] \in {"up", "closing"}}

IndexInv ==
  /\ HoldsOpen
  /\ root \in Registered \/ (index = <<>> /\ root = Null)
  /\ \A c \in announced : tcp[c] # "none"

-----------------------------------------------------------------------------
(***************************************************************************)
(* Insertion and removal.                                                  *)
(***************************************************************************)
\* t is s with e after its first g elements.
IsInsertion(t, s, g, e) ==
  /\ Len(t) = Len(s) + 1
  /\ \A i \in 1 .. Len(s) + 1 :
       t[i] = IF i <= g THEN s[i] ELSE IF i = g + 1 THEN e ELSE s[i - 1]

\* t is s without its element k.
IsRemoval(t, s, k) ==
  /\ Len(t) = Len(s) - 1
  /\ \A i \in 1 .. Len(s) - 1 : t[i] = IF i < k THEN s[i] ELSE s[i + 1]

\* What stands where after an insertion.
LEMMA Inserted ==
  ASSUME NEW U, NEW s \in Seq(U), NEW g \in 0 .. Len(s), NEW e \in U
  PROVE  /\ InsertAt(s, g + 1, e) \in Seq(U)
         /\ IsInsertion(InsertAt(s, g + 1, e), s, g, e)
  <1>. DEFINE a == SubSeq(s, 1, g)
              b == <<e>>
              c == SubSeq(s, g + 1, Len(s))
              n == Len(s)
  <1>1. /\ n \in Nat /\ g \in Int /\ g + 1 \in Int /\ 1 \in Int /\ n \in Int
        /\ g \in 0 .. n /\ \A i \in 1 .. n : s[i] \in U
    BY LenProperties, ElementOfSeq
  <1>2. /\ a \in Seq(U) /\ Len(a) = g
        /\ \A i \in 1 .. g : a[i] = s[i]
    <2>1. \A i \in 1 .. g : s[i] \in U
      BY <1>1
    <2>2. /\ a \in Seq(U) /\ Len(a) = IF 1 <= g THEN g - 1 + 1 ELSE 0
          /\ \A i \in 1 .. g - 1 + 1 : a[i] = s[1 + i - 1]
      BY <1>1, <2>1, SubSeqProperties
    <2>. HIDE DEF a
    <2>. QED
      BY <1>1, <2>2
  <1>3. /\ c \in Seq(U) /\ Len(c) = n - g
        /\ \A i \in 1 .. n - g : c[i] = s[g + i]
    <2>1. \A i \in g + 1 .. n : s[i] \in U
      BY <1>1
    <2>2. /\ c \in Seq(U)
          /\ Len(c) = IF g + 1 <= n THEN n - (g + 1) + 1 ELSE 0
          /\ \A i \in 1 .. n - (g + 1) + 1 : c[i] = s[(g + 1) + i - 1]
      BY <1>1, <2>1, SubSeqProperties
    <2>. HIDE DEF c, n
    <2>3. Len(c) = n - g
      BY <1>1, <2>2
    <2>4. ASSUME NEW i \in 1 .. n - g
          PROVE  c[i] = s[g + i]
      <3>1. i \in 1 .. n - (g + 1) + 1 /\ (g + 1) + i - 1 = g + i
        BY <1>1
      <3>. QED
        BY <2>2, <3>1
    <2>. QED
      BY <2>2, <2>3, <2>4
  <1>4. b \in Seq(U) /\ Len(b) = 1 /\ b[1] = e
    OBVIOUS
  <1>5. InsertAt(s, g + 1, e) = a \o b \o c
    <2>1. (g + 1) - 1 = g
      BY <1>1
    <2>. QED
      BY <2>1 DEF InsertAt
  <1>. HIDE DEF a, b, c, n
  <1>6. /\ a \o b \in Seq(U) /\ Len(a \o b) = g + 1
        /\ \A i \in 1 .. g + 1 : (a \o b)[i] = IF i <= g THEN s[i] ELSE e
    <2>1. /\ a \o b \in Seq(U) /\ Len(a \o b) = Len(a) + Len(b)
          /\ \A i \in 1 .. Len(a) + Len(b) :
               (a \o b)[i] = IF i <= Len(a) THEN a[i] ELSE b[i - Len(a)]
      BY <1>2, <1>4, ConcatProperties
    <2>. QED
      BY <1>1, <1>2, <1>4, <2>1
  <1>. DEFINE d == a \o b
  <1>7. /\ d \o c \in Seq(U) /\ Len(d \o c) = Len(d) + Len(c)
        /\ \A i \in 1 .. Len(d) + Len(c) :
             (d \o c)[i] = IF i <= Len(d) THEN d[i] ELSE c[i - Len(d)]
    <2>1. d \in Seq(U)
      BY <1>6
    <2>. HIDE DEF d
    <2>. QED
      BY <1>3, <2>1, ConcatProperties
  <1>8. /\ d \in Seq(U) /\ Len(d) = g + 1
        /\ \A i \in 1 .. g + 1 : d[i] = IF i <= g THEN s[i] ELSE e
    BY <1>6
  <1>9. InsertAt(s, g + 1, e) = d \o c
    BY <1>5
  <1>. HIDE DEF d
  <1>10. Len(d \o c) = n + 1
    BY <1>1, <1>3, <1>7, <1>8
  <1>11. ASSUME NEW i \in 1 .. n + 1
         PROVE  (d \o c)[i] =
                  IF i <= g THEN s[i] ELSE IF i = g + 1 THEN e ELSE s[i - 1]
    <2>1. CASE i <= g + 1
      BY <1>1, <1>3, <1>7, <1>8, <2>1
    <2>2. CASE i > g + 1
      <3>1. /\ i - (g + 1) \in 1 .. n - g /\ i \in 1 .. Len(d) + Len(c)
            /\ g + (i - (g + 1)) = i - 1
        BY <1>1, <1>3, <1>8, <2>2
      <3>. QED
        BY <1>1, <1>3, <1>7, <1>8, <2>2, <3>1
    <2>3. i <= g + 1 \/ i > g + 1
      BY <1>1
    <2>. QED
      BY <2>1, <2>2, <2>3
  <1>12. IsInsertion(d \o c, s, g, e)
    BY <1>10, <1>11 DEF IsInsertion, n
  <1>. QED
    BY <1>7, <1>9, <1>12

\* What stands where after a removal.
LEMMA Removed ==
  ASSUME NEW U, NEW s \in Seq(U), NEW k \in 1 .. Len(s)
  PROVE  /\ RemoveAt(s, k) \in Seq(U)
         /\ IsRemoval(RemoveAt(s, k), s, k)
  <1>. DEFINE a == SubSeq(s, 1, k - 1)
              c == SubSeq(s, k + 1, Len(s))
              n == Len(s)
  <1>1. /\ n \in Nat /\ k \in 1 .. n /\ \A i \in 1 .. n : s[i] \in U
        /\ k - 1 \in Int /\ k + 1 \in Int /\ 1 \in Int /\ n \in Int
    BY LenProperties, ElementOfSeq
  <1>2. /\ a \in Seq(U) /\ Len(a) = k - 1
        /\ \A i \in 1 .. k - 1 : a[i] = s[i]
    <2>1. \A i \in 1 .. k - 1 : s[i] \in U
      BY <1>1
    <2>2. /\ a \in Seq(U) /\ Len(a) = IF 1 <= k - 1 THEN k - 1 - 1 + 1 ELSE 0
          /\ \A i \in 1 .. k - 1 - 1 + 1 : a[i] = s[1 + i - 1]
      BY <1>1, <2>1, SubSeqProperties
    <2>. HIDE DEF a
    <2>. QED
      BY <1>1, <2>2
  <1>3. /\ c \in Seq(U) /\ Len(c) = n - k
        /\ \A i \in 1 .. n - k : c[i] = s[k + i]
    <2>1. \A i \in k + 1 .. n : s[i] \in U
      BY <1>1
    <2>2. /\ c \in Seq(U)
          /\ Len(c) = IF k + 1 <= n THEN n - (k + 1) + 1 ELSE 0
          /\ \A i \in 1 .. n - (k + 1) + 1 : c[i] = s[k + 1 + i - 1]
      BY <1>1, <2>1, SubSeqProperties
    <2>. HIDE DEF c, n
    <2>. QED
      BY <1>1, <2>2
  <1>4. RemoveAt(s, k) = a \o c
    BY DEF RemoveAt
  <1>. HIDE DEF a, c, n
  <1>5. /\ a \o c \in Seq(U) /\ Len(a \o c) = Len(a) + Len(c)
        /\ \A i \in 1 .. Len(a) + Len(c) :
             (a \o c)[i] = IF i <= Len(a) THEN a[i] ELSE c[i - Len(a)]
    BY <1>2, <1>3, ConcatProperties
  <1>6. Len(a \o c) = n - 1
    BY <1>1, <1>2, <1>3, <1>5
  <1>7. ASSUME NEW i \in 1 .. n - 1
        PROVE  (a \o c)[i] = IF i < k THEN s[i] ELSE s[i + 1]
    <2>1. CASE i < k
      BY <1>1, <1>2, <1>3, <1>5, <2>1
    <2>2. CASE i >= k
      <3>1. /\ i - (k - 1) \in 1 .. n - k /\ i \in 1 .. Len(a) + Len(c)
            /\ k + (i - (k - 1)) = i + 1
        BY <1>1, <1>2, <1>3, <2>2
      <3>2. ~(i <= Len(a)) /\ i - Len(a) = i - (k - 1)
        BY <1>1, <1>2, <2>2
      <3>3. (a \o c)[i] = c[i - (k - 1)]
        BY <1>5, <3>1, <3>2
      <3>4. c[i - (k - 1)] = s[i + 1]
        BY <1>3, <3>1
      <3>5. ~(i < k)
        BY <1>1, <2>2
      <3>. QED
        BY <3>3, <3>4, <3>5
    <2>3. i < k \/ i >= k
      BY <1>1
    <2>. QED
      BY <2>1, <2>2, <2>3
  <1>8. IsRemoval(a \o c, s, k)
    BY <1>6, <1>7 DEF IsRemoval, n
  <1>. QED
    BY <1>4, <1>5, <1>8

\* A new element is added once.
LEMMA InsertedOnce ==
  ASSUME NEW U, NEW s \in Seq(U), NEW g \in 0 .. Len(s), NEW e \in U,
         IsInjective(s), e \notin Range(s)
  PROVE  /\ IsInjective(InsertAt(s, g + 1, e))
         /\ Range(InsertAt(s, g + 1, e)) = Range(s) \union {e}
  <1>. DEFINE t == InsertAt(s, g + 1, e)
              n == Len(s)
  <1>1. n \in Nat /\ DOMAIN s = 1 .. n /\ g \in 0 .. n
    BY LenProperties
  <1>2. /\ t \in Seq(U) /\ Len(t) = n + 1
        /\ \A i \in 1 .. n + 1 :
             t[i] = IF i <= g THEN s[i] ELSE IF i = g + 1 THEN e ELSE s[i - 1]
    <2>1. t \in Seq(U) /\ IsInsertion(t, s, g, e)
      BY Inserted
    <2>. HIDE DEF t
    <2>. QED
      BY <2>1 DEF IsInsertion
  <1>. HIDE DEF t, n
  <1>3. DOMAIN t = 1 .. n + 1
    BY <1>2, LenProperties
  <1>4. /\ g \in 0 .. n
        /\ \A i \in 1 .. n : s[i] \in Range(s)
        /\ \A i, j \in 1 .. n : s[i] = s[j] => i = j
    <2>1. \A i \in DOMAIN s : s[i] \in Range(s)
      BY DEF Range
    <2>2. \A i, j \in DOMAIN s : s[i] = s[j] => i = j
      BY DEF IsInjective
    <2>. QED
      BY <1>1, <2>1, <2>2
  <1>5. ASSUME NEW i \in 1 .. n + 1
        PROVE  \/ i <= g /\ i \in 1 .. n /\ t[i] = s[i]
               \/ i = g + 1 /\ t[i] = e
               \/ i > g + 1 /\ i - 1 \in 1 .. n /\ t[i] = s[i - 1]
    BY <1>1, <1>2, <1>4
  <1>6. ASSUME NEW i \in 1 .. n + 1, NEW j \in 1 .. n + 1, t[i] = t[j]
        PROVE  i = j
    <2>1. i = g + 1 <=> j = g + 1
      BY <1>1, <1>4, <1>5, <1>6
    <2>2. CASE i # g + 1
      BY <1>1, <1>4, <1>5, <1>6, <2>1, <2>2
    <2>. QED
      BY <2>1, <2>2
  <1>7. Range(t) \subseteq Range(s) \union {e}
    BY <1>3, <1>4, <1>5 DEF Range
  <1>8. e \in Range(t)
    <2>1. g + 1 \in 1 .. n + 1 /\ t[g + 1] = e
      BY <1>1, <1>2, <1>4
    <2>. QED
      BY <1>3, <2>1 DEF Range
  <1>9. ASSUME NEW i \in 1 .. n
        PROVE  s[i] \in Range(t)
    <2>1. CASE i <= g
      <3>1. i \in 1 .. n + 1 /\ t[i] = s[i]
        BY <1>1, <1>2, <2>1
      <3>. QED
        BY <1>3, <3>1 DEF Range
    <2>2. CASE i > g
      <3>1. i + 1 \in 1 .. n + 1 /\ (i + 1) - 1 = i /\ ~(i + 1 <= g)
            /\ i + 1 # g + 1
        BY <1>1, <1>4, <2>2
      <3>2. t[i + 1] = s[i]
        BY <1>2, <3>1
      <3>. QED
        BY <1>3, <3>1, <3>2 DEF Range
    <2>3. i <= g \/ i > g
      BY <1>4
    <2>. QED
      BY <2>1, <2>2, <2>3
  <1>10. Range(s) \subseteq Range(t)
    BY <1>1, <1>9 DEF Range
  <1>11. IsInjective(t)
    BY <1>3, <1>6 DEF IsInjective
  <1>. QED
    BY <1>7, <1>8, <1>10, <1>11 DEF t

\* What is removed is gone, and nothing else.
LEMMA RemovedOnce ==
  ASSUME NEW U, NEW s \in Seq(U), NEW k \in 1 .. Len(s), IsInjective(s)
  PROVE  /\ IsInjective(RemoveAt(s, k))
         /\ Range(RemoveAt(s, k)) = Range(s) \ {s[k]}
  <1>. DEFINE t == RemoveAt(s, k)
              n == Len(s)
  <1>1. n \in Nat /\ DOMAIN s = 1 .. n /\ k \in 1 .. n
    BY LenProperties
  <1>2. /\ t \in Seq(U) /\ Len(t) = n - 1
        /\ \A i \in 1 .. n - 1 : t[i] = IF i < k THEN s[i] ELSE s[i + 1]
    <2>1. t \in Seq(U) /\ IsRemoval(t, s, k)
      BY Removed
    <2>. HIDE DEF t
    <2>. QED
      BY <2>1 DEF IsRemoval
  <1>. HIDE DEF t, n
  <1>3. DOMAIN t = 1 .. n - 1
    BY <1>2, LenProperties
  <1>4. /\ k \in 1 .. n
        /\ \A i \in 1 .. n : s[i] \in Range(s)
        /\ \A i, j \in 1 .. n : s[i] = s[j] => i = j
    <2>1. \A i \in DOMAIN s : s[i] \in Range(s)
      BY DEF Range
    <2>2. \A i, j \in DOMAIN s : s[i] = s[j] => i = j
      BY DEF IsInjective
    <2>. QED
      BY <1>1, <2>1, <2>2
  <1>5. ASSUME NEW i \in 1 .. n - 1
        PROVE  \/ i < k /\ i \in 1 .. n /\ t[i] = s[i]
               \/ i + 1 > k /\ i + 1 \in 1 .. n /\ t[i] = s[i + 1]
    BY <1>1, <1>2, <1>4
  <1>6. ASSUME NEW i \in 1 .. n - 1, NEW j \in 1 .. n - 1, t[i] = t[j]
        PROVE  i = j
    BY <1>1, <1>4, <1>5, <1>6
  <1>7. Range(t) \subseteq Range(s) \ {s[k]}
    <2>1. ASSUME NEW i \in 1 .. n - 1
          PROVE  t[i] \in Range(s) /\ t[i] # s[k]
      BY <1>1, <1>4, <1>5
    <2>. QED
      BY <1>3, <2>1 DEF Range
  <1>8. ASSUME NEW i \in 1 .. n, i # k
        PROVE  s[i] \in Range(t)
    <2>1. CASE i < k
      <3>1. i \in 1 .. n - 1 /\ t[i] = s[i]
        BY <1>1, <1>2, <1>4, <2>1
      <3>. QED
        BY <1>3, <3>1 DEF Range
    <2>2. CASE i > k
      <3>1. i - 1 \in 1 .. n - 1 /\ (i - 1) + 1 = i /\ ~(i - 1 < k)
        BY <1>1, <1>4, <2>2
      <3>2. t[i - 1] = s[i]
        BY <1>2, <3>1
      <3>. QED
        BY <1>3, <3>1, <3>2 DEF Range
    <2>3. i < k \/ i > k
      BY <1>4, <1>8
    <2>. QED
      BY <2>1, <2>2, <2>3
  <1>9. Range(s) \ {s[k]} \subseteq Range(t)
    BY <1>1, <1>8 DEF Range
  <1>10. IsInjective(t)
    BY <1>3, <1>6 DEF IsInjective
  <1>. QED
    BY <1>7, <1>9, <1>10 DEF t

-----------------------------------------------------------------------------
(***************************************************************************)
(* The steps of the index.                                                 *)
(***************************************************************************)
\* The root is an element, as long as there are any.
LEMMA ReshapeKeeps ==
  ASSUME index' \in Seq(Conns), Reshape
  PROVE  root' \in Range(index') \/ (index' = <<>> /\ root' = Null)
  <1>1. DOMAIN index' = 1 .. Len(index')
    BY LenProperties
  <1>. DEFINE R == {i \in 1 .. Len(index') : Balanced(i - 1, Len(index') - i)}
  <1>2. \/ root' = root /\ root \in Range(index')
        \/ index' = <<>> /\ root' = Null
        \/ \E r \in R : root' = index'[r]
    BY DEF Reshape
  <1>3. \A r \in R : index'[r] \in Range(index')
    BY <1>1 DEF Range
  <1>. HIDE DEF R
  <1>. QED
    BY <1>2, <1>3

\* insert adds the connection, wherever the descent has ended.
LEMMA InsertAdds ==
  ASSUME TypeOK, IsInjective(index), NEW c \in Conns, c \notin Registered,
         Insert(c)
  PROVE  /\ IsInjective(index')
         /\ Registered' = Registered \union {c}
         /\ root' \in Registered' \/ (index' = <<>> /\ root' = Null)
  <1>1. PICK g \in 0 .. Len(index) : index' = InsertAt(index, g + 1, c)
    BY DEF Insert, Descents
  <1>2. index \in Seq(Conns)
    BY DEF TypeOK
  <1>3. /\ IsInjective(InsertAt(index, g + 1, c))
        /\ Range(InsertAt(index, g + 1, c)) = Range(index) \union {c}
    BY <1>2, InsertedOnce DEF Registered
  <1>4. index' \in Seq(Conns) /\ Reshape
    BY InsertType DEF Insert
  <1>. QED
    BY <1>1, <1>3, <1>4, ReshapeKeeps DEF Registered

\* erase takes the connection away, if it is there.
LEMMA EraseRemoves ==
  ASSUME TypeOK, IsInjective(index), NEW c \in Conns, Erase(c)
  PROVE  /\ IsInjective(index')
         /\ Registered' = Registered \ {c}
         /\ root' \in Registered' \/ (index' = <<>> /\ root' = Null)
  <1>1. index \in Seq(Conns) /\ DOMAIN index = 1 .. Len(index)
    BY LenProperties DEF TypeOK
  <1>2. IsInjective(index') /\ Registered' = Registered \ {c}
    <2>1. CASE c \notin Registered /\ UNCHANGED index
      BY <2>1 DEF Registered
    <2>2. ASSUME NEW i \in 1 .. Len(index), index[i] = c,
                 index' = RemoveAt(index, i)
          PROVE  IsInjective(index') /\ Registered' = Registered \ {c}
      <3>1. /\ IsInjective(RemoveAt(index, i))
            /\ Range(RemoveAt(index, i)) = Range(index) \ {index[i]}
        BY <1>1, RemovedOnce
      <3>. QED
        BY <2>2, <3>1 DEF Registered
    <2>. QED
      BY <1>1, <2>1, <2>2 DEF Erase
  <1>3. index' \in Seq(Conns) /\ Reshape
    BY EraseType DEF Erase
  <1>. QED
    BY <1>2, <1>3, ReshapeKeeps DEF Registered

-----------------------------------------------------------------------------
(***************************************************************************)
(* The invariant.                                                          *)
(***************************************************************************)
\* Before the first connection the index is empty.
LEMMA InitIndex == Init => IndexInv
  BY EmptyRange DEF Init, IndexInv, HoldsOpen, Registered

\* The index changes with the connections, and only with them.
LEMMA IndexStep == ProxyInv /\ IndexInv /\ [Next]_vars => IndexInv'
  <1>. SUFFICES ASSUME ProxyInv, IndexInv, [Next]_vars
                PROVE  IndexInv'
    OBVIOUS
  <1>. USE DEF IndexInv, HoldsOpen
  <1>1. TypeOK
    BY DEF ProxyInv
  <1>2. ASSUME NEW c \in Conns, OnConnection(c)
        PROVE  IndexInv'
    <2>1. tcp[c] = "none" /\ Insert(c) /\ tcp' = [tcp EXCEPT ![c] = "up"]
          /\ announced' = announced
      BY <1>2 DEF OnConnection
    <2>2. c \notin Registered
      BY <2>1
    <2>3. /\ IsInjective(index')
          /\ Registered' = Registered \union {c}
          /\ root' \in Registered' \/ (index' = <<>> /\ root' = Null)
      BY <1>1, <2>1, <2>2, InsertAdds
    <2>4. \A d \in Conns : tcp'[d] = IF d = c THEN "up" ELSE tcp[d]
      BY <1>1, <2>1 DEF TypeOK
    <2>. QED
      BY <1>1, <2>1, <2>3, <2>4 DEF TypeOK
  <1>3. ASSUME NEW c \in Conns, NEW t \in {"closed", "rejected"},
               tcp[c] # "none", Erase(c), tcp' = [tcp EXCEPT ![c] = t],
               announced' = announced
        PROVE  IndexInv'
    <2>1. /\ IsInjective(index')
          /\ Registered' = Registered \ {c}
          /\ root' \in Registered' \/ (index' = <<>> /\ root' = Null)
      BY <1>1, <1>3, EraseRemoves
    <2>2. \A d \in Conns : tcp'[d] = IF d = c THEN t ELSE tcp[d]
      BY <1>1, <1>3 DEF TypeOK
    <2>. QED
      BY <1>1, <1>3, <2>1, <2>2 DEF TypeOK
  <1>4. ASSUME NEW c \in Conns, OnLostConnection(c)
        PROVE  IndexInv'
    BY <1>3, <1>4 DEF OnLostConnection
  <1>5. ASSUME NEW c \in Conns, HangUp(c)
        PROVE  IndexInv'
    <2>1. /\ tcp[c] = "up" /\ UNCHANGED <<index, root, announced>>
          /\ \A d \in Conns : tcp'[d] = IF d = c THEN "closing" ELSE tcp[d]
      BY <1>1, <1>5 DEF HangUp, TypeOK, mapVars
    <2>2. Registered' = Registered
      BY <2>1 DEF Registered
    <2>. QED
      BY <1>1, <2>1, <2>2 DEF TypeOK
  <1>6. ASSUME NEW c \in Conns, Announce(c)
        PROVE  IndexInv'
    <2>1. /\ tcp[c] = "up" /\ UNCHANGED <<index, root, tcp>>
          /\ announced' = announced \union {c}
      BY <1>6 DEF Announce, mapVars
    <2>2. Registered' = Registered
      BY <2>1 DEF Registered
    <2>. QED
      BY <2>1, <2>2
  <1>7. ASSUME UNCHANGED <<index, root, tcp, announced>>
        PROVE  IndexInv'
    <2>1. Registered' = Registered
      BY <1>7 DEF Registered
    <2>. QED
      BY <1>7, <2>1
  <1>8. ASSUME NEW c \in Conns, RejectMeta(c)
        PROVE  IndexInv'
    <2>1. CASE c \in Registered
      BY <1>3, <1>8, <2>1 DEF RejectMeta
    <2>2. CASE c \notin Registered
      BY <1>7, <1>8, <2>2 DEF RejectMeta, mapVars
    <2>. QED
      BY <2>1, <2>2
  <1>9. ASSUME NEW c \in Conns, ParseMessage(c)
        PROVE  IndexInv'
    BY <1>7, <1>8, <1>9
       DEF ParseMessage, EchoMeta, AcceptMeta, ParseMessages, ParseForEver,
           mapVars, peerVars
  <1>10. ASSUME NEW c \in Conns, OnMessage(c)
         PROVE  IndexInv'
    BY <1>7, <1>10 DEF OnMessage, mapVars
  <1>11. CASE AppendData
    BY <1>7, <1>11 DEF AppendData, mapVars, peerVars
  <1>12. ASSUME NEW m \in Messages, Send(m) \/ ProcessMessage(m)
         PROVE  IndexInv'
    BY <1>7, <1>12 DEF Send, ProcessMessage, Forward, Drop, mapVars, peerVars
  <1>13. CASE UNCHANGED vars
    BY <1>7, <1>13 DEF vars, mapVars, peerVars
  <1>. QED
    BY <1>2, <1>4, <1>5, <1>6, <1>9, <1>10, <1>11, <1>12, <1>13 DEF Next

\* The manager holds exactly the connections that are open and not rejected,
\* once each, whichever of OnConnection, OnLostConnection and ParseMessage comes
\* first, and the root of its index is one of them.
THEOREM IndexHoldsOpen == Spec => []IndexInv
  BY InitInvariant, InvariantStep, InitIndex, IndexStep, PTL DEF Spec

-----------------------------------------------------------------------------
(***************************************************************************)
(* find.                                                                   *)
(***************************************************************************)
\* In order, find misses nothing.
LEMMA SortedFinds ==
  ASSUME TypeOK, Sorted, NEW c \in Registered
  PROVE  Null \notin Get(conn_id[c])
  <1>. DEFINE n == Len(index)
              id == conn_id[c]
  <1>1. /\ index \in Seq(Conns) /\ n \in Nat /\ DOMAIN index = 1 .. n
        /\ \A i \in 1 .. n : index[i] \in Conns
    BY LenProperties, ElementOfSeq DEF TypeOK
  <1>2. \A i \in 1 .. n : Key(i) \in Int
    BY <1>1 DEF Key, TypeOK
  <1>3. PICK i \in 1 .. n : index[i] = c
    BY <1>1 DEF Registered, Range
  <1>4. Key(i) = id /\ id \in Int
    BY <1>2, <1>3 DEF Key
  <1>5. \A j, k \in 1 .. n : j < k => Key(j) <= Key(k)
    BY DEF Sorted
  <1>. SUFFICES ASSUME NEW g \in LowerBounds(id)
                PROVE  g < n /\ Key(g + 1) = id /\ index[g + 1] # Null
    BY DEF Get
  <1>6. /\ g \in 0 .. n
        /\ g > 0 => ~(Key(g) >= id)
        /\ g < n => Key(g + 1) >= id
    <2>. DEFINE L == {j \in 1 .. n : Key(j) >= id}
    <2>1. \A j \in 1 .. n : j \in L <=> Key(j) >= id
      OBVIOUS
    <2>2. LowerBounds(id) = Descents(L)
      BY DEF LowerBounds
    <2>3. L \subseteq 1 .. n
      OBVIOUS
    <2>. HIDE DEF L
    <2>4. g \in 0 .. n /\ (g > 0 => g \notin L) /\ (g < n => g + 1 \in L)
      BY <2>2 DEF Descents
    <2>. QED
      BY <1>1, <2>1, <2>3, <2>4
  <1>. HIDE DEF n, id
  <1>7. i > g
    <2>. SUFFICES ASSUME i <= g
                  PROVE  FALSE
      BY <1>6
    <2>1. g \in 1 .. n
      BY <1>1, <1>6
    <2>2. Key(i) <= Key(g)
      BY <1>2, <1>5, <2>1
    <2>. QED
      BY <1>2, <1>4, <1>6, <2>1, <2>2
  <1>8. g < n /\ g + 1 \in 1 .. n
    BY <1>1, <1>6, <1>7
  <1>9. Key(g + 1) <= id
    <2>1. g + 1 = i \/ g + 1 < i
      BY <1>6, <1>7
    <2>. QED
      BY <1>2, <1>4, <1>5, <1>8, <2>1
  <1>10. Key(g + 1) = id
    BY <1>2, <1>4, <1>6, <1>8, <1>9
  <1>. QED
    BY <1>1, <1>8, <1>10, ProxyAssumption

\* While no key is out of order, ProcessMessage drops no message to an id that
\* a connection in the index has.
THEOREM MissesOnlyIfDisorderedAlways == Spec => MissesOnlyIfDisordered
  <1>1. ASSUME TypeOK, Sorted, [Next]_vars, NEW m \in Messages,
               fate[m] # "dropped", fate'[m] = "dropped",
               NEW c \in Registered, conn_id[c] = m.dst
        PROVE  FALSE
    <2>1. PICK n \in Messages : Drop(n)
      <3>1. fate' # fate
        BY <1>1
      <3>2. ASSUME NEW d \in Conns, OnLostConnection(d)
            PROVE  FALSE
        BY <1>1, <3>2 DEF OnLostConnection
      <3>3. ASSUME NEW n \in Messages, Send(n)
            PROVE  FALSE
        BY <1>1, <3>3 DEF Send, TypeOK
      <3>4. ASSUME NEW n \in Messages, Forward(n)
            PROVE  FALSE
        BY <1>1, <3>4 DEF Forward, TypeOK
      <3>5. ASSUME NEW d \in Conns,
                   \/ OnConnection(d) \/ OnMessage(d) \/ ParseMessage(d)
                   \/ Announce(d) \/ HangUp(d)
            PROVE  FALSE
        BY <3>1, <3>5 DEF OnConnection, OnMessage, ParseMessage, RejectMeta,
             EchoMeta, AcceptMeta, ParseMessages, ParseForEver, Announce,
             HangUp, traceVars
      <3>6. ~AppendData
        BY <3>1 DEF AppendData, traceVars
      <3>7. ~UNCHANGED vars
        BY <3>1 DEF vars, traceVars
      <3>. QED
        BY <1>1, <3>2, <3>3, <3>4, <3>5, <3>6, <3>7 DEF Next, ProcessMessage
    <2>2. n = m
      BY <1>1, <2>1 DEF Drop, TypeOK
    <2>3. Null \in Get(m.dst)
      BY <2>1, <2>2 DEF Drop
    <2>. QED
      BY <1>1, <2>3, SortedFinds
  <1>2. TypeOK /\ [Next]_vars =>
          [Sorted => \A m \in Messages :
             fate[m] # "dropped" /\ fate'[m] = "dropped" =>
               ~\E c \in Registered : conn_id[c] = m.dst]_vars
    BY <1>1
  <1>. QED
    BY <1>2, ProxyTypeCorrect, PTL DEF Spec, MissesOnlyIfDisordered

-----------------------------------------------------------------------------
(***************************************************************************)
(* What disorders the index.                                               *)
(***************************************************************************)
\* insert puts a connection, whose conn_id is still 0, where it belongs.
LEMMA InsertSorted ==
  ASSUME TypeOK, Sorted, NEW c \in Conns, conn_id[c] = 0, Insert(c),
         conn_id' = conn_id
  PROVE  Sorted'
  <1>. DEFINE n == Len(index)
  <1>1. /\ index \in Seq(Conns) /\ n \in Nat /\ DOMAIN index = 1 .. n
        /\ \A i \in 1 .. n : index[i] \in Conns
    BY LenProperties, ElementOfSeq DEF TypeOK
  <1>2. PICK g \in Descents({i \in 1 .. n : Key(i) > 0}) :
          index' = InsertAt(index, g + 1, c)
    BY DEF Insert
  <1>3. /\ g \in 0 .. n
        /\ g > 0 => ~(Key(g) > 0)
        /\ g < n => Key(g + 1) > 0
    <2>. DEFINE L == {j \in 1 .. n : Key(j) > 0}
    <2>1. \A j \in 1 .. n : j \in L <=> Key(j) > 0
      OBVIOUS
    <2>2. L \subseteq 1 .. n
      OBVIOUS
    <2>. HIDE DEF L
    <2>3. g \in 0 .. n /\ (g > 0 => g \notin L) /\ (g < n => g + 1 \in L)
      <3>1. g \in Descents(L)
        BY DEF L
      <3>. QED
        BY <3>1 DEF Descents
    <2>. QED
      BY <1>1, <2>1, <2>2, <2>3
  <1>4. /\ Len(InsertAt(index, g + 1, c)) = n + 1
        /\ \A i \in 1 .. n + 1 :
             InsertAt(index, g + 1, c)[i]
               = IF i <= g THEN index[i]
                 ELSE IF i = g + 1 THEN c ELSE index[i - 1]
    <2>1. index \in Seq(Conns) /\ g \in 0 .. Len(index) /\ c \in Conns
      BY <1>1, <1>3
    <2>2. IsInsertion(InsertAt(index, g + 1, c), index, g, c)
      BY <2>1, Inserted
    <2>. QED
      BY <2>2 DEF IsInsertion
  <1>5. /\ \A i \in 1 .. n : Key(i) \in Int
        /\ \A i, j \in 1 .. n : i < j => Key(i) <= Key(j)
    BY <1>1 DEF Key, TypeOK, Sorted
  <1>6. Len(index') = n + 1
    BY <1>2, <1>4
  <1>7. \A i \in 1 .. n + 1 :
          Key(i)' = IF i <= g THEN Key(i)
                    ELSE IF i = g + 1 THEN 0 ELSE Key(i - 1)
    BY <1>2, <1>4 DEF Key
  <1>. HIDE DEF n
  <1>8. \A i \in 1 .. g : i \in 1 .. n /\ Key(i) <= 0
    <2>. SUFFICES ASSUME NEW i \in 1 .. g
                  PROVE  i \in 1 .. n /\ Key(i) <= 0
      OBVIOUS
    <2>1. i \in 1 .. n /\ g \in 1 .. n /\ (i = g \/ i < g)
      BY <1>1, <1>3
    <2>. QED
      BY <1>3, <1>5, <2>1
  <1>9. \A i \in g + 1 .. n : i \in 1 .. n /\ Key(i) > 0
    <2>. SUFFICES ASSUME NEW i \in g + 1 .. n
                  PROVE  i \in 1 .. n /\ Key(i) > 0
      OBVIOUS
    <2>1. /\ i \in 1 .. n /\ g + 1 \in 1 .. n /\ (i = g + 1 \/ g + 1 < i)
          /\ g < n
      BY <1>1, <1>3
    <2>2. /\ Key(g + 1) > 0 /\ Key(g + 1) \in Int /\ Key(i) \in Int
          /\ g + 1 < i => Key(g + 1) <= Key(i)
      BY <1>3, <1>5, <2>1
    <2>. QED
      BY <2>1, <2>2
  <1>10. ASSUME NEW i \in 1 .. n + 1, NEW j \in 1 .. n + 1, i < j
         PROVE  Key(i)' <= Key(j)'
    <2>1. CASE j <= g
      <3>1. i <= g /\ i \in 1 .. n /\ j \in 1 .. n
        BY <1>1, <1>3, <1>10, <2>1
      <3>. QED
        BY <1>5, <1>7, <1>10, <2>1, <3>1
    <2>2. CASE j = g + 1
      <3>1. i \in 1 .. g /\ ~(j <= g)
        BY <1>1, <1>3, <1>10, <2>2
      <3>. QED
        BY <1>7, <1>8, <2>2, <3>1
    <2>3. CASE j > g + 1
      <3>1. /\ j - 1 \in g + 1 .. n /\ ~(j <= g) /\ j # g + 1
            /\ j - 1 \in 1 .. n
        BY <1>1, <1>3, <2>3
      <3>2. Key(j)' = Key(j - 1) /\ Key(j - 1) > 0 /\ Key(j - 1) \in Int
        BY <1>5, <1>7, <1>9, <3>1
      <3>3. CASE i <= g
        <4>1. i \in 1 .. n /\ i < j - 1 /\ Key(i)' = Key(i)
          BY <1>1, <1>3, <1>7, <2>3, <3>3
        <4>. QED
          BY <1>5, <3>1, <3>2, <4>1
      <3>4. CASE i = g + 1
        BY <1>3, <1>7, <3>2, <3>4
      <3>5. CASE i > g + 1
        <4>1. /\ i - 1 \in 1 .. n /\ i - 1 < j - 1 /\ ~(i <= g) /\ i # g + 1
          BY <1>1, <1>3, <1>10, <3>5
        <4>. QED
          BY <1>5, <1>7, <3>1, <3>2, <4>1
      <3>. QED
        BY <1>3, <3>3, <3>4, <3>5
    <2>. QED
      BY <1>3, <2>1, <2>2, <2>3
  <1>. QED
    BY <1>6, <1>10 DEF Sorted

\* erase leaves the others in their order.
LEMMA EraseSorted ==
  ASSUME TypeOK, Sorted, NEW c \in Conns, Erase(c), conn_id' = conn_id
  PROVE  Sorted'
  <1>. DEFINE n == Len(index)
  <1>1. index \in Seq(Conns) /\ n \in Nat /\ DOMAIN index = 1 .. n
    BY LenProperties DEF TypeOK
  <1>2. CASE UNCHANGED index
    BY <1>2 DEF Sorted, Key
  <1>3. ASSUME NEW k \in 1 .. n, index' = RemoveAt(index, k)
        PROVE  Sorted'
    <2>1. /\ Len(index') = n - 1
          /\ \A i \in 1 .. n - 1 :
               index'[i] = IF i < k THEN index[i] ELSE index[i + 1]
      <3>1. IsRemoval(RemoveAt(index, k), index, k)
        BY <1>1, Removed
      <3>. QED
        BY <1>3, <3>1 DEF IsRemoval
    <2>2. \A i \in 1 .. n - 1 : Key(i)' = IF i < k THEN Key(i) ELSE Key(i + 1)
      BY <2>1 DEF Key
    <2>3. \A i, j \in 1 .. n : i < j => Key(i) <= Key(j)
      BY DEF Sorted
    <2>. HIDE DEF n
    <2>4. ASSUME NEW i \in 1 .. n - 1, NEW j \in 1 .. n - 1, i < j
          PROVE  Key(i)' <= Key(j)'
      <3>1. /\ i \in 1 .. n /\ i + 1 \in 1 .. n /\ j \in 1 .. n /\ j + 1 \in 1 .. n
            /\ i + 1 < j + 1 /\ i < j + 1 /\ (j < k => i < k)
        BY <1>1, <2>4
      <3>. QED
        BY <2>2, <2>3, <2>4, <3>1
    <2>. QED
      BY <2>1, <2>4 DEF Sorted
  <1>. QED
    BY <1>1, <1>2, <1>3 DEF Erase

\* It is ParseMessage, which changes conn_id in place, that disorders the index
\* and nothing else: connections that come and go leave it in order.
THEOREM OnlyAcceptDisorders ==
  Spec => [][Sorted /\ conn_id' = conn_id => Sorted']_vars
  <1>1. ASSUME ProxyInv, IndexInv, [Next]_vars, Sorted, conn_id' = conn_id
        PROVE  Sorted'
    <2>1. TypeOK
      BY <1>1 DEF ProxyInv
    <2>2. CASE UNCHANGED index
      BY <1>1, <2>2 DEF Sorted, Key
    <2>3. ASSUME NEW c \in Conns, OnConnection(c)
          PROVE  Sorted'
      <3>1. Insert(c) /\ tcp[c] = "none"
        BY <2>3 DEF OnConnection
      <3>2. conn_id[c] = 0
        BY <1>1, <3>1 DEF ProxyInv, MetaInv, IndexInv
      <3>. QED
        BY <1>1, <2>1, <3>1, <3>2, InsertSorted
    <2>4. ASSUME NEW c \in Conns, OnLostConnection(c)
          PROVE  Sorted'
      BY <1>1, <2>1, <2>4, EraseSorted DEF OnLostConnection
    <2>5. ASSUME NEW c \in Conns, RejectMeta(c)
          PROVE  Sorted'
      BY <1>1, <2>1, <2>2, <2>5, EraseSorted DEF RejectMeta, mapVars
    <2>6. ASSUME NEW c \in Conns,
                 \/ OnMessage(c) \/ EchoMeta(c) \/ AcceptMeta(c)
                 \/ ParseMessages(c) \/ ParseForEver(c) \/ Announce(c) \/ HangUp(c)
          PROVE  UNCHANGED index
      BY <2>6 DEF OnMessage, EchoMeta, AcceptMeta, ParseMessages, ParseForEver,
                  Announce, HangUp, mapVars
    <2>7. CASE AppendData
      BY <2>2, <2>7 DEF AppendData, mapVars
    <2>8. ASSUME NEW m \in Messages, Send(m) \/ ProcessMessage(m)
          PROVE  UNCHANGED index
      BY <2>8 DEF Send, ProcessMessage, Forward, Drop, mapVars
    <2>9. CASE UNCHANGED vars
      BY <2>2, <2>9 DEF vars, mapVars
    <2>. QED
      BY <1>1, <2>2, <2>3, <2>4, <2>5, <2>6, <2>7, <2>8, <2>9
         DEF Next, ParseMessage
  <1>2. ProxyInv /\ IndexInv /\ [Next]_vars =>
          [Sorted /\ conn_id' = conn_id => Sorted']_vars
    BY <1>1
  <1>. QED
    BY <1>2, ProxyInvariant, IndexHoldsOpen, PTL DEF Spec
=============================================================================
