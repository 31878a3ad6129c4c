---------------------------- MODULE RpcProxyProofs ----------------------------
(***************************************************************************)
(* The inductive invariant of RpcProxy and the theorems that follow from   *)
(* it, for any connections, ids and messages.                              *)
(***************************************************************************)
EXTENDS RpcProxy, SequenceTheorems, FiniteSetTheorems, TLAPS

\* What OnMessage has read from c and not yet appended.
LoopData(c) == IF loop # Null /\ loop.conn = c THEN loop.data ELSE <<>>

\* What c has sent and no parser has seen.
Stream(c) == Range(buff[c]) \union Range(LoopData(c)) \union Range(wire[c])

\* A unit is in one place only.
StreamInv ==
  \A c \in Conns :
    /\ IsInjective(buff[c])
    /\ IsInjective(LoopData(c))
    /\ IsInjective(wire[c])
    /\ Range(buff[c]) \intersect Range(LoopData(c)) = {}
    /\ Range(buff[c]) \intersect Range(wire[c]) = {}
    /\ Range(LoopData(c)) \intersect Range(wire[c]) = {}

\* What c has sent is of messages it sends.
OwnerInv ==
  \A c \in Conns : \A u \in Stream(c) :
    u # Meta => u.of.via = c /\ fate[u.of] # "new"

\* A message is in one place, and as long as it is there, it is sent.
PlaceInv ==
  /\ \A m \in Messages :
       Body(m) \in Stream(m.via) =>
         fate[m] = "sent" /\ m \notin message_list[m.via] /\ m \notin process
  /\ \A c \in Conns : \A m \in message_list[c] :
       m.via = c /\ fate[m] = "sent" /\ m \notin process
  /\ \A m \in process : fate[m] = "sent"
  /\ \A m \in Messages :
       fate[m] = "sent" =>
         \/ Body(m) \in Stream(m.via)
         \/ m \in message_list[m.via]
         \/ m \in process

\* An announcement is sent once, and gone when it has been accepted.
MetaInv ==
  /\ loop # Null => loop.data # <<>>
  /\ \A c \in Conns :
       /\ Meta \in Stream(c) => c \in announced /\ ~checked[c]
       /\ checked[c] => c \in announced
       /\ mutex = c => buff[c] = <<Meta>> /\ parses[c] > 0
       /\ conn_id[c] = IF checked[c] THEN Announces[c] ELSE 0

\* Until it is accepted, a peer that waits has sent nothing else.
QuietInv ==
  \A c \in Conns :
    c \notin hasty /\ ~checked[c] /\ mutex # c =>
      /\ c \notin heard
      /\ Stream(c) \subseteq {Meta}
      /\ parses[c] > 0 => buff[c] = <<Meta>>

ProxyInv ==
  /\ TypeOK
  /\ StreamInv
  /\ OwnerInv
  /\ PlaceInv
  /\ MetaInv
  /\ QuietInv
  /\ NeverRejected

-----------------------------------------------------------------------------

(***************************************************************************)
(* The sequences of units.                                                 *)
(***************************************************************************)
\* What OnMessage reads and what it leaves share nothing.
LEMMA Split ==
  ASSUME NEW U, NEW s \in Seq(U), IsInjective(s), NEW n \in 1 .. Len(s)
  PROVE  /\ SubSeq(s, 1, n) \in Seq(U)
         /\ SubSeq(s, n + 1, Len(s)) \in Seq(U)
         /\ SubSeq(s, 1, n) # <<>>
         /\ IsInjective(SubSeq(s, 1, n))
         /\ IsInjective(SubSeq(s, n + 1, Len(s)))
         /\ Range(SubSeq(s, 1, n)) \union Range(SubSeq(s, n + 1, Len(s)))
              = Range(s)
         /\ Range(SubSeq(s, 1, n)) \intersect Range(SubSeq(s, n + 1, Len(s)))
              = {}
  <1>. DEFINE a == SubSeq(s, 1, n)
              b == SubSeq(s, n + 1, Len(s))
  <1>. HIDE DEF a, b
  <1>1. /\ Len(s) \in Nat /\ DOMAIN s = 1 .. Len(s)
        /\ \A i \in 1 .. Len(s) : s[i] \in U
    BY LenProperties, ElementOfSeq
  <1>2. /\ a \in Seq(U) /\ Len(a) = n
        /\ \A i \in 1 .. n : a[i] = s[i]
    BY <1>1, SubSeqProperties DEF a
  <1>3. /\ b \in Seq(U) /\ Len(b) = Len(s) - n
        /\ \A i \in 1 .. Len(s) - n : b[i] = s[n + i]
    <2>1. n + 1 \in Int /\ Len(s) \in Int
      BY <1>1
    <2>2. \A i \in n + 1 .. Len(s) : s[i] \in U
      BY <1>1, <2>1
    <2>3. /\ b \in Seq(U)
          /\ Len(b) = IF n + 1 <= Len(s) THEN Len(s) - (n + 1) + 1 ELSE 0
          /\ \A i \in 1 .. Len(s) - (n + 1) + 1 : b[i] = s[(n + 1) + i - 1]
      <3>. DEFINE k == n + 1
                  l == Len(s)
      <3>1. k \in Int /\ l \in Int /\ \A i \in k .. l : s[i] \in U
        BY <2>1, <2>2
      <3>. HIDE DEF k, l
      <3>2. /\ SubSeq(s, k, l) \in Seq(U)
            /\ Len(SubSeq(s, k, l)) = IF k <= l THEN l - k + 1 ELSE 0
            /\ \A i \in 1 .. l - k + 1 : SubSeq(s, k, l)[i] = s[k + i - 1]
        BY <3>1, SubSeqProperties
      <3>. QED
        BY <3>2 DEF k, l, b
    <2>4. Len(b) = Len(s) - n
      <3>1. \A l \in Nat : \A k \in 1 .. l :
              (IF k + 1 <= l THEN l - (k + 1) + 1 ELSE 0) = l - k
        OBVIOUS
      <3>. QED
        BY <1>1, <2>3, <3>1
    <2>5. \A i \in 1 .. Len(s) - n : b[i] = s[n + i]
      <3>. SUFFICES ASSUME NEW i \in 1 .. Len(s) - n
                    PROVE  b[i] = s[n + i]
        OBVIOUS
      <3>1. i \in 1 .. Len(s) - (n + 1) + 1 /\ (n + 1) + i - 1 = n + i
        BY <1>1
      <3>2. b[i] = s[(n + 1) + i - 1]
        BY <2>3, <3>1
      <3>. QED
        BY <3>1, <3>2
    <2>. QED
      BY <2>3, <2>4, <2>5
  <1>4. DOMAIN a = 1 .. n /\ DOMAIN b = 1 .. Len(s) - n
    BY <1>2, <1>3, LenProperties
  <1>5. a # <<>>
    BY <1>2, EmptySeq
  <1>6. IsInjective(a)
    BY <1>1, <1>2, <1>4 DEF IsInjective
  <1>7. IsInjective(b)
    <2>. SUFFICES ASSUME NEW i \in DOMAIN b, NEW j \in DOMAIN b, b[i] = b[j]
                  PROVE  i = j
      BY DEF IsInjective
    <2>1. /\ i \in Int /\ n + i \in DOMAIN s /\ b[i] = s[n + i]
          /\ j \in Int /\ n + j \in DOMAIN s /\ b[j] = s[n + j]
      BY <1>1, <1>3, <1>4
    <2>2. n + i = n + j
      BY <2>1 DEF IsInjective
    <2>. QED
      BY <2>1, <2>2
  <1>8. Range(a) \union Range(b) = Range(s)
    <2>1. ASSUME NEW i \in 1 .. Len(s)
          PROVE  s[i] \in Range(a) \union Range(b)
      <3>1. CASE i <= n
        BY <1>2, <1>4, <3>1 DEF Range
      <3>2. CASE i > n
        <4>1. i - n \in 1 .. Len(s) - n /\ n + (i - n) = i
          BY <1>1, <3>2
        <4>2. b[i - n] = s[i]
          BY <1>3, <4>1
        <4>. QED
          BY <1>4, <4>1, <4>2 DEF Range
      <3>. QED
        BY <1>1, <3>1, <3>2
    <2>2. Range(a) \subseteq Range(s) /\ Range(b) \subseteq Range(s)
      <3>1. \A i \in DOMAIN a : i \in DOMAIN s /\ a[i] = s[i]
        <4>1. \A i \in 1 .. n : i \in 1 .. Len(s)
          BY <1>1
        <4>. QED
          BY <1>1, <1>2, <1>4, <4>1
      <3>2. \A i \in DOMAIN b : n + i \in DOMAIN s /\ b[i] = s[n + i]
        <4>1. \A i \in 1 .. Len(s) - n : n + i \in 1 .. Len(s)
          BY <1>1
        <4>. QED
          BY <1>1, <1>3, <1>4, <4>1
      <3>. QED
        BY <3>1, <3>2 DEF Range
    <2>3. Range(s) \subseteq Range(a) \union Range(b)
      BY <1>1, <2>1 DEF Range
    <2>. QED
      BY <2>2, <2>3
  <1>9. Range(a) \intersect Range(b) = {}
    <2>. SUFFICES ASSUME NEW i \in 1 .. n, NEW j \in 1 .. Len(s) - n,
                         a[i] = b[j]
                  PROVE  FALSE
      BY <1>4 DEF Range
    <2>1. s[i] = s[n + j] /\ i \in DOMAIN s /\ n + j \in DOMAIN s
      BY <1>1, <1>2, <1>3
    <2>2. i = n + j
      BY <2>1 DEF IsInjective
    <2>. QED
      BY <1>1, <2>2
  <1>. QED
    BY <1>2, <1>3, <1>5, <1>6, <1>7, <1>8, <1>9 DEF a, b

\* What is appended to what it shares nothing with.
LEMMA Join ==
  ASSUME NEW U, NEW a \in Seq(U), NEW b \in Seq(U),
         IsInjective(a), IsInjective(b), Range(a) \intersect Range(b) = {}
  PROVE  /\ a \o b \in Seq(U)
         /\ IsInjective(a \o b)
         /\ Range(a \o b) = Range(a) \union Range(b)
  <1>. DEFINE s == a \o b
  <1>1. /\ Len(a) \in Nat /\ DOMAIN a = 1 .. Len(a)
        /\ Len(b) \in Nat /\ DOMAIN b = 1 .. Len(b)
    BY LenProperties
  <1>2. /\ s \in Seq(U) /\ Len(s) = Len(a) + Len(b)
        /\ \A i \in 1 .. Len(a) + Len(b) :
             s[i] = IF i <= Len(a) THEN a[i] ELSE b[i - Len(a)]
    BY ConcatProperties
  <1>3. DOMAIN s = 1 .. Len(a) + Len(b)
    BY <1>2, LenProperties
  <1>4. Range(s) = Range(a) \union Range(b)
    BY RangeConcatenation
  <1>. HIDE DEF s
  <1>5. ASSUME NEW i \in DOMAIN s, NEW j \in DOMAIN s, s[i] = s[j]
        PROVE  i = j
    <2>1. \/ i \in DOMAIN a /\ s[i] = a[i]
          \/ i - Len(a) \in DOMAIN b /\ s[i] = b[i - Len(a)]
      BY <1>1, <1>2, <1>3
    <2>2. \/ j \in DOMAIN a /\ s[j] = a[j]
          \/ j - Len(a) \in DOMAIN b /\ s[j] = b[j - Len(a)]
      BY <1>1, <1>2, <1>3
    <2>3. \A k \in DOMAIN a : a[k] \in Range(a)
      BY DEF Range
    <2>4. \A k \in DOMAIN b : b[k] \in Range(b)
      BY DEF Range
    <2>. QED
      BY <1>1, <1>3, <1>5, <2>1, <2>2, <2>3, <2>4 DEF IsInjective
  <1>. QED
    BY <1>2, <1>4, <1>5 DEF s, IsInjective

\* One unit more.
LEMMA JoinOne ==
  ASSUME NEW U, NEW s \in Seq(U), IsInjective(s), NEW u \in U, u \notin Range(s)
  PROVE  /\ Append(s, u) \in Seq(U)
         /\ IsInjective(Append(s, u))
         /\ Range(Append(s, u)) = Range(s) \union {u}
  <1>. DEFINE b == <<u>>
  <1>1. b \in Seq(U) /\ IsInjective(b) /\ Range(b) = {u}
    BY DEF IsInjective, Range
  <1>2. Append(s, u) = s \o b
    BY AppendIsConcat
  <1>. HIDE DEF b
  <1>3. Range(s) \intersect Range(b) = {}
    BY <1>1
  <1>. QED
    BY <1>1, <1>2, <1>3, Join

\* Two units more.
LEMMA JoinTwo ==
  ASSUME NEW U, NEW s \in Seq(U), IsInjective(s), NEW u \in U, NEW v \in U,
         u \notin Range(s), v \notin Range(s), u # v
  PROVE  /\ s \o <<u, v>> \in Seq(U)
         /\ IsInjective(s \o <<u, v>>)
         /\ Range(s \o <<u, v>>) = Range(s) \union {u, v}
  <1>. DEFINE b == <<u, v>>
  <1>1. b \in Seq(U) /\ IsInjective(b) /\ Range(b) = {u, v}
    BY DEF IsInjective, Range
  <1>. HIDE DEF b
  <1>2. Range(s) \intersect Range(b) = {}
    BY <1>1
  <1>3. /\ s \o b \in Seq(U) /\ IsInjective(s \o b)
        /\ Range(s \o b) = Range(s) \union {u, v}
    BY <1>1, <1>2, Join
  <1>. QED
    BY <1>3 DEF b

\* What is cleared holds nothing.
LEMMA EmptyRange == Range(<<>>) = {} /\ IsInjective(<<>>)
  BY DEF Range, IsInjective

\* What is not empty holds something.
LEMMA NonEmptyRange ==
  ASSUME NEW U, NEW s \in Seq(U), s # <<>>
  PROVE  Range(s) # {}
  <1>1. Len(s) \in Nat /\ Len(s) # 0 /\ DOMAIN s = 1 .. Len(s)
    BY LenProperties, EmptySeq
  <1>2. 1 \in DOMAIN s
    BY <1>1
  <1>3. s[1] \in Range(s)
    BY <1>2 DEF Range
  <1>. QED
    BY <1>3

\* An announcement alone.
LEMMA OnlyMeta ==
  ASSUME NEW U, NEW s \in Seq(U), IsInjective(s), NEW u, Range(s) = {u}
  PROVE  s = <<u>>
  <1>1. Len(s) \in Nat /\ DOMAIN s = 1 .. Len(s)
    BY LenProperties
  <1>2. \A i \in DOMAIN s : s[i] = u
    BY DEF Range
  <1>3. \E i \in DOMAIN s : TRUE
    BY DEF Range
  <1>4. \A i, j \in DOMAIN s : i = j
    BY <1>2 DEF IsInjective
  <1>5. Len(s) = 1
    <2>1. 1 \in DOMAIN s /\ Len(s) \in DOMAIN s
      BY <1>1, <1>3
    <2>. QED
      BY <1>4, <2>1
  <1>6. s[1] = u
    BY <1>1, <1>2, <1>5
  <1>7. u \in U
    BY <1>1, <1>5, <1>6, ElementOfSeq
  <1>8. <<u>> \in Seq(U) /\ Len(<<u>>) = 1 /\ <<u>>[1] = u
    BY <1>7
  <1>9. \A i \in 1 .. Len(s) : s[i] = <<u>>[i]
    BY <1>5, <1>6, <1>8
  <1>. QED
    BY <1>5, <1>8, <1>9, SeqEqual

\* The units.
LEMMA UnitFacts ==
  /\ \A u \in Unit : u # Meta => u \in Piece /\ u.of \in Messages
  /\ \A m \in Messages :
       /\ Body(m) \in Unit /\ Body(m) # Meta /\ Body(m).of = m
       /\ [part |-> "header", of |-> m] \in Unit
       /\ [part |-> "header", of |-> m] # Meta
       /\ \A n \in Messages : [part |-> "header", of |-> m] # Body(n)
       /\ \A n \in Messages : Body(m) = Body(n) => m = n
       /\ m.via \in Conns /\ m.dst \in Int \ {0}
  /\ Meta \in Unit
  <1>1. Meta \notin Piece /\ Unit = Piece \union {Meta}
    BY ProxyAssumption DEF Unit, Piece
  <1>2. \A u \in Piece : u.of \in Messages
    BY DEF Piece
  <1>3. ASSUME NEW m \in Messages
        PROVE  /\ Body(m) \in Piece
               /\ [part |-> "header", of |-> m] \in Piece
               /\ Body(m).of = m
               /\ \A n \in Messages : [part |-> "header", of |-> m] # Body(n)
               /\ \A n \in Messages : Body(m) = Body(n) => m = n
    BY DEF Piece, Body
  <1>4. \A m \in Messages : m.via \in Conns /\ m.dst \in Int \ {0}
    BY ProxyAssumption
  <1>. QED
    BY <1>1, <1>2, <1>3, <1>4

\* What a peer has sent are units.
LEMMA StreamUnits ==
  ASSUME TypeOK, NEW c \in Conns
  PROVE  /\ LoopData(c) \in Seq(Unit)
         /\ Range(buff[c]) \subseteq Unit
         /\ Range(LoopData(c)) \subseteq Unit
         /\ Range(wire[c]) \subseteq Unit
         /\ Stream(c) \subseteq Unit
  <1>1. buff[c] \in Seq(Unit) /\ wire[c] \in Seq(Unit)
    BY DEF TypeOK
  <1>2. LoopData(c) \in Seq(Unit)
    <2>1. CASE loop # Null /\ loop.conn = c
      BY <2>1 DEF TypeOK, LoopData
    <2>2. CASE ~(loop # Null /\ loop.conn = c)
      BY <2>2, EmptySeq DEF LoopData
    <2>. QED
      BY <2>1, <2>2
  <1>. QED
    BY <1>1, <1>2, RangeOfSeq DEF Stream

-----------------------------------------------------------------------------
\* A proxy that has just started has nothing to lose.
LEMMA InitInvariant == Init => ProxyInv
  <1>. SUFFICES ASSUME Init
                PROVE  ProxyInv
    OBVIOUS
  <1>. USE DEF Init
  <1>1. TypeOK
    BY ProxyAssumption DEF TypeOK
  <1>2. \A c \in Conns : /\ buff[c] = <<>> /\ LoopData(c) = <<>>
                         /\ wire[c] = <<>> /\ Stream(c) = {}
    BY EmptyRange DEF LoopData, Stream
  <1>3. StreamInv
    BY <1>2, EmptyRange DEF StreamInv
  <1>4. OwnerInv /\ QuietInv
    BY <1>2 DEF OwnerInv, QuietInv
  <1>5. PlaceInv
    BY <1>2, UnitFacts DEF PlaceInv
  <1>6. MetaInv
    BY <1>2, ProxyAssumption DEF MetaInv
  <1>7. NeverRejected
    BY DEF NeverRejected
  <1>. QED
    BY <1>1, <1>3, <1>4, <1>5, <1>6, <1>7 DEF ProxyInv

-----------------------------------------------------------------------------
(***************************************************************************)
(* The index keeps its type.                                               *)
(***************************************************************************)
\* The root is one of the elements.
LEMMA ReshapeType ==
  ASSUME TypeOK, index' \in Seq(Conns), Reshape
  PROVE  root' \in Conns \union {Null}
  <1>1. DOMAIN index' = 1 .. Len(index') /\ Len(index') \in Nat
    BY LenProperties
  <1>2. \A i \in 1 .. Len(index') : index'[i] \in Conns
    BY <1>1, ElementOfSeq
  <1>3. root' \in {root, Null} \union {index'[r] : r \in 1 .. Len(index')}
    <2>. DEFINE R == {i \in 1 .. Len(index') : Balanced(i - 1, Len(index') - i)}
    <2>1. R \subseteq 1 .. Len(index')
      OBVIOUS
    <2>2. \/ root' \in {root}
          \/ root' \in {Null}
          \/ root' \in {index'[r] : r \in R}
      BY DEF Reshape
    <2>. HIDE DEF R
    <2>. QED
      BY <2>1, <2>2
  <1>4. root \in Conns \union {Null}
    BY DEF TypeOK
  <1>5. {index'[r] : r \in 1 .. Len(index')} \subseteq Conns
    BY <1>2
  <1>. QED
    BY <1>3, <1>4, <1>5

\* Insert adds a connection.
LEMMA InsertType ==
  ASSUME TypeOK, NEW c \in Conns, Insert(c)
  PROVE  index' \in Seq(Conns) /\ root' \in Conns \union {Null}
  <1>1. PICK g \in 0 .. Len(index) : index' = InsertAt(index, g + 1, c)
    BY DEF Insert, Descents
  <1>2. /\ index \in Seq(Conns) /\ Len(index) \in Nat
        /\ \A i \in 1 .. Len(index) : index[i] \in Conns
    BY LenProperties, ElementOfSeq DEF TypeOK
  <1>3. /\ g + 1 \in Int /\ (g + 1) - 1 = g /\ g \in Int /\ 1 \in Int
        /\ Len(index) \in Int
    BY <1>2
  <1>4. \A i \in 1 .. g : index[i] \in Conns
    BY <1>2
  <1>5. \A i \in g + 1 .. Len(index) : index[i] \in Conns
    BY <1>2
  <1>6. SubSeq(index, 1, g) \in Seq(Conns)
    BY <1>3, <1>4, SubSeqProperties
  <1>7. SubSeq(index, g + 1, Len(index)) \in Seq(Conns)
    BY <1>3, <1>5, SubSeqProperties
  <1>8. index' = SubSeq(index, 1, g) \o <<c>>
                   \o SubSeq(index, g + 1, Len(index))
    BY <1>1, <1>3 DEF InsertAt
  <1>9. <<c>> \in Seq(Conns)
    OBVIOUS
  <1>10. index' \in Seq(Conns)
    BY <1>6, <1>7, <1>8, <1>9, ConcatProperties
  <1>. QED
    BY <1>10, ReshapeType DEF Insert

\* Remove adds none.
LEMMA EraseType ==
  ASSUME TypeOK, NEW c \in Conns, Erase(c)
  PROVE  index' \in Seq(Conns) /\ root' \in Conns \union {Null}
  <1>1. /\ index \in Seq(Conns) /\ Len(index) \in Nat
        /\ DOMAIN index = 1 .. Len(index)
        /\ \A i \in 1 .. Len(index) : index[i] \in Conns
    BY LenProperties, ElementOfSeq DEF TypeOK
  <1>2. index' \in Seq(Conns)
    <2>1. CASE index' = index
      BY <1>1, <2>1
    <2>2. ASSUME NEW i \in DOMAIN index, index' = RemoveAt(index, i)
          PROVE  index' \in Seq(Conns)
      <3>1. /\ i - 1 \in Int /\ i + 1 \in Int /\ 1 \in Int
            /\ Len(index) \in Int
        BY <1>1
      <3>2. \A j \in 1 .. i - 1 : index[j] \in Conns
        BY <1>1
      <3>3. \A j \in i + 1 .. Len(index) : index[j] \in Conns
        BY <1>1
      <3>4. SubSeq(index, 1, i - 1) \in Seq(Conns)
        BY <3>1, <3>2, SubSeqProperties
      <3>5. SubSeq(index, i + 1, Len(index)) \in Seq(Conns)
        BY <3>1, <3>3, SubSeqProperties
      <3>. QED
        BY <2>2, <3>4, <3>5, ConcatProperties DEF RemoveAt
    <2>. QED
      BY <2>1, <2>2 DEF Erase
  <1>. QED
    BY <1>2, ReshapeType DEF Erase

-----------------------------------------------------------------------------
(***************************************************************************)
(* Every step preserves the invariant.                                     *)
(***************************************************************************)
\* A step that moves no message.
LEMMA NothingMoves ==
  ASSUME ProxyInv, UNCHANGED <<buff, loop, wire, message_list, process, fate>>
  PROVE  /\ \A c \in Conns : Stream(c)' = Stream(c)
         /\ StreamInv' /\ OwnerInv' /\ PlaceInv'
  <1>. USE DEF ProxyInv
  <1>1. \A c \in Conns : LoopData(c)' = LoopData(c) /\ Stream(c)' = Stream(c)
    BY DEF LoopData, Stream
  <1>2. StreamInv'
    BY <1>1 DEF StreamInv
  <1>3. OwnerInv'
    BY <1>1 DEF OwnerInv
  <1>4. PlaceInv'
    <2>1. \A m \in Messages : Stream(m.via)' = Stream(m.via)
      BY <1>1, UnitFacts
    <2>. QED
      BY <2>1 DEF PlaceInv
  <1>. QED
    BY <1>1, <1>2, <1>3, <1>4

\* A connection that is made has conn_id 0 and has announced nothing.
LEMMA OnConnectionStep ==
  ASSUME ProxyInv, NEW c \in Conns, OnConnection(c)
  PROVE  ProxyInv'
  <1>. USE DEF ProxyInv, OnConnection, connVars, poolVars, traceVars
  <1>1. TypeOK'
    BY InsertType DEF TypeOK
  <1>2. /\ \A d \in Conns : Stream(d)' = Stream(d)
        /\ StreamInv' /\ OwnerInv' /\ PlaceInv'
    BY NothingMoves
  <1>3. MetaInv'
    BY <1>2 DEF MetaInv
  <1>4. QuietInv'
    BY <1>2 DEF QuietInv
  <1>5. NeverRejected'
    BY DEF NeverRejected, TypeOK
  <1>. QED
    BY <1>1, <1>2, <1>3, <1>4, <1>5

\* A peer that hangs up has lost nothing yet.
LEMMA HangUpStep ==
  ASSUME ProxyInv, NEW c \in Conns, HangUp(c)
  PROVE  ProxyInv'
  <1>. USE DEF ProxyInv, HangUp, mapVars, connVars, poolVars, traceVars
  <1>1. TypeOK'
    BY DEF TypeOK
  <1>2. /\ \A d \in Conns : Stream(d)' = Stream(d)
        /\ StreamInv' /\ OwnerInv' /\ PlaceInv'
    BY NothingMoves
  <1>3. MetaInv'
    BY <1>2 DEF MetaInv
  <1>4. QuietInv'
    BY <1>2 DEF QuietInv
  <1>5. NeverRejected'
    BY DEF NeverRejected, TypeOK
  <1>. QED
    BY <1>1, <1>2, <1>3, <1>4, <1>5

\* Only a hasty peer is rejected: what a peer that waits has sent is all there
\* is when it is parsed.
LEMMA RejectMetaStep ==
  ASSUME ProxyInv, NEW c \in Conns, RejectMeta(c)
  PROVE  ProxyInv'
  <1>. USE DEF ProxyInv, RejectMeta, ParseBegins, ParseDone, mapVars, connVars,
               traceVars
  <1>1. TypeOK'
    <2>1. index' \in Seq(Conns) /\ root' \in Conns \union {Null}
      BY EraseType DEF TypeOK
    <2>2. parses' \in [Conns -> Nat]
      BY DEF TypeOK
    <2>3. tcp' \in [Conns -> {"none", "up", "closing", "rejected", "closed"}]
      BY DEF TypeOK
    <2>. QED
      BY <2>1, <2>2, <2>3 DEF TypeOK
  <1>2. /\ \A d \in Conns : Stream(d)' = Stream(d)
        /\ StreamInv' /\ OwnerInv' /\ PlaceInv'
    BY NothingMoves
  <1>3. c \in hasty
    BY ProxyAssumption DEF QuietInv, MetaParsed
  <1>4. MetaInv'
    BY <1>2, ProxyAssumption DEF MetaInv, TypeOK
  <1>5. QuietInv'
    BY <1>2, <1>3 DEF QuietInv, TypeOK
  <1>6. NeverRejected'
    BY <1>3 DEF NeverRejected, TypeOK
  <1>. QED
    BY <1>1, <1>2, <1>4, <1>5, <1>6

\* mutex_ is held from the echo on: what the peer sends on it stays in wire or
\* loop until buff is cleared.
LEMMA EchoMetaStep ==
  ASSUME ProxyInv, NEW c \in Conns, EchoMeta(c)
  PROVE  ProxyInv'
  <1>. USE DEF ProxyInv, EchoMeta, ParseBegins, MetaParsed, mapVars, connVars,
               traceVars
  <1>1. TypeOK'
    BY DEF TypeOK
  <1>2. /\ \A d \in Conns : Stream(d)' = Stream(d)
        /\ StreamInv' /\ OwnerInv' /\ PlaceInv'
    BY NothingMoves
  <1>3. MetaInv'
    BY <1>2 DEF MetaInv
  <1>4. QuietInv'
    BY <1>2, ProxyAssumption DEF QuietInv
  <1>5. NeverRejected'
    BY DEF NeverRejected
  <1>. QED
    BY <1>1, <1>2, <1>3, <1>4, <1>5

\* A parser that never returns moves nothing.
LEMMA ParseForEverStep ==
  ASSUME ProxyInv, NEW c \in Conns, ParseForEver(c)
  PROVE  ProxyInv'
  <1>. USE DEF ProxyInv, ParseForEver, ParseBegins, peerVars, mapVars, connVars,
               traceVars
  <1>1. TypeOK'
    BY DEF TypeOK
  <1>2. /\ \A d \in Conns : Stream(d)' = Stream(d)
        /\ StreamInv' /\ OwnerInv' /\ PlaceInv'
    BY NothingMoves
  <1>3. MetaInv'
    BY <1>2, ProxyAssumption DEF MetaInv
  <1>4. QuietInv'
    BY <1>2, ProxyAssumption DEF QuietInv
  <1>5. NeverRejected'
    BY DEF NeverRejected
  <1>. QED
    BY <1>1, <1>2, <1>3, <1>4, <1>5

\* OnMessage and its append move units on within their stream.
LEMMA StreamKept ==
  ASSUME ProxyInv, \A c \in Conns : Stream(c)' = Stream(c),
         UNCHANGED <<message_list, process, fate>>
  PROVE  OwnerInv' /\ PlaceInv'
  <1>. USE DEF ProxyInv
  <1>1. OwnerInv'
    BY DEF OwnerInv
  <1>2. PlaceInv'
    <2>1. \A m \in Messages : Stream(m.via)' = Stream(m.via)
      BY UnitFacts
    <2>. QED
      BY <2>1 DEF PlaceInv
  <1>. QED
    BY <1>1, <1>2

\* What OnMessage reads moves from the socket to the loop.
LEMMA OnMessageStep ==
  ASSUME ProxyInv, NEW c \in Conns, OnMessage(c)
  PROVE  ProxyInv'
  <1>. USE DEF ProxyInv, OnMessage, mapVars, connVars, traceVars
  <1>1. PICK n \in 1 .. Len(wire[c]) :
          /\ loop' = [conn |-> c, data |-> SubSeq(wire[c], 1, n)]
          /\ wire' = [wire EXCEPT ![c] =
                        SubSeq(wire[c], n + 1, Len(wire[c]))]
    OBVIOUS
  <1>. DEFINE a == SubSeq(wire[c], 1, n)
              b == SubSeq(wire[c], n + 1, Len(wire[c]))
  <1>2. /\ a \in Seq(Unit) /\ b \in Seq(Unit) /\ a # <<>>
        /\ IsInjective(a) /\ IsInjective(b)
        /\ Range(a) \union Range(b) = Range(wire[c])
        /\ Range(a) \intersect Range(b) = {}
    <2>1. wire[c] \in Seq(Unit) /\ IsInjective(wire[c])
      BY DEF TypeOK, StreamInv
    <2>. QED
      BY <2>1, Split
  <1>3. loop' = [conn |-> c, data |-> a] /\ wire' = [wire EXCEPT ![c] = b]
    BY <1>1
  <1>. HIDE DEF a, b
  <1>4. TypeOK'
    BY <1>2, <1>3 DEF TypeOK
  <1>5. loop' # Null
    <2>1. loop' \in [conn : Conns, data : Seq(Unit)]
      BY <1>2, <1>3
    <2>. QED
      BY <2>1, ProxyAssumption
  <1>6. \A d \in Conns :
          /\ LoopData(d) = <<>>
          /\ LoopData(d)' = IF d = c THEN a ELSE <<>>
          /\ wire'[d] = IF d = c THEN b ELSE wire[d]
    BY <1>3, <1>5 DEF LoopData, TypeOK
  <1>7. \A d \in Conns : Stream(d)' = Stream(d)
    BY <1>2, <1>6, EmptyRange DEF Stream
  <1>8. StreamInv'
    BY <1>2, <1>6, EmptyRange DEF StreamInv
  <1>9. OwnerInv' /\ PlaceInv'
    BY <1>7, StreamKept
  <1>10. MetaInv'
    BY <1>2, <1>3, <1>7 DEF MetaInv
  <1>11. QuietInv'
    BY <1>7 DEF QuietInv
  <1>12. NeverRejected'
    BY DEF NeverRejected
  <1>. QED
    BY <1>4, <1>8, <1>9, <1>10, <1>11, <1>12

\* What the loop has read moves to buff; of a peer that waits, that is its
\* announcement alone.
LEMMA AppendDataStep ==
  ASSUME ProxyInv, AppendData
  PROVE  ProxyInv'
  <1>. USE DEF ProxyInv, AppendData, peerVars, mapVars, traceVars
  <1>. DEFINE c == loop.conn
              a == loop.data
              b == buff[c] \o a
  <1>1. /\ c \in Conns /\ a \in Seq(Unit) /\ a # <<>> /\ buff[c] \in Seq(Unit)
        /\ loop # Null
    BY DEF TypeOK, MetaInv
  <1>2. \A d \in Conns :
          /\ LoopData(d) = IF d = c THEN a ELSE <<>>
          /\ LoopData(d)' = <<>>
    BY <1>1 DEF LoopData
  <1>3. /\ IsInjective(buff[c]) /\ IsInjective(a)
        /\ Range(buff[c]) \intersect Range(a) = {}
    BY <1>1, <1>2 DEF StreamInv
  <1>4. /\ b \in Seq(Unit) /\ IsInjective(b)
        /\ Range(b) = Range(buff[c]) \union Range(a)
    BY <1>1, <1>3, Join
  <1>5. buff' = [buff EXCEPT ![c] = b] /\ c \in Conns
    BY <1>1
  <1>. HIDE DEF b
  <1>6. \A d \in Conns : buff'[d] = IF d = c THEN b ELSE buff[d]
    BY <1>5 DEF TypeOK
  <1>7. TypeOK'
    BY <1>1, <1>4, <1>5 DEF TypeOK
  <1>8. \A d \in Conns : Stream(d)' = Stream(d)
    BY <1>2, <1>4, <1>6, EmptyRange DEF Stream
  <1>9. StreamInv'
    <2>1. Range(a) \intersect Range(wire[c]) = {}
      BY <1>1, <1>2 DEF StreamInv
    <2>. QED
      BY <2>1, <1>2, <1>4, <1>6, EmptyRange DEF StreamInv
  <1>10. OwnerInv' /\ PlaceInv'
    BY <1>8, StreamKept
  <1>11. MetaInv'
    BY <1>8, ProxyAssumption DEF MetaInv
  <1>12. QuietInv'
    <2>. SUFFICES ASSUME NEW d \in Conns,
                         d \notin hasty /\ ~checked[d] /\ mutex # d
                  PROVE  /\ d \notin heard
                         /\ Stream(d)' \subseteq {Meta}
                         /\ parses'[d] > 0 => buff'[d] = <<Meta>>
      BY DEF QuietInv
    <2>1. /\ d \notin heard
          /\ Stream(d) \subseteq {Meta}
          /\ parses[d] > 0 => buff[d] = <<Meta>>
      BY DEF QuietInv
    <2>2. CASE d # c
      BY <1>1, <1>6, <1>8, <2>1, <2>2 DEF TypeOK
    <2>3. CASE d = c
      <3>1. Range(a) \subseteq {Meta} /\ Range(buff[c]) \subseteq {Meta}
        BY <1>2, <2>1, <2>3 DEF Stream
      <3>2. Range(a) # {}
        BY <1>1, NonEmptyRange
      <3>3. Range(b) = {Meta}
        BY <1>4, <3>1, <3>2
      <3>4. b = <<Meta>>
        BY <1>4, <3>3, OnlyMeta
      <3>. QED
        BY <1>6, <1>8, <2>1, <2>3, <3>4
    <2>. QED
      BY <2>2, <2>3
  <1>13. NeverRejected'
    BY DEF NeverRejected
  <1>. QED
    BY <1>7, <1>9, <1>10, <1>11, <1>12, <1>13

\* What is lost with a connection is all its own, and nowhere else.
LEMMA OnLostConnectionStep ==
  ASSUME ProxyInv, NEW c \in Conns, OnLostConnection(c)
  PROVE  ProxyInv'
  <1>. USE DEF ProxyInv, OnLostConnection, connVars, poolVars
  <1>. DEFINE M == Bodies(wire[c])
  <1>1. ASSUME NEW m \in M
        PROVE  /\ m \in Messages /\ m.via = c
               /\ Body(m) \in Range(wire[c]) /\ Body(m) \in Stream(c)
               /\ fate[m] = "sent"
               /\ \A d \in Conns : m \notin message_list[d]
               /\ m \notin process
    <2>1. m \in Messages /\ Body(m) \in Range(wire[c])
      BY DEF Bodies
    <2>2. Body(m) \in Stream(c)
      BY <2>1 DEF Stream
    <2>3. m.via = c
      <3>1. Body(m) # Meta /\ Body(m).of = m
        BY <2>1, UnitFacts
      <3>. QED
        BY <2>2, <3>1 DEF OwnerInv
    <2>. QED
      BY <2>1, <2>2, <2>3 DEF PlaceInv
  <1>2. fate' = [m \in Messages |-> IF m \in M THEN "lost" ELSE fate[m]]
    OBVIOUS
  <1>3. \A m \in Messages : m \in M <=> Body(m) \in Range(wire[c])
    BY DEF Bodies
  <1>. HIDE DEF M
  <1>4. TypeOK'
    <2>1. index' \in Seq(Conns) /\ root' \in Conns \union {Null}
      BY EraseType
    <2>2. fate' \in [Messages ->
                       {"new", "sent", "delivered", "dropped", "lost"}]
      BY <1>2 DEF TypeOK
    <2>3. wire' \in [Conns -> Seq(Unit)]
      BY EmptySeq DEF TypeOK
    <2>4. tcp' \in [Conns -> {"none", "up", "closing", "rejected", "closed"}]
      BY DEF TypeOK
    <2>. QED
      BY <2>1, <2>2, <2>3, <2>4 DEF TypeOK
  <1>5. \A d \in Conns :
          /\ LoopData(d)' = LoopData(d)
          /\ wire'[d] = IF d = c THEN <<>> ELSE wire[d]
          /\ Stream(d)' \subseteq Stream(d)
          /\ d # c => Stream(d)' = Stream(d)
    BY EmptyRange DEF LoopData, Stream, TypeOK
  <1>6. Stream(c)' = Stream(c) \ Range(wire[c])
    BY <1>5, EmptyRange DEF StreamInv, Stream
  <1>7. StreamInv'
    BY <1>5, EmptyRange DEF StreamInv
  <1>8. OwnerInv'
    <2>. SUFFICES ASSUME NEW d \in Conns, NEW u \in Stream(d)', u # Meta
                  PROVE  u.of.via = d /\ fate'[u.of] # "new"
      BY DEF OwnerInv
    <2>1. u \in Stream(d) /\ u.of \in Messages
      BY <1>5, StreamUnits, UnitFacts
    <2>. QED
      BY <1>2, <2>1 DEF OwnerInv
  <1>9. PlaceInv'
    <2>1. ASSUME NEW m \in Messages, Body(m) \in Stream(m.via)'
          PROVE  fate'[m] = "sent" /\ m \notin message_list[m.via]
                                   /\ m \notin process
      <3>1. m.via \in Conns /\ Body(m) \in Stream(m.via)
        BY <1>5, <2>1, UnitFacts
      <3>2. m \notin M
        BY <1>1, <1>3, <1>6, <2>1
      <3>. QED
        BY <1>2, <3>1, <3>2 DEF PlaceInv
    <2>2. ASSUME NEW d \in Conns, NEW m \in message_list[d]
          PROVE  m.via = d /\ fate'[m] = "sent" /\ m \notin process
      <3>1. m \in Messages
        BY DEF TypeOK
      <3>2. m.via = d /\ fate[m] = "sent" /\ m \notin process
        BY DEF PlaceInv
      <3>3. m \notin M
        BY <1>1
      <3>. QED
        BY <1>2, <3>1, <3>2, <3>3
    <2>3. ASSUME NEW m \in process
          PROVE  fate'[m] = "sent"
      BY <1>1, <1>2 DEF PlaceInv, TypeOK
    <2>4. ASSUME NEW m \in Messages, fate'[m] = "sent"
          PROVE  \/ Body(m) \in Stream(m.via)'
                 \/ m \in message_list[m.via]
                 \/ m \in process
      <3>1. m \notin M /\ fate[m] = "sent" /\ m.via \in Conns
        BY <1>2, <2>4, UnitFacts
      <3>2. Body(m) \in Stream(m.via) => Body(m) \in Stream(m.via)'
        BY <1>3, <1>5, <1>6, <3>1
      <3>. QED
        BY <3>1, <3>2 DEF PlaceInv
    <2>. QED
      BY <2>1, <2>2, <2>3, <2>4 DEF PlaceInv
  <1>10. MetaInv'
    BY <1>5 DEF MetaInv
  <1>11. QuietInv'
    BY <1>5 DEF QuietInv
  <1>12. NeverRejected'
    BY DEF NeverRejected, TypeOK
  <1>. QED
    BY <1>4, <1>7, <1>8, <1>9, <1>10, <1>11, <1>12

\* An announcement is the first unit of its peer.
LEMMA AnnounceStep ==
  ASSUME ProxyInv, NEW c \in Conns, Announce(c)
  PROVE  ProxyInv'
  <1>. USE DEF ProxyInv, Announce, mapVars, connVars, poolVars, traceVars
  <1>. DEFINE w == Append(wire[c], Meta)
  <1>1. Meta \notin Stream(c) /\ ~checked[c]
    BY DEF MetaInv
  <1>2. /\ w \in Seq(Unit) /\ IsInjective(w)
        /\ Range(w) = Range(wire[c]) \union {Meta}
    <2>1. /\ wire[c] \in Seq(Unit) /\ IsInjective(wire[c])
          /\ Meta \notin Range(wire[c]) /\ Meta \in Unit
      BY <1>1, UnitFacts DEF TypeOK, StreamInv, Stream
    <2>. QED
      BY <2>1, JoinOne
  <1>3. wire' = [wire EXCEPT ![c] = w]
    OBVIOUS
  <1>. HIDE DEF w
  <1>4. TypeOK'
    BY <1>2, <1>3 DEF TypeOK
  <1>5. \A d \in Conns :
          /\ LoopData(d)' = LoopData(d)
          /\ wire'[d] = IF d = c THEN w ELSE wire[d]
          /\ Stream(d)' = IF d = c THEN Stream(d) \union {Meta} ELSE Stream(d)
    BY <1>2, <1>3 DEF LoopData, Stream, TypeOK
  <1>6. StreamInv'
    <2>1. Meta \notin Range(buff[c]) /\ Meta \notin Range(LoopData(c))
      BY <1>1 DEF Stream
    <2>. SUFFICES ASSUME NEW d \in Conns
         PROVE /\ IsInjective(buff[d])
               /\ IsInjective(LoopData(d)')
               /\ IsInjective(wire'[d])
               /\ Range(buff[d]) \intersect Range(LoopData(d)') = {}
               /\ Range(buff[d]) \intersect Range(wire'[d]) = {}
               /\ Range(LoopData(d)') \intersect Range(wire'[d]) = {}
      BY DEF StreamInv
    <2>2. CASE d = c
      BY <1>2, <1>5, <2>1, <2>2 DEF StreamInv
    <2>3. CASE d # c
      BY <1>5, <2>3 DEF StreamInv
    <2>. QED
      BY <2>2, <2>3
  <1>7. OwnerInv'
    BY <1>5 DEF OwnerInv
  <1>8. PlaceInv'
    <2>1. \A m \in Messages :
            Body(m) \in Stream(m.via)' <=> Body(m) \in Stream(m.via)
      <3>1. \A m \in Messages : m.via \in Conns /\ Body(m) # Meta
        BY UnitFacts
      <3>. QED
        BY <1>5, <3>1
    <2>. QED
      BY <2>1 DEF PlaceInv
  <1>9. MetaInv'
    BY <1>1, <1>5 DEF MetaInv
  <1>10. QuietInv'
    BY <1>5 DEF QuietInv
  <1>11. NeverRejected'
    BY DEF NeverRejected
  <1>. QED
    BY <1>4, <1>6, <1>7, <1>8, <1>9, <1>10, <1>11

\* A message that is sent was nowhere before.
LEMMA SendStep ==
  ASSUME ProxyInv, NEW m \in Messages, Send(m)
  PROVE  ProxyInv'
  <1>. USE DEF ProxyInv, Send, mapVars, connVars, poolVars
  <1>. DEFINE c == m.via
              h == [part |-> "header", of |-> m]
              w == wire[c] \o <<h, Body(m)>>
  <1>1. /\ c \in Conns /\ h \in Unit /\ Body(m) \in Unit
        /\ h # Meta /\ Body(m) # Meta /\ h # Body(m)
        /\ h.of = m /\ Body(m).of = m
        /\ \A n \in Messages : h # Body(n) /\ (Body(m) = Body(n) => m = n)
    BY UnitFacts
  <1>2. fate[m] = "new" /\ fate' = [fate EXCEPT ![m] = "sent"]
    OBVIOUS
  <1>3. h \notin Stream(c) /\ Body(m) \notin Stream(c)
    BY <1>1, <1>2 DEF OwnerInv
  <1>4. /\ w \in Seq(Unit) /\ IsInjective(w)
        /\ Range(w) = Range(wire[c]) \union {h, Body(m)}
    <2>1. /\ wire[c] \in Seq(Unit) /\ IsInjective(wire[c])
          /\ h \notin Range(wire[c]) /\ Body(m) \notin Range(wire[c])
      BY <1>1, <1>3 DEF TypeOK, StreamInv, Stream
    <2>. HIDE DEF h, c
    <2>. QED
      BY <1>1, <2>1, JoinTwo
  <1>5. wire' = [wire EXCEPT ![c] = w]
    OBVIOUS
  <1>. HIDE DEF w, h, c
  <1>6. TypeOK'
    <2>1. hasty' \subseteq Conns
      BY <1>1 DEF TypeOK, c
    <2>2. wire' \in [Conns -> Seq(Unit)]
      BY <1>1, <1>4, <1>5 DEF TypeOK
    <2>3. fate' \in [Messages ->
                       {"new", "sent", "delivered", "dropped", "lost"}]
      BY <1>2 DEF TypeOK
    <2>. QED
      BY <2>1, <2>2, <2>3 DEF TypeOK
  <1>7. \A d \in Conns :
          /\ LoopData(d)' = LoopData(d)
          /\ wire'[d] = IF d = c THEN w ELSE wire[d]
          /\ Stream(d)' = IF d = c THEN Stream(d) \union {h, Body(m)}
                                   ELSE Stream(d)
    BY <1>4, <1>5 DEF LoopData, Stream, TypeOK
  <1>8. StreamInv'
    <2>1. /\ h \notin Range(buff[c]) /\ Body(m) \notin Range(buff[c])
          /\ h \notin Range(LoopData(c)) /\ Body(m) \notin Range(LoopData(c))
      BY <1>3 DEF Stream
    <2>. SUFFICES ASSUME NEW d \in Conns
         PROVE /\ IsInjective(buff[d])
               /\ IsInjective(LoopData(d)')
               /\ IsInjective(wire'[d])
               /\ Range(buff[d]) \intersect Range(LoopData(d)') = {}
               /\ Range(buff[d]) \intersect Range(wire'[d]) = {}
               /\ Range(LoopData(d)') \intersect Range(wire'[d]) = {}
      BY DEF StreamInv
    <2>2. CASE d = c
      <3>1. LoopData(d)' = LoopData(c) /\ wire'[d] = w
        BY <1>7, <2>2
      <3>2. /\ Range(buff[c]) \intersect Range(w) = {}
            /\ Range(LoopData(c)) \intersect Range(w) = {}
        BY <1>1, <1>4, <2>1 DEF StreamInv
      <3>. QED
        BY <1>1, <1>4, <2>2, <3>1, <3>2 DEF StreamInv
    <2>3. CASE d # c
      BY <1>7, <2>3 DEF StreamInv
    <2>. QED
      BY <2>2, <2>3
  <1>9. OwnerInv'
    <2>. SUFFICES ASSUME NEW d \in Conns, NEW u \in Stream(d)', u # Meta
                  PROVE  u.of.via = d /\ fate'[u.of] # "new"
      BY DEF OwnerInv
    <2>1. CASE u \in Stream(d)
      <3>1. u.of \in Messages
        BY <2>1, StreamUnits, UnitFacts
      <3>. QED
        BY <1>2, <2>1, <3>1 DEF OwnerInv, TypeOK
    <2>2. CASE u \notin Stream(d)
      <3>1. d = c /\ u \in {h, Body(m)}
        BY <1>7, <2>2
      <3>2. u.of = m
        BY <1>1, <3>1
      <3>. QED
        BY <1>2, <3>1, <3>2 DEF c, TypeOK
    <2>. QED
      BY <2>1, <2>2
  <1>10. PlaceInv'
    <2>1. m \notin process /\ \A d \in Conns : m \notin message_list[d]
      BY <1>2 DEF PlaceInv
    <2>2. \A n \in Messages \ {m} :
            Body(n) \in Stream(n.via)' <=> Body(n) \in Stream(n.via)
      <3>1. \A n \in Messages \ {m} :
              n.via \in Conns /\ Body(n) # h /\ Body(n) # Body(m)
        BY <1>1, UnitFacts
      <3>. QED
        BY <1>7, <3>1
    <2>3. Body(m) \in Stream(m.via)'
      BY <1>1, <1>7 DEF c
    <2>4. \A n \in Messages : fate'[n] = IF n = m THEN "sent" ELSE fate[n]
      BY <1>2 DEF TypeOK
    <2>5. m.via \in Conns
      BY UnitFacts
    <2>6. process \subseteq Messages
          /\ \A d \in Conns : message_list[d] \subseteq Messages
      BY DEF TypeOK
    <2>. QED
      BY <2>1, <2>2, <2>3, <2>4, <2>5, <2>6 DEF PlaceInv
  <1>11. MetaInv'
    BY <1>1, <1>7 DEF MetaInv
  <1>12. QuietInv'
    <2>. SUFFICES ASSUME NEW d \in Conns,
                         d \notin hasty' /\ ~checked[d] /\ mutex # d
                  PROVE  /\ d \notin heard
                         /\ Stream(d)' \subseteq {Meta}
                         /\ parses[d] > 0 => buff[d] = <<Meta>>
      BY DEF QuietInv
    <2>1. d \notin hasty
      OBVIOUS
    <2>2. d # c
      BY <2>1 DEF QuietInv, c
    <2>. QED
      BY <1>7, <2>1, <2>2 DEF QuietInv
  <1>13. NeverRejected'
    BY DEF NeverRejected
  <1>. QED
    BY <1>6, <1>8, <1>9, <1>10, <1>11, <1>12, <1>13

\* The announcement that is cleared was alone.
LEMMA AcceptMetaStep ==
  ASSUME ProxyInv, NEW c \in Conns, AcceptMeta(c)
  PROVE  ProxyInv'
  <1>. USE DEF ProxyInv, AcceptMeta, ParseDone, peerVars, mapVars, traceVars
  <1>1. /\ buff[c] = <<Meta>> /\ Range(buff[c]) = {Meta} /\ parses[c] > 0
        /\ Meta \in Stream(c) /\ c \in announced
    <2>1. buff[c] = <<Meta>> /\ parses[c] > 0
      BY DEF MetaInv
    <2>2. Range(<<Meta>>) = {Meta}
      BY DEF Range
    <2>. QED
      BY <2>1, <2>2 DEF MetaInv, Stream
  <1>2. TypeOK'
    <2>1. parses' \in [Conns -> Nat]
      BY <1>1 DEF TypeOK
    <2>2. conn_id' \in [Conns -> Int] /\ checked' \in [Conns -> BOOLEAN]
      BY ProxyAssumption DEF TypeOK
    <2>3. buff' \in [Conns -> Seq(Unit)]
      BY EmptySeq DEF TypeOK
    <2>. QED
      BY <2>1, <2>2, <2>3 DEF TypeOK
  <1>3. \A d \in Conns :
          /\ LoopData(d)' = LoopData(d)
          /\ buff'[d] = IF d = c THEN <<>> ELSE buff[d]
    BY DEF LoopData, TypeOK
  <1>4. \A d \in Conns : Stream(d)' = IF d = c THEN Stream(d) \ {Meta}
                                               ELSE Stream(d)
    BY <1>1, <1>3, EmptyRange DEF Stream, StreamInv
  <1>5. StreamInv'
    BY <1>3, EmptyRange DEF StreamInv
  <1>6. OwnerInv'
    BY <1>4 DEF OwnerInv
  <1>7. PlaceInv'
    <2>1. \A m \in Messages :
            Body(m) \in Stream(m.via)' <=> Body(m) \in Stream(m.via)
      <3>1. \A m \in Messages : m.via \in Conns /\ Body(m) # Meta
        BY UnitFacts
      <3>. QED
        BY <1>4, <3>1
    <2>. QED
      BY <2>1 DEF PlaceInv
  <1>8. MetaInv'
    <2>. SUFFICES ASSUME NEW d \in Conns
         PROVE /\ Meta \in Stream(d)' => d \in announced /\ ~checked'[d]
               /\ checked'[d] => d \in announced
               /\ mutex' # d
               /\ conn_id'[d] = IF checked'[d] THEN Announces[d] ELSE 0
      BY DEF MetaInv
    <2>1. mutex' # d
      BY ProxyAssumption
    <2>2. CASE d = c
      BY <1>1, <1>4, <2>1, <2>2 DEF TypeOK
    <2>3. CASE d # c
      BY <1>4, <2>1, <2>3 DEF MetaInv, TypeOK
    <2>. QED
      BY <2>2, <2>3
  <1>9. QuietInv'
    <2>. SUFFICES ASSUME NEW d \in Conns, d \notin hasty, ~checked'[d]
                  PROVE  /\ d \notin heard
                         /\ Stream(d)' \subseteq {Meta}
                         /\ parses'[d] > 0 => buff'[d] = <<Meta>>
      BY DEF QuietInv
    <2>1. d # c /\ ~checked[d]
      BY DEF TypeOK
    <2>. QED
      BY <1>3, <1>4, <2>1 DEF QuietInv, TypeOK
  <1>10. NeverRejected'
    BY DEF NeverRejected
  <1>. QED
    BY <1>2, <1>5, <1>6, <1>7, <1>8, <1>9, <1>10

\* What has been parsed is listed, or taken with what was listed before.
LEMMA ParseMessagesStep ==
  ASSUME ProxyInv, NEW c \in Conns, ParseMessages(c)
  PROVE  ProxyInv'
  <1>. USE DEF ProxyInv, ParseMessages, ParseBegins, ParseDone, peerVars,
               mapVars, traceVars
  <1>. DEFINE listed == message_list[c] \union Bodies(buff[c])
  <1>1. Meta \notin Stream(c) /\ buff[c] \in Seq(Unit)
    BY DEF MetaInv, TypeOK
  <1>2. Parsable(c) = buff[c]
    <2>1. \A i \in 1 .. Len(buff[c]) : buff[c][i] # Meta
      <3>1. DOMAIN buff[c] = 1 .. Len(buff[c])
        BY <1>1, LenProperties
      <3>. QED
        BY <1>1, <3>1 DEF Stream, Range
    <2>2. {i \in 1 .. Len(buff[c]) : buff[c][i] = Meta} = {}
      BY <2>1
    <2>3. SelectInSeq(buff[c], LAMBDA u : u = Meta) = 0
      BY <2>2 DEF SelectInSeq
    <2>. QED
      BY <2>3 DEF Parsable
  <1>3. /\ buff' = [buff EXCEPT ![c] = <<>>]
        /\ \/ /\ process' = process \union listed
              /\ message_list' = [message_list EXCEPT ![c] = {}]
           \/ /\ process' = process
              /\ message_list' = [message_list EXCEPT ![c] = listed]
    BY <1>2
  <1>4. \A m \in Messages : m \in Bodies(buff[c]) <=> Body(m) \in Range(buff[c])
    BY DEF Bodies
  <1>5. Bodies(buff[c]) \subseteq Messages
    BY DEF Bodies
  <1>6. ASSUME NEW m \in Bodies(buff[c])
        PROVE  /\ m \in Messages /\ m.via = c /\ fate[m] = "sent"
               /\ m \notin message_list[c] /\ m \notin process
    <2>1. m \in Messages /\ Body(m) \in Stream(c)
      BY <1>4, <1>5 DEF Stream
    <2>2. Body(m) # Meta /\ Body(m).of = m
      BY <2>1, UnitFacts
    <2>3. m.via = c
      BY <2>1, <2>2 DEF OwnerInv
    <2>. QED
      BY <2>1, <2>3 DEF PlaceInv
  <1>7. /\ message_list \in [Conns -> SUBSET Messages]
        /\ process \subseteq Messages
    BY DEF TypeOK
  <1>8. TypeOK'
    <2>1. buff' \in [Conns -> Seq(Unit)]
      BY <1>3, EmptySeq DEF TypeOK
    <2>2. /\ message_list' \in [Conns -> SUBSET Messages]
          /\ process' \subseteq Messages
      BY <1>3, <1>5, <1>7
    <2>3. parses' \in [Conns -> Nat]
      BY DEF TypeOK
    <2>4. parsed' \subseteq Conns
      BY DEF TypeOK
    <2>. QED
      BY <2>1, <2>2, <2>3, <2>4 DEF TypeOK
  <1>9. \A d \in Conns :
          /\ LoopData(d)' = LoopData(d)
          /\ buff'[d] = IF d = c THEN <<>> ELSE buff[d]
    BY <1>3 DEF LoopData, TypeOK
  <1>10. \A d \in Conns : Stream(d)' = IF d = c THEN Stream(d) \ Range(buff[d])
                                                ELSE Stream(d)
    BY <1>9, EmptyRange DEF Stream, StreamInv
  <1>11. StreamInv'
    BY <1>9, EmptyRange DEF StreamInv
  <1>12. OwnerInv'
    BY <1>10 DEF OwnerInv
  <1>13. PlaceInv'
    <2>. HIDE DEF ParseMessages
    <2>1. ASSUME NEW m \in Messages
          PROVE  /\ m.via \in Conns
                 /\ Body(m) \in Stream(m.via)' <=>
                      Body(m) \in Stream(m.via) /\ m \notin Bodies(buff[c])
      <3>1. m.via \in Conns
        BY UnitFacts
      <3>2. CASE m.via = c
        BY <1>4, <1>10, <3>2
      <3>3. CASE m.via # c
        BY <1>6, <1>10, <3>1, <3>3
      <3>. QED
        BY <3>1, <3>2, <3>3
    <2>2. ASSUME NEW m \in Messages
          PROVE  \/ Body(m) \in Stream(m.via)'
                 \/ m \in message_list'[m.via]
                 \/ m \in process'
                 <=>
                 \/ Body(m) \in Stream(m.via)
                 \/ m \in message_list[m.via]
                 \/ m \in process
      <3>1. m \in Bodies(buff[c]) => Body(m) \in Stream(m.via) /\ m.via = c
        BY <1>4, <1>6 DEF Stream
      <3>2. m \in message_list[c] => m.via = c
        BY DEF PlaceInv
      <3>. QED
        BY <1>3, <1>7, <2>1, <3>1, <3>2
    <2>3. ASSUME NEW m \in Messages, Body(m) \in Stream(m.via)'
          PROVE  fate[m] = "sent" /\ m \notin message_list'[m.via]
                                  /\ m \notin process'
      <3>1. /\ fate[m] = "sent" /\ m \notin message_list[m.via]
            /\ m \notin process /\ m \notin Bodies(buff[c])
        BY <2>1, <2>3 DEF PlaceInv
      <3>2. m \in message_list[c] => m.via = c
        BY DEF PlaceInv
      <3>. QED
        BY <1>3, <1>7, <2>1, <3>1, <3>2
    <2>4. ASSUME NEW d \in Conns, NEW m \in message_list'[d]
          PROVE  m.via = d /\ fate[m] = "sent" /\ m \notin process'
      <3>1. \/ m \in message_list[d] /\ (d = c => process' = process)
            \/ m \in Bodies(buff[c]) /\ d = c /\ process' = process
        BY <1>3, <1>7
      <3>2. CASE m \in message_list[d]
        <4>1. m.via = d /\ fate[m] = "sent" /\ m \notin process
          BY <3>2 DEF PlaceInv
        <4>2. m \in message_list[c] => d = c
          BY <4>1 DEF PlaceInv
        <4>3. m \notin Bodies(buff[c]) \/ d = c
          BY <1>6, <4>1
        <4>. QED
          BY <1>3, <1>6, <3>1, <3>2, <4>1, <4>2, <4>3
      <3>3. CASE m \in Bodies(buff[c]) /\ d = c /\ process' = process
        BY <1>6, <3>3
      <3>. QED
        BY <3>1, <3>2, <3>3
    <2>5. ASSUME NEW m \in process'
          PROVE  fate[m] = "sent"
      BY <1>3, <1>6 DEF PlaceInv
    <2>. QED
      BY <2>2, <2>3, <2>4, <2>5 DEF PlaceInv, ParseMessages
  <1>14. MetaInv'
    <2>1. mutex = Null /\ checked[c]
      OBVIOUS
    <2>. QED
      BY <1>10, <2>1, ProxyAssumption DEF MetaInv
  <1>15. QuietInv'
    <2>. SUFFICES ASSUME NEW d \in Conns, d \notin hasty, ~checked[d], mutex # d
                  PROVE  /\ d \notin heard
                         /\ Stream(d)' \subseteq {Meta}
                         /\ parses'[d] > 0 => buff'[d] = <<Meta>>
      BY DEF QuietInv
    <2>1. d # c
      OBVIOUS
    <2>. QED
      BY <1>9, <1>10, <2>1 DEF QuietInv, TypeOK
  <1>16. NeverRejected'
    BY DEF NeverRejected
  <1>. QED
    BY <1>8, <1>11, <1>12, <1>13, <1>14, <1>15, <1>16

\* find returns a connection with the id, whatever the order of the index, and
\* it has announced it.
LEMMA GetFinds ==
  ASSUME ProxyInv, NEW id \in Int \ {0}, NEW c \in Get(id) \ {Null}
  PROVE  c \in Conns /\ checked[c] /\ Announces[c] = id
  <1>. USE DEF ProxyInv
  <1>1. /\ index \in Seq(Conns) /\ Len(index) \in Nat
        /\ \A i \in 1 .. Len(index) : index[i] \in Conns
    BY LenProperties, ElementOfSeq DEF TypeOK
  <1>2. PICK g \in 0 .. Len(index) :
          c = IF g < Len(index) /\ Key(g + 1) = id THEN index[g + 1] ELSE Null
    BY DEF Get, LowerBounds, Descents
  <1>3. g < Len(index) /\ Key(g + 1) = id /\ c = index[g + 1]
    BY <1>2
  <1>4. g + 1 \in 1 .. Len(index)
    BY <1>1, <1>3
  <1>5. c \in Conns /\ conn_id[c] = id
    BY <1>1, <1>3, <1>4 DEF Key
  <1>. QED
    BY <1>5 DEF MetaInv

\* What leaves process is nowhere else.
LEMMA MessageLeaves ==
  ASSUME ProxyInv, NEW m \in process, NEW f \in {"delivered", "dropped"},
         process' = process \ {m},
         fate' = [fate EXCEPT ![m] = f],
         UNCHANGED <<buff, loop, wire, message_list>>
  PROVE  /\ \A d \in Conns : Stream(d)' = Stream(d)
         /\ StreamInv' /\ OwnerInv' /\ PlaceInv'
  <1>. USE DEF ProxyInv
  <1>1. m \in Messages /\ m.via \in Conns
    BY UnitFacts DEF TypeOK
  <1>2. \A d \in Conns : LoopData(d)' = LoopData(d) /\ Stream(d)' = Stream(d)
    BY DEF LoopData, Stream
  <1>3. /\ Body(m) \notin Stream(m.via)
        /\ \A d \in Conns : m \notin message_list[d]
    BY <1>1 DEF PlaceInv
  <1>4. \A n \in Messages : fate'[n] = IF n = m THEN f ELSE fate[n]
    BY DEF TypeOK
  <1>5. StreamInv'
    BY <1>2 DEF StreamInv
  <1>6. OwnerInv'
    <2>. SUFFICES ASSUME NEW d \in Conns, NEW u \in Stream(d), u # Meta
                  PROVE  u.of.via = d /\ fate'[u.of] # "new"
      BY <1>2 DEF OwnerInv
    <2>1. u.of \in Messages
      BY StreamUnits, UnitFacts
    <2>. QED
      BY <1>4, <2>1 DEF OwnerInv
  <1>7. PlaceInv'
    <2>1. \A n \in Messages : n.via \in Conns /\ Stream(n.via)' = Stream(n.via)
      BY <1>2, UnitFacts
    <2>2. /\ \A d \in Conns : message_list[d] \subseteq Messages
          /\ process \subseteq Messages
      BY DEF TypeOK
    <2>. QED
      BY <1>3, <1>4, <2>1, <2>2 DEF PlaceInv
  <1>. QED
    BY <1>2, <1>5, <1>6, <1>7

\* Who receives a message has been accepted, and may send from now on.
LEMMA ForwardStep ==
  ASSUME ProxyInv, NEW m \in Messages, Forward(m)
  PROVE  ProxyInv'
  <1>. USE DEF ProxyInv, Forward, mapVars, connVars
  <1>1. PICK c \in Get(m.dst) \ {Null} :
          /\ heard' = IF Open(c) THEN heard \union {c} ELSE heard
          /\ fate' = [fate EXCEPT ![m] = "delivered"]
          /\ receiver' = [receiver EXCEPT ![m] = c]
    OBVIOUS
  <1>2. c \in Conns /\ checked[c]
    BY GetFinds, UnitFacts
  <1>3. TypeOK'
    BY <1>1, <1>2 DEF TypeOK
  <1>4. /\ \A d \in Conns : Stream(d)' = Stream(d)
        /\ StreamInv' /\ OwnerInv' /\ PlaceInv'
    BY <1>1, MessageLeaves
  <1>5. MetaInv'
    BY <1>4 DEF MetaInv
  <1>6. QuietInv'
    BY <1>1, <1>2, <1>4 DEF QuietInv
  <1>7. NeverRejected'
    BY DEF NeverRejected
  <1>. QED
    BY <1>3, <1>4, <1>5, <1>6, <1>7

\* What is dropped leaves process only.
LEMMA DropStep ==
  ASSUME ProxyInv, NEW m \in Messages, Drop(m)
  PROVE  ProxyInv'
  <1>. USE DEF ProxyInv, Drop, peerVars, mapVars, connVars
  <1>1. TypeOK'
    BY DEF TypeOK
  <1>2. /\ \A d \in Conns : Stream(d)' = Stream(d)
        /\ StreamInv' /\ OwnerInv' /\ PlaceInv'
    BY MessageLeaves
  <1>3. MetaInv'
    BY <1>2 DEF MetaInv
  <1>4. QuietInv'
    BY <1>2 DEF QuietInv
  <1>5. NeverRejected'
    BY DEF NeverRejected
  <1>. QED
    BY <1>1, <1>2, <1>3, <1>4, <1>5

-----------------------------------------------------------------------------
(***************************************************************************)
(* The theorems.                                                           *)
(***************************************************************************)
\* Every action keeps the invariant.
LEMMA InvariantStep == ProxyInv /\ [Next]_vars => ProxyInv'
  <1>. SUFFICES ASSUME ProxyInv, [Next]_vars
                PROVE  ProxyInv'
    OBVIOUS
  <1>1. ASSUME NEW c \in Conns, OnConnection(c) \/ OnLostConnection(c)
        PROVE  ProxyInv'
    BY <1>1, OnConnectionStep, OnLostConnectionStep
  <1>2. ASSUME NEW c \in Conns, OnMessage(c)
        PROVE  ProxyInv'
    BY <1>2, OnMessageStep
  <1>3. ASSUME NEW c \in Conns, ParseMessage(c)
        PROVE  ProxyInv'
    BY <1>3, RejectMetaStep, EchoMetaStep, AcceptMetaStep, ParseMessagesStep,
       ParseForEverStep DEF ParseMessage
  <1>4. ASSUME NEW c \in Conns, Announce(c) \/ HangUp(c)
        PROVE  ProxyInv'
    BY <1>4, AnnounceStep, HangUpStep
  <1>5. CASE AppendData
    BY <1>5, AppendDataStep
  <1>6. ASSUME NEW m \in Messages, Send(m)
        PROVE  ProxyInv'
    BY <1>6, SendStep
  <1>7. ASSUME NEW m \in Messages, ProcessMessage(m)
        PROVE  ProxyInv'
    BY <1>7, ForwardStep, DropStep DEF ProcessMessage
  <1>8. CASE UNCHANGED vars
    <2>. USE <1>8 DEF ProxyInv, vars, peerVars, mapVars, connVars, poolVars,
                      traceVars
    <2>1. TypeOK' /\ NeverRejected'
      BY DEF TypeOK, NeverRejected
    <2>2. \A d \in Conns : LoopData(d)' = LoopData(d) /\ Stream(d)' = Stream(d)
      BY DEF LoopData, Stream
    <2>3. StreamInv' /\ OwnerInv'
      BY <2>2 DEF StreamInv, OwnerInv
    <2>4. PlaceInv'
      <3>1. \A m \in Messages : Stream(m.via)' = Stream(m.via)
        BY <2>2, UnitFacts
      <3>2. /\ \A m \in Messages : fate'[m] = fate[m]
            /\ message_list' = message_list /\ process' = process
        OBVIOUS
      <3>3. process \subseteq Messages
        BY DEF TypeOK
      <3>. QED
        BY <3>1, <3>2, <3>3 DEF PlaceInv
    <2>5. MetaInv' /\ QuietInv'
      BY <2>2 DEF MetaInv, QuietInv
    <2>. QED
      BY <2>1, <2>3, <2>4, <2>5
  <1>. QED
    BY <1>1, <1>2, <1>3, <1>4, <1>5, <1>6, <1>7, <1>8 DEF Next

\* The inductive invariant holds of the proxy, for any connections, ids and
\* messages.
THEOREM ProxyInvariant == Spec => []ProxyInv
  BY InitInvariant, InvariantStep, PTL DEF Spec

\* The variables of the proxy keep their types.
THEOREM ProxyTypeCorrect == Spec => []TypeOK
  <1>1. ProxyInv => TypeOK
    BY DEF ProxyInv
  <1>. QED
    BY <1>1, ProxyInvariant, PTL

\* ParseMessage rejects no peer that keeps to the protocol, however the pieces
\* of what it sends arrive while its echo is on its way.
THEOREM NeverRejectedAlways == Spec => []NeverRejected
  <1>1. ProxyInv => NeverRejected
    BY DEF ProxyInv
  <1>. QED
    BY <1>1, ProxyInvariant, PTL

\* What has been sent and not yet left is in exactly one of the socket, the
\* loop, buff, the list of the parser and the tasks of process_pool_.
THEOREM NothingVanishesAlways == Spec => []NothingVanishes
  <1>1. ProxyInv => NothingVanishes
    <2>. SUFFICES ASSUME ProxyInv, NEW m \in Messages
                  PROVE  Cardinality(Places(m))
                           = IF fate[m] = "sent" THEN 1 ELSE 0
      BY DEF NothingVanishes
    <2>. USE DEF ProxyInv
    <2>. DEFINE inWire == Body(m) \in Range(wire[m.via])
                inLoop == Body(m) \in Range(LoopData(m.via))
                inBuff == Body(m) \in Range(buff[m.via])
                inList == m \in message_list[m.via]
                inPool == m \in process
    <2>1. m.via \in Conns /\ Body(m) # Meta /\ Body(m).of = m
      BY UnitFacts
    <2>2. loop # Null /\ m \in Bodies(loop.data) <=> inLoop
      <3>1. CASE loop = Null \/ loop.conn = m.via
        BY <3>1, EmptyRange DEF LoopData, Bodies
      <3>2. CASE loop # Null /\ loop.conn # m.via
        <4>1. loop.conn \in Conns
          BY <3>2 DEF TypeOK
        <4>2. ~inLoop
          BY <3>2, EmptyRange DEF LoopData
        <4>3. Body(m) \notin Range(loop.data)
          <5>1. LoopData(loop.conn) = loop.data
            BY <3>2 DEF LoopData
          <5>. QED
            BY <2>1, <3>2, <4>1, <5>1 DEF OwnerInv, Stream
        <4>. QED
          BY <4>2, <4>3 DEF Bodies
      <3>. QED
        BY <3>1, <3>2
    <2>3. Places(m) = (IF inWire THEN {"wire"} ELSE {})
                        \union (IF inLoop THEN {"loop"} ELSE {})
                        \union (IF inBuff THEN {"buff"} ELSE {})
                        \union (IF inList THEN {"list"} ELSE {})
                        \union (IF inPool THEN {"process"} ELSE {})
      <3>1. /\ m \in Bodies(wire[m.via]) <=> inWire
            /\ m \in Bodies(buff[m.via]) <=> inBuff
        BY DEF Bodies
      <3>. HIDE DEF inWire, inLoop, inBuff
      <3>. QED
        BY <2>2, <3>1 DEF Places
    <2>4. /\ ~(inBuff /\ inLoop) /\ ~(inBuff /\ inWire) /\ ~(inLoop /\ inWire)
          /\ inWire \/ inLoop \/ inBuff => ~inList /\ ~inPool
          /\ ~(inList /\ inPool)
          /\ inWire \/ inLoop \/ inBuff \/ inList \/ inPool <=> fate[m] = "sent"
      BY <2>1 DEF StreamInv, PlaceInv, Stream
    <2>. HIDE DEF inWire, inLoop, inBuff, inList, inPool
    <2>5. CASE fate[m] = "sent"
      <3>1. \E p \in {"wire", "loop", "buff", "list", "process"} :
              Places(m) = {p}
        BY <2>3, <2>4, <2>5
      <3>. QED
        BY <2>5, <3>1, FS_Singleton
    <2>6. CASE fate[m] # "sent"
      <3>1. Places(m) = {}
        BY <2>3, <2>4, <2>6
      <3>. QED
        BY <2>6, <3>1, FS_EmptySet
    <2>. QED
      BY <2>5, <2>6
  <1>. QED
    BY <1>1, ProxyInvariant, PTL

\* The proxy implements the router: what it forwards goes once, and to a
\* connection that announced its dst_id, whatever the order of the index.
THEOREM ProxyImplementsRouter == Spec => ImplementsRouter
  <1>1. Init => Router!Init
    BY DEF Init, Router!Init
  <1>2. ProxyInv /\ [Next]_vars => [Router!Next]_<<fate, receiver>>
    <2>. SUFFICES ASSUME ProxyInv, [Next]_vars
                  PROVE  Router!Next \/ UNCHANGED traceVars
      BY DEF traceVars
    <2>. USE DEF ProxyInv
    <2>1. ASSUME NEW m \in Messages, Send(m)
          PROVE  Router!Send(m)
      BY <2>1 DEF Send, Router!Send
    <2>2. ASSUME NEW c \in Conns, OnLostConnection(c)
          PROVE  Router!Lose(c)
      <3>. DEFINE M == Bodies(wire[c])
      <3>1. ASSUME NEW m \in M
            PROVE  m \in Messages /\ m.via = c /\ fate[m] = "sent"
        <4>1. m \in Messages /\ Body(m) \in Stream(c)
          BY DEF Bodies, Stream
        <4>2. Body(m) # Meta /\ Body(m).of = m
          BY <4>1, UnitFacts
        <4>3. m.via = c
          BY <4>1, <4>2 DEF OwnerInv
        <4>. QED
          BY <4>1, <4>3 DEF PlaceInv
      <3>2. /\ fate' = [m \in Messages |-> IF m \in M THEN "lost" ELSE fate[m]]
            /\ UNCHANGED receiver
        BY <2>2 DEF OnLostConnection
      <3>. HIDE DEF M
      <3>. QED
        BY <3>1, <3>2 DEF Router!Lose
    <2>3. ASSUME NEW m \in Messages, Forward(m)
          PROVE  \E c \in Conns : Router!Deliver(m, c)
      <3>1. PICK c \in Get(m.dst) \ {Null} :
              /\ fate' = [fate EXCEPT ![m] = "delivered"]
              /\ receiver' = [receiver EXCEPT ![m] = c]
        BY <2>3 DEF Forward
      <3>2. c \in Conns /\ Announces[c] = m.dst
        BY GetFinds, UnitFacts
      <3>3. fate[m] = "sent"
        BY <2>3 DEF Forward, PlaceInv
      <3>. QED
        BY <3>1, <3>2, <3>3 DEF Router!Deliver
    <2>4. ASSUME NEW m \in Messages, Drop(m)
          PROVE  Router!Drop(m)
      BY <2>4 DEF Drop, PlaceInv, Router!Drop
    <2>5. ASSUME NEW c \in Conns,
                 \/ OnConnection(c) \/ OnMessage(c) \/ ParseMessage(c)
                 \/ Announce(c) \/ HangUp(c)
          PROVE  UNCHANGED traceVars
      BY <2>5 DEF OnConnection, OnMessage, ParseMessage, RejectMeta, EchoMeta,
                  AcceptMeta, ParseMessages, ParseForEver, Announce, HangUp,
                  traceVars
    <2>6. CASE AppendData
      BY <2>6 DEF AppendData
    <2>7. CASE UNCHANGED vars
      BY <2>7 DEF vars
    <2>. QED
      BY <2>1, <2>2, <2>3, <2>4, <2>5, <2>6, <2>7
         DEF Next, ProcessMessage, Router!Next
  <1>. QED
    BY <1>1, <1>2, ProxyInvariant, PTL
       DEF Spec, ImplementsRouter, Router!Spec
=============================================================================
