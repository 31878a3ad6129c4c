----------------------- MODULE RpcPbMessageParserProofs -----------------------
(***************************************************************************)
(* What a connection's parser keeps, whatever the threads of parse_pool_   *)
(* and the event loop do around it.  RpcPbServerProofs and                 *)
(* ChannelConnectionProofs extend this module.                             *)
(*                                                                         *)
(* The invariant has four parameters: what has not yet been appended to    *)
(* buff (ahead), the messages that were sent to the connection             *)
(* (forwarded), those that have left process_pool_ (done), and whether     *)
(* nothing sent has been lost with the connection (up).                    *)
(***************************************************************************)
EXTENDS RpcPbMessageParser, FiniteSetTheorems, SequenceTheorems, TLAPS

\* A thread is between its copy and the assignment of what is left.
Reading == parse # Null /\ parse.at \in {"header", "data", "empty"}

\* What it has read, and what it has copied, from there on.
Read   == IF parse.at = "empty" THEN <<>> ELSE <<parse.unit>>
Copied == IF Reading THEN Read \o parse.rest ELSE <<>>

\* Whose body has to come next.
Pending == IF stage_ = "body" THEN header_ ELSE Null

\* What may follow: behind a header its body, else no body.
Expected(m, u) == IF m = Null THEN u.part # "body" ELSE u = Body(m)
After(u)       == IF u.part = "header" THEN u.of ELSE Null

Ordered(m, s) ==
  \A i \in 1 .. Len(s) : Expected(IF i = 1 THEN m ELSE After(s[i - 1]), s[i])

End(m, s) == IF s = <<>> THEN m ELSE After(s[Len(s)])

\* The messages listed or handed on.
Taken == {message_list[i].of : i \in DOMAIN message_list}
           \union {p.of : p \in BagToSet(process)}

-----------------------------------------------------------------------------
\* stage_ fits what the thread in Parse has read.
StageInv ==
  /\ parse # Null /\ parse.at = "body" => stage_ = "body"
  /\ parse # Null /\ parse.at = "header" =>
       stage_ = "header" /\ parse.unit \in Unit /\ parse.unit.part = "header"
  /\ parse # Null /\ parse.at = "data" =>
       /\ stage_ = "body" /\ header_ # Null
       /\ parse.unit \in Unit /\ parse.unit.part = "body"
  /\ parse # Null /\ parse.at = "empty" =>
       stage_ = "body" /\ header_ = Null /\ parse.unit = Null

\* A unit is sent once.
UniqueInv(ahead) ==
  /\ IsInjective(buff \o ahead)
  /\ IsInjective(Copied \o ahead)

\* A message is listed, handed on or done once, the one that a parser makes up
\* included.
TakenInv(done) ==
  /\ \A i, j \in DOMAIN message_list :
       message_list[i].of = message_list[j].of => i = j
  /\ \A p \in DOMAIN process :
       /\ process[p] = 1
       /\ \A q \in DOMAIN process : p.of = q.of => p = q
       /\ \A i \in DOMAIN message_list : message_list[i].of # p.of
  /\ Taken \intersect done = {}
  /\ Pending = Null /\ stage_ = "body" => Null \notin Taken \union done

\* What was read was sent, and what is taken is no longer to be read.
OriginInv(ahead, forwarded, done) ==
  /\ \A u \in Range(buff \o ahead) \union Range(Copied) :
       u # Meta => u.of \in forwarded
  /\ Taken \union done \subseteq forwarded \union {Null}
  /\ \A m \in Taken \union done :
       m # Null => Body(m) \notin Range(buff \o ahead) \union Range(Copied)

\* Unless something was overwritten, a body follows its own header, in buff as in
\* the copy.
OrderInv(ahead) ==
  lost = {} =>
    /\ Ordered(Pending, buff \o ahead)
    /\ Ordered(Pending, Copied)
    /\ \A i \in DOMAIN message_list : message_list[i].from = message_list[i].of
    /\ \A p \in DOMAIN process : p.from = p.of

\* Unless something was overwritten or lost, no header is left without its body,
\* the copy is the beginning of buff or the Meta that has been cleared from it,
\* and what was sent is to be read or taken.
WholeInv(ahead, forwarded, done, up) ==
  /\ ~up => ahead = <<>>
  /\ lost = {} /\ up =>
       /\ End(Pending, buff \o ahead) = Null
       /\ Reading => \/ \E new \in Seq(Unit) : buff = Copied \o new
                     \/ parse.at = "empty" /\ Copied = <<Meta>>
       /\ \A m \in forwarded :
            Body(m) \in Range(buff \o ahead) \/ m \in Taken \union done

ParserInv(ahead, forwarded, done, up) ==
  /\ StageInv
  /\ UniqueInv(ahead)
  /\ TakenInv(done)
  /\ OriginInv(ahead, forwarded, done)
  /\ OrderInv(ahead)
  /\ WholeInv(ahead, forwarded, done, up)

-----------------------------------------------------------------------------
(***************************************************************************)
(* Sequences.                                                              *)
(***************************************************************************)
\* A sequence is its first element and the others.
LEMMA HeadAndTail ==
  ASSUME NEW U, NEW s \in Seq(U), s # <<>>
  PROVE  /\ Head(s) \in U /\ Tail(s) \in Seq(U)
         /\ <<Head(s)>> \in Seq(U)
         /\ s = <<Head(s)>> \o Tail(s)
  <1>. DEFINE h == <<Head(s)>>
              t == Tail(s)
  <1>1. /\ Head(s) \in U /\ t \in Seq(U) /\ Len(t) = Len(s) - 1
        /\ \A i \in 1 .. Len(t) : t[i] = s[i + 1]
        /\ Len(s) \in Nat \ {0} /\ Head(s) = s[1]
    BY HeadTailProperties, EmptySeq
  <1>2. h \in Seq(U) /\ Len(h) = 1 /\ h[1] = Head(s)
    BY <1>1
  <1>. HIDE DEF h, t
  <1>3. /\ h \o t \in Seq(U) /\ Len(h \o t) = Len(s)
        /\ \A i \in 1 .. Len(s) :
             (h \o t)[i] = IF i <= 1 THEN h[i] ELSE t[i - 1]
    <2>1. /\ h \o t \in Seq(U) /\ Len(h \o t) = Len(h) + Len(t)
          /\ \A i \in 1 .. Len(h) + Len(t) :
               (h \o t)[i] = IF i <= Len(h) THEN h[i] ELSE t[i - Len(h)]
      BY <1>1, <1>2, ConcatProperties
    <2>2. Len(h) + Len(t) = Len(s)
      BY <1>1, <1>2
    <2>. QED
      BY <1>2, <2>1, <2>2
  <1>4. \A i \in 1 .. Len(s) : (h \o t)[i] = s[i]
    <2>. SUFFICES ASSUME NEW i \in 1 .. Len(s)
                  PROVE  (h \o t)[i] = s[i]
      OBVIOUS
    <2>1. CASE i = 1
      BY <1>1, <1>2, <1>3, <2>1
    <2>2. CASE i # 1
      <3>1. i - 1 \in 1 .. Len(t) /\ (i - 1) + 1 = i /\ ~(i <= 1)
        BY <1>1, <2>2
      <3>2. t[i - 1] = s[(i - 1) + 1]
        BY <1>1, <3>1
      <3>. QED
        BY <1>3, <3>1, <3>2
    <2>. QED
      BY <2>1, <2>2
  <1>5. h \o t = s
    BY <1>3, <1>4, SeqEqual
  <1>. QED
    BY <1>1, <1>2, <1>5 DEF h, t

\* A sequence is what is read of it and what is left.
LEMMA Cut ==
  ASSUME NEW U, NEW s \in Seq(U), NEW n \in 0 .. Len(s)
  PROVE  /\ SubSeq(s, 1, n) \in Seq(U)
         /\ SubSeq(s, n + 1, Len(s)) \in Seq(U)
         /\ s = SubSeq(s, 1, n) \o SubSeq(s, n + 1, Len(s))
         /\ n > 0 => SubSeq(s, 1, n) # <<>>
  <1>1. Len(s) \in Nat /\ \A i \in 1 .. Len(s) : s[i] \in U
    BY LenProperties, ElementOfSeq
  <1>2. SubSeq(s, 1, n) \in Seq(U) /\ Len(SubSeq(s, 1, n)) = n
    <2>1. n \in Int /\ \A i \in 1 .. n : s[i] \in U
      BY <1>1
    <2>. QED
      BY <2>1, SubSeqProperties
  <1>3. SubSeq(s, n + 1, Len(s)) \in Seq(U)
    <2>1. /\ n + 1 \in Int /\ Len(s) \in Int
          /\ \A i \in n + 1 .. Len(s) : s[i] \in U
      BY <1>1
    <2>. QED
      BY <2>1, SubSeqProperties
  <1>4. SubSeq(s, 1, n) \o SubSeq(s, n + 1, Len(s)) = s
    <2>1. /\ 1 \in 1 .. Len(s) + 1 /\ n \in 1 - 1 .. Len(s)
          /\ Len(s) \in n .. Len(s)
      BY <1>1
    <2>2. SubSeq(s, 1, n) \o SubSeq(s, n + 1, Len(s)) = SubSeq(s, 1, Len(s))
      BY <2>1, ConcatAdjacentSubSeq
    <2>. QED
      BY <2>2, SubSeqFull
  <1>5. n > 0 => SubSeq(s, 1, n) # <<>>
    BY <1>2, EmptySeq
  <1>. QED
    BY <1>2, <1>3, <1>4, <1>5

\* The units of two sequences in a row.
LEMMA InjectiveConcat ==
  ASSUME NEW U, NEW a \in Seq(U), NEW b \in Seq(U)
  PROVE  /\ Range(a \o b) = Range(a) \union Range(b)
         /\ IsInjective(a \o b) <=> /\ IsInjective(a) /\ IsInjective(b)
                                    /\ Range(a) \intersect Range(b) = {}
  <1>. DEFINE s == a \o b
  <1>1. /\ Len(a) \in Nat /\ DOMAIN a = 1 .. Len(a)
        /\ Len(b) \in Nat /\ DOMAIN b = 1 .. Len(b)
    BY LenProperties
  <1>2. /\ s \in Seq(U) /\ Len(s) = Len(a) + Len(b)
        /\ \A i \in 1 .. Len(a) + Len(b) :
             s[i] = IF i <= Len(a) THEN a[i] ELSE b[i - Len(a)]
    BY ConcatProperties
  <1>3. DOMAIN s = 1 .. Len(a) + Len(b)
    BY <1>2, LenProperties
  <1>. HIDE DEF s
  <1>4. ASSUME IsInjective(a), IsInjective(b),
               Range(a) \intersect Range(b) = {},
               NEW i \in DOMAIN s, NEW j \in DOMAIN s, s[i] = s[j]
        PROVE  i = j
    <2>1. \/ i \in DOMAIN a /\ s[i] = a[i]
          \/ i - Len(a) \in DOMAIN b /\ s[i] = b[i - Len(a)]
      BY <1>1, <1>2, <1>3
    <2>2. \/ j \in DOMAIN a /\ s[j] = a[j]
          \/ j - Len(a) \in DOMAIN b /\ s[j] = b[j - Len(a)]
      BY <1>1, <1>2, <1>3
    <2>3. \A k \in DOMAIN a : a[k] \in Range(a)
      BY DEF Range
    <2>4. \A k \in DOMAIN b : b[k] \in Range(b)
      BY DEF Range
    <2>. QED
      BY <1>1, <1>3, <1>4, <2>1, <2>2, <2>3, <2>4 DEF IsInjective
  <1>5. \A i \in DOMAIN a : i \in DOMAIN s /\ s[i] = a[i]
    BY <1>1, <1>2, <1>3
  <1>6. \A j \in DOMAIN b : j + Len(a) \in DOMAIN s /\ s[j + Len(a)] = b[j]
    <2>. SUFFICES ASSUME NEW j \in DOMAIN b
                  PROVE  j + Len(a) \in DOMAIN s /\ s[j + Len(a)] = b[j]
      OBVIOUS
    <2>1. /\ j + Len(a) \in 1 .. Len(a) + Len(b) /\ ~(j + Len(a) <= Len(a))
          /\ (j + Len(a)) - Len(a) = j
      BY <1>1
    <2>. QED
      BY <1>2, <1>3, <2>1
  <1>7. Range(s) = Range(a) \union Range(b)
    <2>1. \A i \in DOMAIN s :
            \/ i \in DOMAIN a /\ s[i] = a[i]
            \/ i - Len(a) \in DOMAIN b /\ s[i] = b[i - Len(a)]
      BY <1>1, <1>2, <1>3
    <2>2. Range(s) \subseteq Range(a) \union Range(b)
      <3>1. /\ \A i \in DOMAIN a : a[i] \in Range(a)
            /\ \A j \in DOMAIN b : b[j] \in Range(b)
        BY DEF Range
      <3>2. \A i \in DOMAIN s : s[i] \in Range(a) \union Range(b)
        BY <2>1, <3>1
      <3>. QED
        BY <3>2 DEF Range
    <2>3. Range(a) \subseteq Range(s) /\ Range(b) \subseteq Range(s)
      BY <1>5, <1>6 DEF Range
    <2>. QED
      BY <2>2, <2>3
  <1>8. ASSUME IsInjective(s)
        PROVE  /\ IsInjective(a) /\ IsInjective(b)
               /\ Range(a) \intersect Range(b) = {}
    <2>1. IsInjective(a)
      BY <1>5, <1>8 DEF IsInjective
    <2>2. ASSUME NEW i \in DOMAIN b, NEW j \in DOMAIN b, b[i] = b[j]
          PROVE  i = j
      <3>1. i + Len(a) = j + Len(a)
        BY <1>6, <1>8, <2>2 DEF IsInjective
      <3>. QED
        BY <1>1, <3>1
    <2>3. ASSUME NEW i \in DOMAIN a, NEW j \in DOMAIN b, a[i] = b[j]
          PROVE  FALSE
      <3>1. i = j + Len(a)
        BY <1>5, <1>6, <1>8, <2>3 DEF IsInjective
      <3>. QED
        BY <1>1, <3>1
    <2>. QED
      BY <2>1, <2>2, <2>3 DEF IsInjective, Range
  <1>9. IsInjective(s) <=> /\ IsInjective(a) /\ IsInjective(b)
                           /\ Range(a) \intersect Range(b) = {}
    <2>1. (\A i, j \in DOMAIN s : s[i] = s[j] => i = j) => IsInjective(s)
      BY DEF IsInjective
    <2>. QED
      BY <1>4, <1>8, <2>1
  <1>. QED
    BY <1>7, <1>9 DEF s

\* No unit, and one.
LEMMA OneUnit ==
  /\ Range(<<>>) = {} /\ IsInjective(<<>>)
  /\ \A u : Range(<<u>>) = {u} /\ IsInjective(<<u>>)
  <1>1. Range(<<>>) = {} /\ IsInjective(<<>>)
    BY DEF Range, IsInjective
  <1>2. \A u : DOMAIN <<u>> = {1} /\ <<u>>[1] = u
    OBVIOUS
  <1>3. \A u : Range(<<u>>) = {u} /\ IsInjective(<<u>>)
    BY <1>2 DEF Range, IsInjective
  <1>. QED
    BY <1>1, <1>3

\* What is not empty holds something.
LEMMA SomeUnit ==
  ASSUME NEW U, NEW s \in Seq(U), s # <<>>
  PROVE  Head(s) \in Range(s) /\ Range(s) # {}
  <1>1. Len(s) \in Nat /\ Len(s) # 0 /\ DOMAIN s = 1 .. Len(s)
    BY LenProperties, EmptySeq
  <1>2. 1 \in DOMAIN s
    BY <1>1
  <1>. QED
    BY <1>2 DEF Range

\* What is expected behind a sequence of units is what its last one calls for.
LEMMA OrderedConcat ==
  ASSUME NEW m, NEW a \in Seq(Unit), NEW b \in Seq(Unit)
  PROVE  /\ Ordered(m, a \o b) <=> Ordered(m, a) /\ Ordered(End(m, a), b)
         /\ End(m, a \o b) = End(End(m, a), b)
  <1>. DEFINE s == a \o b
              k == Len(a)
              l == Len(b)
  <1>1. k \in Nat /\ l \in Nat /\ (k = 0 <=> a = <<>>) /\ (l = 0 <=> b = <<>>)
    BY LenProperties, EmptySeq
  <1>2. /\ s \in Seq(Unit) /\ Len(s) = k + l
        /\ \A i \in 1 .. k + l : s[i] = IF i <= k THEN a[i] ELSE b[i - k]
    BY ConcatProperties
  <1>. HIDE DEF s, k, l
  <1>3. \A i \in 1 .. k : s[i] = a[i]
    BY <1>1, <1>2
  <1>4. \A j \in 1 .. l : s[k + j] = b[j]
    <2>. SUFFICES ASSUME NEW j \in 1 .. l
                  PROVE  s[k + j] = b[j]
      OBVIOUS
    <2>1. k + j \in 1 .. k + l /\ ~(k + j <= k) /\ (k + j) - k = j
      BY <1>1
    <2>. QED
      BY <1>2, <2>1
  <1>5. s = <<>> <=> k + l = 0
    BY <1>1, <1>2, EmptySeq
  <1>. DEFINE Before(i) == IF i = 1 THEN m ELSE After(s[i - 1])
              Before1(i) == IF i = 1 THEN m ELSE After(a[i - 1])
              Before2(j) == IF j = 1 THEN End(m, a) ELSE After(b[j - 1])
  <1>6. \A i \in 1 .. k : Before(i) = Before1(i)
    <2>. SUFFICES ASSUME NEW i \in 1 .. k, i # 1
                  PROVE  s[i - 1] = a[i - 1]
      OBVIOUS
    <2>1. i - 1 \in 1 .. k
      BY <1>1
    <2>. QED
      BY <1>3, <2>1
  <1>7. \A j \in 1 .. l : Before(k + j) = Before2(j)
    <2>. SUFFICES ASSUME NEW j \in 1 .. l
                  PROVE  Before(k + j) = Before2(j)
      OBVIOUS
    <2>1. CASE j = 1 /\ k = 0
      BY <1>1, <2>1 DEF End
    <2>2. CASE j = 1 /\ k # 0
      <3>1. k + j # 1 /\ (k + j) - 1 = k /\ k \in 1 .. k
        BY <1>1, <2>2
      <3>2. s[k] = a[k] /\ a # <<>>
        BY <1>1, <1>3, <2>2, <3>1
      <3>. QED
        BY <2>2, <3>1, <3>2 DEF End, k
    <2>3. CASE j # 1
      <3>1. k + j # 1 /\ (k + j) - 1 = k + (j - 1) /\ j - 1 \in 1 .. l
        BY <1>1, <2>3
      <3>2. s[k + (j - 1)] = b[j - 1]
        BY <1>4, <3>1
      <3>. QED
        BY <2>3, <3>1, <3>2
    <2>. QED
      BY <2>1, <2>2, <2>3
  <1>. HIDE DEF Before, Before1, Before2
  <1>8. Ordered(m, s) <=> \A i \in 1 .. k + l : Expected(Before(i), s[i])
    BY <1>2 DEF Ordered, Before
  <1>9. Ordered(m, a) <=> \A i \in 1 .. k : Expected(Before1(i), a[i])
    BY DEF Ordered, Before1, k
  <1>10. Ordered(End(m, a), b) <=> \A j \in 1 .. l : Expected(Before2(j), b[j])
    BY DEF Ordered, Before2, l
  <1>11. (\A i \in 1 .. k + l : Expected(Before(i), s[i]))
           <=> /\ \A i \in 1 .. k : Expected(Before(i), s[i])
               /\ \A j \in 1 .. l : Expected(Before(k + j), s[k + j])
    <2>1. \A i \in 1 .. k : i \in 1 .. k + l
      BY <1>1
    <2>2. \A j \in 1 .. l : k + j \in 1 .. k + l
      BY <1>1
    <2>3. \A i \in 1 .. k + l :
            i \in 1 .. k \/ (i - k \in 1 .. l /\ k + (i - k) = i)
      BY <1>1
    <2>. QED
      BY <2>1, <2>2, <2>3
  <1>12. Ordered(m, s) <=> Ordered(m, a) /\ Ordered(End(m, a), b)
    BY <1>3, <1>4, <1>6, <1>7, <1>8, <1>9, <1>10, <1>11
  <1>13. End(m, s) = End(End(m, a), b)
    <2>1. CASE l = 0
      <3>1. k + l = k /\ b = <<>>
        BY <1>1, <2>1
      <3>2. k # 0 => s[k] = a[k]
        <4>1. k # 0 => k \in 1 .. k
          BY <1>1
        <4>. QED
          BY <1>3, <4>1
      <3>. QED
        BY <1>1, <1>2, <1>5, <3>1, <3>2 DEF End, k
    <2>2. CASE l # 0
      <3>1. k + l # 0 /\ l \in 1 .. l
        BY <1>1, <2>2
      <3>2. s[k + l] = b[l]
        BY <1>4, <3>1
      <3>. QED
        BY <1>1, <1>2, <1>5, <2>2, <3>1, <3>2 DEF End, l
    <2>. QED
      BY <2>1, <2>2
  <1>. QED
    BY <1>12, <1>13 DEF s

\* No unit, and one, in order.
LEMMA OrderedOne ==
  ASSUME NEW m
  PROVE  /\ Ordered(m, <<>>) /\ End(m, <<>>) = m
         /\ \A u : /\ Ordered(m, <<u>>) <=> Expected(m, u)
                   /\ End(m, <<u>>) = After(u)
  <1>1. Ordered(m, <<>>) /\ End(m, <<>>) = m
    BY DEF Ordered, End
  <1>2. ASSUME NEW u
        PROVE  /\ Ordered(m, <<u>>) <=> Expected(m, u)
               /\ End(m, <<u>>) = After(u)
    <2>1. Len(<<u>>) = 1 /\ <<u>>[1] = u /\ <<u>> # <<>> /\ 1 .. 1 = {1}
      OBVIOUS
    <2>2. End(m, <<u>>) = After(u)
      BY <2>1 DEF End
    <2>. DEFINE s == <<u>>
    <2>3. Len(s) = 1 /\ s[1] = u
      BY <2>1
    <2>. HIDE DEF s
    <2>4. Ordered(m, s) <=> \A i \in {1} : Expected(m, s[i])
      BY <2>1, <2>3 DEF Ordered
    <2>. QED
      BY <2>2, <2>3, <2>4 DEF s
  <1>. QED
    BY <1>1, <1>2

\* The first unit is expected first.
LEMMA OrderedHead ==
  ASSUME NEW m, NEW s \in Seq(Unit), s # <<>>
  PROVE  /\ Ordered(m, s) <=> /\ Expected(m, Head(s))
                              /\ Ordered(After(Head(s)), Tail(s))
         /\ End(m, s) = End(After(Head(s)), Tail(s))
  <1>. DEFINE h == <<Head(s)>>
              t == Tail(s)
  <1>1. h \in Seq(Unit) /\ t \in Seq(Unit) /\ s = h \o t
    BY HeadAndTail
  <1>2. /\ Ordered(m, h) <=> Expected(m, Head(s))
        /\ End(m, h) = After(Head(s))
    BY OrderedOne
  <1>. HIDE DEF h
  <1>3. /\ Ordered(m, h \o t) <=> Ordered(m, h) /\ Ordered(End(m, h), t)
        /\ End(m, h \o t) = End(End(m, h), t)
    BY <1>1, OrderedConcat
  <1>. QED
    BY <1>1, <1>2, <1>3

-----------------------------------------------------------------------------
(***************************************************************************)
(* Units, and what is in the parser's hands.                               *)
(***************************************************************************)
\* The units are told apart by their part and their message.
LEMMA UnitFacts ==
  /\ \A m \in Messages :
       /\ Header(m) \in Unit /\ Header(m).part = "header" /\ Header(m).of = m
       /\ Body(m) \in Unit /\ Body(m).part = "body" /\ Body(m).of = m
       /\ Header(m) # Meta /\ Body(m) # Meta
  /\ Meta \in Unit /\ Meta.part = "meta" /\ Meta.of = Null
  /\ \A u \in Unit :
       /\ u.part \in {"header", "body", "meta"}
       /\ u.part = "header" => u.of \in Messages /\ u = Header(u.of)
       /\ u.part = "body" => u.of \in Messages /\ u = Body(u.of)
       /\ u.part = "meta" => u = Meta
       /\ u # Meta => u.of \in Messages
  BY DEF Unit, Header, Body, Meta

\* What the parser holds are units.
LEMMA StreamUnits ==
  ASSUME ParserTypeOK, StageInv, NEW ahead \in Seq(Unit)
  PROVE  /\ buff \in Seq(Unit)
         /\ buff \o ahead \in Seq(Unit)
         /\ Copied \in Seq(Unit)
         /\ Copied \o ahead \in Seq(Unit)
         /\ Range(buff) \subseteq Unit
         /\ Range(buff \o ahead) = Range(buff) \union Range(ahead)
         /\ Range(buff \o ahead) \subseteq Unit
         /\ Range(Copied) \subseteq Unit
         /\ Range(Copied \o ahead) = Range(Copied) \union Range(ahead)
         /\ Reading => /\ Read \in Seq(Unit) /\ parse.rest \in Seq(Unit)
                       /\ Copied = Read \o parse.rest
                       /\ Range(Copied) = Range(Read) \union Range(parse.rest)
                       /\ \/ /\ parse.at = "empty" /\ Read = <<>>
                             /\ parse.unit = Null
                          \/ /\ parse.at # "empty" /\ Read = <<parse.unit>>
                             /\ parse.unit \in Unit
         /\ ~Reading => Copied = <<>> /\ Range(Copied) = {}
  <1>1. buff \in Seq(Unit)
    BY DEF ParserTypeOK
  <1>2. Reading => /\ Read \in Seq(Unit) /\ parse.rest \in Seq(Unit)
                   /\ Copied = Read \o parse.rest
                   /\ \/ /\ parse.at = "empty" /\ Read = <<>>
                         /\ parse.unit = Null
                      \/ /\ parse.at # "empty" /\ Read = <<parse.unit>>
                         /\ parse.unit \in Unit
    <2>. SUFFICES ASSUME Reading
                  PROVE  /\ Read \in Seq(Unit) /\ parse.rest \in Seq(Unit)
                         /\ Copied = Read \o parse.rest
                         /\ \/ /\ parse.at = "empty" /\ Read = <<>>
                               /\ parse.unit = Null
                            \/ /\ parse.at # "empty" /\ Read = <<parse.unit>>
                               /\ parse.unit \in Unit
      OBVIOUS
    <2>1. parse.rest \in Seq(Unit) /\ Copied = Read \o parse.rest
      BY DEF Reading, Copied, ParserTypeOK
    <2>2. CASE parse.at = "empty"
      BY <2>1, <2>2, EmptySeq DEF Read, Reading, StageInv
    <2>3. CASE parse.at # "empty"
      BY <2>1, <2>3 DEF Read, Reading, StageInv
    <2>. QED
      BY <2>2, <2>3
  <1>3. ~Reading => Copied = <<>> /\ Range(Copied) = {}
    BY OneUnit DEF Copied
  <1>4. Reading => Range(Copied) = Range(Read) \union Range(parse.rest)
    <2>. DEFINE a == Read
                b == parse.rest
    <2>1. Reading => a \in Seq(Unit) /\ b \in Seq(Unit) /\ Copied = a \o b
      BY <1>2
    <2>. HIDE DEF a, b
    <2>2. ASSUME Reading
          PROVE  Range(Copied) = Range(a) \union Range(b)
      <3>1. a \in Seq(Unit) /\ b \in Seq(Unit) /\ Copied = a \o b
        BY <2>1, <2>2
      <3>2. Range(a \o b) = Range(a) \union Range(b)
        BY <3>1, InjectiveConcat
      <3>. QED
        BY <3>1, <3>2
    <2>. QED
      BY <2>2 DEF a, b
  <1>5. Copied \in Seq(Unit)
    <2>1. CASE Reading
      BY <1>2, <2>1, ConcatProperties
    <2>2. CASE ~Reading
      BY <1>3, <2>2, EmptySeq
    <2>. QED
      BY <2>1, <2>2
  <1>6. /\ buff \o ahead \in Seq(Unit) /\ Copied \o ahead \in Seq(Unit)
    BY <1>1, <1>5, ConcatProperties
  <1>7. /\ Range(buff \o ahead) = Range(buff) \union Range(ahead)
        /\ Range(Copied \o ahead) = Range(Copied) \union Range(ahead)
    BY <1>1, <1>5, InjectiveConcat
  <1>8. \A s \in Seq(Unit) : Range(s) \subseteq Unit
    BY ElementOfSeq, LenProperties DEF Range
  <1>. QED
    BY <1>1, <1>2, <1>3, <1>4, <1>5, <1>6, <1>7, <1>8

-----------------------------------------------------------------------------
(***************************************************************************)
(* The steps of Parse keep the invariant.                                  *)
(***************************************************************************)
\* A thread that reads nothing, or has nothing more to assign.
LEMMA NothingRead ==
  ASSUME NEW ahead \in Seq(Unit), NEW forwarded \in SUBSET Messages,
         NEW done, NEW up \in BOOLEAN,
         ParserTypeOK, ParserInv(ahead, forwarded, done, up),
         UNCHANGED <<buff, parserVars, process, lost>>,
         StageInv', ~Reading'
  PROVE  ParserInv(ahead, forwarded, done, up)'
  <1>. USE DEF ParserInv, parserVars
  <1>1. Copied' = <<>> /\ Pending' = Pending /\ Taken' = Taken
    BY DEF Copied, Pending, Taken
  <1>2. Range(<<>>) = {} /\ <<>> \o ahead = ahead
    BY OneUnit, ConcatEmptySeq
  <1>3. buff \o ahead \in Seq(Unit) /\ (IsInjective(buff \o ahead) => IsInjective(ahead))
    BY StreamUnits, InjectiveConcat
  <1>4. UniqueInv(ahead)'
    BY <1>1, <1>2, <1>3 DEF UniqueInv
  <1>5. TakenInv(done)'
    <2>1. /\ TakenInv(done) /\ Taken' = Taken /\ Pending' = Pending
          /\ UNCHANGED <<message_list, process, stage_>>
      BY <1>1
    <2>. HIDE DEF ParserInv, parserVars
    <2>. QED
      BY <2>1 DEF TakenInv
  <1>6. OriginInv(ahead, forwarded, done)'
    <2>1. /\ OriginInv(ahead, forwarded, done) /\ Taken' = Taken
          /\ Copied' = <<>> /\ buff' = buff
      BY <1>1
    <2>. HIDE DEF ParserInv, parserVars
    <2>2. Range(Copied') = {}
      BY <1>2, <2>1
    <2>. QED
      BY <2>1, <2>2 DEF OriginInv, Range
  <1>7. OrderInv(ahead)'
    BY <1>1, OrderedOne DEF OrderInv
  <1>8. WholeInv(ahead, forwarded, done, up)'
    BY <1>1 DEF WholeInv
  <1>. QED
    BY <1>4, <1>5, <1>6, <1>7, <1>8

\* A thread that copies buff.
LEMMA CopyStep ==
  ASSUME NEW ahead \in Seq(Unit), NEW forwarded \in SUBSET Messages,
         NEW done, NEW up \in BOOLEAN,
         ParserTypeOK, ParserInv(ahead, forwarded, done, up),
         ReadHeader \/ ReadBody \/ ReadNothing
  PROVE  ParserTypeOK' /\ ParserInv(ahead, forwarded, done, up)'
  <1>1. UNCHANGED <<buff, parserVars, taskVars, lost, crash>>
    BY DEF ReadHeader, ReadBody, ReadNothing, CopyRest
  <1>2. buff \in Seq(Unit)
    BY DEF ParserTypeOK
  <1>3. ParserTypeOK' /\ StageInv' /\ (Reading' => Copied' = buff)
    <2>1. CASE ReadHeader \/ ReadBody
      <3>1. PICK to \in {"header", "data"} :
              /\ parse' = [parse EXCEPT !.at = to, !.unit = Head(buff),
                                        !.rest = Tail(buff)]
              /\ buff # <<>> /\ parse # Null
              /\ to = "header" => stage_ = "header" /\ Head(buff).part = "header"
              /\ to = "data" => /\ parse.at = "body" /\ header_ # Null
                                /\ Head(buff).part = "body"
        BY <2>1 DEF ReadHeader, ReadBody, CopyRest, At
      <3>2. /\ Head(buff) \in Unit /\ Tail(buff) \in Seq(Unit)
            /\ buff = <<Head(buff)>> \o Tail(buff)
        BY <1>2, <3>1, HeadAndTail
      <3>3. /\ parse'.at = to /\ parse'.unit = Head(buff)
            /\ parse'.rest = Tail(buff)
            /\ parse' \in [at : {"loop", "header", "body", "data", "empty"},
                           ret : {0, 1}, unit : Unit \union {Null},
                           rest : Seq(Unit)]
        <4>1. parse \in [at : {"loop", "header", "body", "data", "empty"},
                         ret : {0, 1}, unit : Unit \union {Null},
                         rest : Seq(Unit)]
          BY <3>1 DEF ParserTypeOK
        <4>2. parse'.at = to
          BY <3>1, <4>1
        <4>. QED
          BY <3>1, <3>2, <4>1, <4>2
      <3>4. ParserTypeOK'
        BY <1>1, <3>3 DEF ParserTypeOK, parserVars, taskVars
      <3>5. stage_' = stage_ /\ header_' = header_
        BY <1>1 DEF parserVars
      <3>6. StageInv'
        <4>1. to = "data" => stage_ = "body"
          BY <3>1 DEF ParserInv, StageInv
        <4>. QED
          BY <3>1, <3>2, <3>3, <3>5, <4>1 DEF StageInv
      <3>7. Reading' => Copied' = buff
        BY <3>2, <3>3 DEF Reading, Copied, Read
      <3>. QED
        BY <3>4, <3>6, <3>7
    <2>2. CASE ReadNothing
      <3>1. /\ parse' = [parse EXCEPT !.at = "empty", !.unit = Null, !.rest = buff]
            /\ parse # Null /\ parse.at = "body" /\ header_ = Null
        BY <2>2 DEF ReadNothing, At
      <3>3. /\ parse'.at = "empty" /\ parse'.unit = Null
            /\ parse'.rest = buff
            /\ parse' \in [at : {"loop", "header", "body", "data", "empty"},
                           ret : {0, 1}, unit : Unit \union {Null},
                           rest : Seq(Unit)]
        <4>1. parse \in [at : {"loop", "header", "body", "data", "empty"},
                         ret : {0, 1}, unit : Unit \union {Null},
                         rest : Seq(Unit)]
          BY <3>1 DEF ParserTypeOK
        <4>2. parse'.at = "empty"
          BY <3>1, <4>1
        <4>. QED
          BY <1>2, <3>1, <4>1, <4>2
      <3>4. ParserTypeOK'
        BY <1>1, <3>3 DEF ParserTypeOK, parserVars, taskVars
      <3>5. stage_' = stage_ /\ header_' = header_
        BY <1>1 DEF parserVars
      <3>6. StageInv'
        <4>1. stage_ = "body"
          BY <3>1 DEF ParserInv, StageInv
        <4>. QED
          BY <3>1, <3>3, <3>5, <4>1 DEF StageInv
      <3>7. Reading' => Copied' = buff
        BY <1>2, <3>3, ConcatEmptySeq DEF Reading, Copied, Read
      <3>. QED
        BY <3>4, <3>6, <3>7
    <2>. QED
      BY <2>1, <2>2
  <1>4. CASE ~Reading'
    <2>1. UNCHANGED <<buff, parserVars, process, lost>>
      BY <1>1 DEF taskVars
    <2>. QED
      BY <1>3, <1>4, <2>1, NothingRead
  <1>5. CASE Reading'
    <2>1. Pending' = Pending /\ Taken' = Taken /\ Copied' = buff
      BY <1>1, <1>3, <1>5 DEF Pending, Taken, parserVars, taskVars
    <2>2. Range(buff) \subseteq Range(buff \o ahead)
      BY <1>2, InjectiveConcat
    <2>3. UniqueInv(ahead)' /\ TakenInv(done)'
      BY <1>1, <2>1
      DEF ParserInv, UniqueInv, TakenInv, parserVars, taskVars
    <2>4. OriginInv(ahead, forwarded, done)'
      BY <1>1, <2>1, <2>2 DEF ParserInv, OriginInv
    <2>5. OrderInv(ahead)'
      BY <1>1, <1>2, <2>1, OrderedConcat
      DEF ParserInv, OrderInv, parserVars, taskVars
    <2>6. WholeInv(ahead, forwarded, done, up)'
      <3>1. <<>> \in Seq(Unit) /\ buff = buff \o <<>>
        BY <1>2, EmptySeq, ConcatEmptySeq
      <3>. QED
        BY <1>1, <2>1, <3>1 DEF ParserInv, WholeInv
    <2>. QED
      BY <1>3, <2>3, <2>4, <2>5, <2>6 DEF ParserInv
  <1>. QED
    BY <1>4, <1>5

\* A thread that goes on, gives up or returns.
LEMMA IdleStep ==
  ASSUME NEW ahead \in Seq(Unit), NEW forwarded \in SUBSET Messages,
         NEW done, NEW up \in BOOLEAN,
         ParserTypeOK, ParserInv(ahead, forwarded, done, up),
         \/ ParseBegins \/ ParseEnds \/ ResumeBody \/ BodyMissing
         \/ NoMessageLeft
         \/ (HeaderInvalid \/ BodyInvalid) /\ UNCHANGED <<buff, stage_, lost>>
  PROVE  ParserTypeOK' /\ ParserInv(ahead, forwarded, done, up)'
  <1>. USE DEF ParseBegins, ParseEnds, ResumeBody, BodyMissing, NoMessageLeft,
               HeaderInvalid, BodyInvalid, Return, StageKept, At, parserVars,
               taskVars
  <1>1. UNCHANGED <<buff, parserVars, process, lost>>
    OBVIOUS
  <1>2. ParserTypeOK'
    <2>1. taking' \in BOOLEAN
      BY DEF ParserTypeOK
    <2>2. crash' = crash
      OBVIOUS
    <2>3. \/ parse' = Null \/ parse' = parse
          \/ parse' = [at |-> "loop", ret |-> 0, unit |-> Null, rest |-> <<>>]
          \/ parse # Null /\ parse' = [parse EXCEPT !.at = "body"]
      OBVIOUS
    <2>4. \/ parse' = Null
          \/ parse' \in [at : {"loop", "header", "body", "data", "empty"}, ret : {0, 1},
                         unit : Unit \union {Null}, rest : Seq(Unit)]
      <3>1. <<>> \in Seq(Unit)
        BY EmptySeq
      <3>2. parse = Null \/ parse \in [at : {"loop", "header", "body", "data", "empty"},
                                       ret : {0, 1}, unit : Unit \union {Null},
                                       rest : Seq(Unit)]
        BY DEF ParserTypeOK
      <3>. HIDE DEF ParseBegins, ParseEnds, ResumeBody, BodyMissing,
                    NoMessageLeft, HeaderInvalid, BodyInvalid, Return
      <3>3. CASE parse # Null /\ parse' = [parse EXCEPT !.at = "body"]
        BY <3>2, <3>3
      <3>4. CASE parse' = [at |-> "loop", ret |-> 0, unit |-> Null,
                           rest |-> <<>>]
        BY <3>1, <3>4
      <3>. QED
        BY <2>3, <3>2, <3>3, <3>4
    <2>. QED
      BY <1>1, <2>1, <2>2, <2>4 DEF ParserTypeOK
  <1>3. StageInv' /\ ~Reading'
    BY DEF ParserTypeOK, ParserInv, StageInv, Reading
  <1>. QED
    BY <1>1, <1>2, <1>3, NothingRead

\* What is wiped is counted as lost, unless more was lost before.
LEMMA WipeStep ==
  ASSUME NEW ahead \in Seq(Unit), NEW forwarded \in SUBSET Messages,
         NEW done, NEW up \in BOOLEAN,
         ParserTypeOK, ParserInv(ahead, forwarded, done, up),
         HeaderInvalid \/ BodyInvalid,
         ~UNCHANGED <<buff, stage_, lost>>
  PROVE  ParserTypeOK' /\ ParserInv(ahead, forwarded, done, up)'
  <1>. USE DEF ParserInv, HeaderInvalid, BodyInvalid, Return, At
  <1>1. /\ buff # <<>> /\ buff \in Seq(Unit) /\ Head(buff) \in Unit
        /\ <<Head(buff)>> \in Seq(Unit) /\ Tail(buff) \in Seq(Unit)
        /\ buff = <<Head(buff)>> \o Tail(buff)
        /\ Head(buff) \in Range(buff)
    <2>1. buff # <<>> /\ buff \in Seq(Unit)
      BY DEF ParserTypeOK
    <2>. QED
      BY <2>1, HeadAndTail, SomeUnit
  <1>2. /\ buff' = <<>> /\ parse' = Null /\ message_list' = message_list
        /\ process' = process /\ header_' = header_ /\ crash' = crash
        /\ stage_' \in {stage_, "header"} /\ lost' \subseteq Unit
        /\ taking' \in BOOLEAN
        /\ Pending = Null /\ stage_' = "body" => stage_ = "body"
        /\ lost \subseteq lost'
    BY StreamUnits, EmptySeq DEF ParserTypeOK
  <1>3. lost' # {}
    <2>. SUFFICES ASSUME lost = {}
                  PROVE  lost' # {}
      BY <1>2
    <2>1. Expected(Pending, Head(buff))
      <3>1. Ordered(Pending, buff)
        BY <1>1, OrderedConcat DEF OrderInv
      <3>. QED
        BY <1>1, <3>1, OrderedHead
    <2>2. ~BodyInvalid
      BY <2>1 DEF StageInv, Pending, Expected
    <2>3. Head(buff) = Meta
      BY <1>1, <2>1, <2>2, UnitFacts DEF Pending, Expected
    <2>. QED
      BY <1>1, <2>2, <2>3
  <1>4. ParserTypeOK'
    BY <1>2, EmptySeq DEF ParserTypeOK
  <1>5. StageInv' /\ ~Reading' /\ Copied' = <<>>
    BY <1>2 DEF StageInv, Reading, Copied
  <1>6. <<>> \o ahead = ahead /\ Range(<<>>) = {} /\ (<<>> \o ahead)' = ahead
    BY ConcatEmptySeq, OneUnit
  <1>7. /\ IsInjective(ahead) /\ Range(ahead) \subseteq Range(buff \o ahead)
    BY StreamUnits, InjectiveConcat DEF UniqueInv
  <1>8. Taken' = Taken
    BY <1>2 DEF Taken
  <1>9. UniqueInv(ahead)'
    BY <1>2, <1>5, <1>6, <1>7 DEF UniqueInv
  <1>10. TakenInv(done)'
    BY <1>2, <1>8 DEF TakenInv, Pending
  <1>11. OriginInv(ahead, forwarded, done)'
    BY <1>2, <1>5, <1>6, <1>7, <1>8 DEF OriginInv
  <1>12. OrderInv(ahead)' /\ WholeInv(ahead, forwarded, done, up)'
    BY <1>3 DEF OrderInv, WholeInv
  <1>. QED
    BY <1>4, <1>5, <1>9, <1>10, <1>11, <1>12

\* A sequence of the Meta alone is empty or the Meta.
LEMMA OnlyMeta ==
  ASSUME NEW s \in Seq(Unit), IsInjective(s), Range(s) \subseteq {Meta}
  PROVE  s = <<>> \/ s = <<Meta>>
  <1>. SUFFICES ASSUME s # <<>>
                PROVE  s = <<Meta>>
    OBVIOUS
  <1>. DEFINE h == <<Head(s)>>
              t == Tail(s)
  <1>1. /\ h \in Seq(Unit) /\ t \in Seq(Unit) /\ s = h \o t
        /\ Head(s) = Meta /\ Range(h) = {Head(s)}
    BY HeadAndTail, SomeUnit, OneUnit
  <1>. HIDE DEF h, t
  <1>2. /\ Range(h \o t) = Range(h) \union Range(t)
        /\ Range(h) \intersect Range(t) = {}
    BY <1>1, InjectiveConcat
  <1>3. Range(t) = {}
    BY <1>1, <1>2
  <1>4. s = h
    BY <1>1, <1>3, SomeUnit, ConcatEmptySeq
  <1>. QED
    BY <1>1, <1>4 DEF h

\* Nothing is expected behind a Meta that was not expected without it.
LEMMA MetaFirst ==
  ASSUME NEW m \in Messages \union {Null}, NEW s \in Seq(Unit),
         NEW t \in Seq(Unit), s = <<>> \/ s = <<Meta>>, Ordered(m, s)
  PROVE  /\ Ordered(m, s \o t) <=> Ordered(m, t)
         /\ End(m, s \o t) = End(m, t)
         /\ s # <<>> => m = Null
  <1>1. /\ Ordered(m, s \o t) <=> Ordered(m, s) /\ Ordered(End(m, s), t)
        /\ End(m, s \o t) = End(End(m, s), t)
    BY OrderedConcat
  <1>2. CASE s = <<>>
    BY <1>1, <1>2, OrderedOne
  <1>3. CASE s = <<Meta>>
    <2>. DEFINE h == <<Meta>>
    <2>1. /\ Ordered(m, h) <=> Expected(m, Meta)
          /\ End(m, h) = After(Meta)
      BY OrderedOne
    <2>. HIDE DEF h
    <2>2. Expected(m, Meta) /\ End(m, s) = After(Meta)
      BY <1>3, <2>1 DEF h
    <2>3. m = Null /\ After(Meta) = Null
      BY <2>2, UnitFacts DEF Expected, After
    <2>. QED
      BY <1>1, <2>2, <2>3
  <1>. QED
    BY <1>2, <1>3

\* What a was read, and r is what is left of buff.
RestAssigned(a, r, ahead, up) ==
  /\ a \in Seq(Unit) /\ r \in Seq(Unit) /\ lost' \subseteq Unit
  /\ IsInjective(r \o ahead) /\ IsInjective(ahead)
  /\ Range(a) \subseteq Range(Copied)
  /\ Range(a) \intersect Range(r \o ahead) = {}
  /\ Range(r \o ahead) \subseteq Range(buff \o ahead) \union Range(Copied)
  /\ lost' = {} => /\ lost = {} /\ Ordered(Pending, a)
                   /\ Ordered(End(Pending, a), r \o ahead)
  /\ lost' = {} /\ up =>
       /\ End(End(Pending, a), r \o ahead) = Null
       /\ Range(buff \o ahead) \subseteq Range(a) \union Range(r \o ahead)

\* What is assigned is what has been copied, without what was read of it:
\* nothing has been appended since, or it is counted as lost.
LEMMA AssignedRest ==
  ASSUME NEW ahead \in Seq(Unit), NEW forwarded \in SUBSET Messages,
         NEW done, NEW up \in BOOLEAN,
         ParserTypeOK, ParserInv(ahead, forwarded, done, up),
         Reading, AssignRest
  PROVE  RestAssigned(Read, parse.rest, ahead, up)
  <1>. DEFINE a == Read
              b == parse.rest
  <1>1. /\ a \in Seq(Unit) /\ b \in Seq(Unit) /\ Copied = a \o b
        /\ buff \in Seq(Unit) /\ buff \o ahead \in Seq(Unit)
        /\ Copied \in Seq(Unit) /\ Range(buff) \subseteq Unit
        /\ Range(buff \o ahead) = Range(buff) \union Range(ahead)
        /\ Range(Copied) = Range(a) \union Range(b)
    BY StreamUnits DEF ParserInv
  <1>2. lost' = lost \union (Range(buff) \ (Range(a) \union Range(b)))
    <2>1. lost' = lost \union (Range(buff) \ ({parse.unit} \union Range(b)))
      BY DEF AssignRest
    <2>2. CASE a = <<>> /\ parse.unit = Null
      <3>1. Null \notin Range(buff) /\ Range(a) = {}
        BY <1>1, <2>2, NullAssumption, OneUnit
      <3>. QED
        BY <2>1, <2>2, <3>1
    <2>3. CASE a = <<parse.unit>>
      <3>1. Range(a) = {parse.unit}
        BY <2>3, OneUnit
      <3>. QED
        BY <2>1, <3>1
    <2>. QED
      BY <2>2, <2>3, StreamUnits DEF ParserInv
  <1>3. Pending \in Messages \union {Null}
    BY DEF ParserTypeOK, Pending
  <1>4. parse.at = "empty" => a = <<>> /\ Pending = Null
    BY DEF Read, Reading, Pending, ParserInv, StageInv
  <1>. HIDE DEF a, b
  <1>5. b \o ahead \in Seq(Unit) /\ Range(b \o ahead) = Range(b) \union Range(ahead)
    BY <1>1, ConcatProperties, InjectiveConcat
  <1>6. Copied \o ahead = a \o (b \o ahead)
    <2>1. a \in Seq(Unit) /\ b \in Seq(Unit) /\ Copied = a \o b
      BY <1>1
    <2>2. (a \o b) \o ahead = a \o (b \o ahead)
      BY <2>1, ConcatAssociative
    <2>. QED
      BY <2>1, <2>2
  <1>7. /\ IsInjective(b \o ahead) /\ Range(a) \intersect Range(b \o ahead) = {}
        /\ IsInjective(ahead) /\ IsInjective(buff)
    <2>1. IsInjective(Copied \o ahead) /\ IsInjective(buff \o ahead)
      BY DEF ParserInv, UniqueInv
    <2>2. IsInjective(b \o ahead) /\ Range(a) \intersect Range(b \o ahead) = {}
      BY <1>1, <1>5, <1>6, <2>1, InjectiveConcat
    <2>. QED
      BY <1>1, <2>1, <2>2, InjectiveConcat
  <1>8. ASSUME lost' = {}
        PROVE  /\ lost = {} /\ Ordered(Pending, Copied)
               /\ Ordered(Pending, buff \o ahead)
               /\ Range(buff) \subseteq Range(Copied)
               /\ Ordered(Pending, a) /\ Ordered(End(Pending, a), b)
    <2>1. lost = {} /\ Range(buff) \subseteq Range(Copied)
      BY <1>1, <1>2, <1>8
    <2>2. Ordered(Pending, buff \o ahead) /\ Ordered(Pending, Copied)
      BY <2>1 DEF ParserInv, OrderInv
    <2>3. Ordered(Pending, a) /\ Ordered(End(Pending, a), b)
      BY <1>1, <2>2, OrderedConcat
    <2>. QED
      BY <2>1, <2>2, <2>3
  <1>9. ASSUME lost' = {}, up
        PROVE  /\ Ordered(Pending, Copied \o ahead)
               /\ End(Pending, Copied \o ahead) = Null
    <2>1. /\ End(Pending, buff \o ahead) = Null
          /\ \/ \E new \in Seq(Unit) : buff = Copied \o new
             \/ parse.at = "empty" /\ Copied = <<Meta>>
      BY <1>8, <1>9 DEF ParserInv, WholeInv
    <2>2. CASE \E new \in Seq(Unit) : buff = Copied \o new
      <3>2. PICK new \in Seq(Unit) : buff = Copied \o new
        BY <2>2
      <3>4. /\ Range(buff) = Range(Copied) \union Range(new)
            /\ Range(Copied) \intersect Range(new) = {}
        <4>1. Copied \in Seq(Unit) /\ IsInjective(Copied \o new)
          BY <1>1, <1>7, <3>2
        <4>2. /\ Range(Copied \o new) = Range(Copied) \union Range(new)
              /\ Range(Copied) \intersect Range(new) = {}
          BY <4>1, InjectiveConcat
        <4>. QED
          BY <3>2, <4>2
      <3>5. Range(new) = {}
        BY <1>8, <1>9, <3>4
      <3>6. new = <<>>
        BY <3>5, SomeUnit
      <3>7. buff = Copied
        BY <1>1, <3>2, <3>6, ConcatEmptySeq
      <3>. QED
        BY <1>8, <1>9, <2>1, <3>7
    <2>3. CASE Copied = <<Meta>>
      <3>1. Range(buff) \subseteq {Meta}
        BY <1>8, <1>9, <2>3, OneUnit
      <3>2. buff = <<>> \/ buff = <<Meta>>
        BY <1>1, <1>7, <3>1, OnlyMeta
      <3>3. Ordered(Pending, buff)
        BY <1>1, <1>8, <1>9, OrderedConcat
      <3>4. Ordered(Pending, ahead) /\ End(Pending, ahead) = Null
        <4>1. /\ Ordered(Pending, buff \o ahead) <=> Ordered(Pending, ahead)
              /\ End(Pending, buff \o ahead) = End(Pending, ahead)
          <5>1. buff \in Seq(Unit)
            BY <1>1
          <5>. QED
            BY <1>3, <3>2, <3>3, <5>1, MetaFirst
        <4>. QED
          BY <1>8, <1>9, <2>1, <4>1
      <3>5. /\ Ordered(Pending, Copied \o ahead) <=> Ordered(Pending, ahead)
            /\ End(Pending, Copied \o ahead) = End(Pending, ahead)
        <4>1. Ordered(Pending, Copied) /\ Copied \in Seq(Unit)
          BY <1>1, <1>8, <1>9
        <4>. QED
          BY <1>3, <2>3, <4>1, MetaFirst
      <3>. QED
        BY <3>4, <3>5
    <2>. QED
      BY <2>1, <2>2, <2>3
  <1>10. ASSUME lost' = {}, up
         PROVE  /\ Ordered(End(Pending, a), b \o ahead)
                /\ End(End(Pending, a), b \o ahead) = Null
                /\ Range(buff \o ahead) \subseteq Range(a) \union Range(b \o ahead)
    <2>2. /\ Ordered(Pending, a \o (b \o ahead))
          /\ End(Pending, a \o (b \o ahead)) = Null
      BY <1>6, <1>9, <1>10
    <2>. DEFINE c == b \o ahead
    <2>3. c \in Seq(Unit)
      BY <1>5
    <2>4. Ordered(End(Pending, a), c) /\ End(End(Pending, a), c) = Null
      <3>. HIDE DEF c
      <3>1. /\ Ordered(Pending, a \o c)
              <=> Ordered(Pending, a) /\ Ordered(End(Pending, a), c)
            /\ End(Pending, a \o c) = End(End(Pending, a), c)
        BY <1>1, <2>3, OrderedConcat
      <3>2. Ordered(Pending, a \o c) /\ End(Pending, a \o c) = Null
        BY <2>2 DEF c
      <3>. QED
        BY <3>1, <3>2
    <2>. QED
      BY <1>1, <1>5, <1>8, <1>10, <2>4
  <1>11. ASSUME lost' = {}, ~up
         PROVE  Ordered(End(Pending, a), b \o ahead)
    <2>1. ahead = <<>>
      BY <1>11 DEF ParserInv, WholeInv
    <2>. QED
      BY <1>1, <1>8, <1>11, <2>1, ConcatEmptySeq
  <1>12. lost' \subseteq Unit
    BY <1>1, <1>2 DEF ParserTypeOK
  <1>. QED
    <2>1. RestAssigned(a, b, ahead, up)
      BY <1>1, <1>5, <1>7, <1>8, <1>10, <1>11, <1>12 DEF RestAssigned
    <2>. QED
      BY <2>1 DEF a, b

\* A thread that has read a header.
LEMMA HeaderParsedStep ==
  ASSUME NEW ahead \in Seq(Unit), NEW forwarded \in SUBSET Messages,
         NEW done, NEW up \in BOOLEAN,
         ParserTypeOK, ParserInv(ahead, forwarded, done, up), HeaderParsed
  PROVE  ParserTypeOK' /\ ParserInv(ahead, forwarded, done, up)'
  <1>. DEFINE u == parse.unit
              r == parse.rest
  <1>1. /\ buff' = r /\ stage_' = "body" /\ header_' = u.of
        /\ parse' = [parse EXCEPT !.at = "body"]
        /\ message_list' = message_list
        /\ taking' = taking /\ process' = process /\ crash' = crash
    BY DEF HeaderParsed, AssignRest, ReadIds, taskVars
  <1>2. Reading /\ stage_ = "header" /\ u.part = "header"
    BY DEF HeaderParsed, At, Reading, ParserInv, StageInv
  <1>3. /\ u \in Unit /\ r \in Seq(Unit) /\ lost' \subseteq Unit
        /\ IsInjective(r \o ahead) /\ IsInjective(ahead)
        /\ Range(r \o ahead) \subseteq Range(buff \o ahead) \union Range(Copied)
        /\ lost' = {} => lost = {} /\ Ordered(After(u), r \o ahead)
        /\ lost' = {} /\ up =>
             /\ End(After(u), r \o ahead) = Null
             /\ Range(buff \o ahead) \subseteq {u} \union Range(r \o ahead)
    <2>1. Reading /\ AssignRest /\ Read = <<u>> /\ u \in Unit
      BY <1>2, StreamUnits DEF HeaderParsed, At, ParserInv
    <2>2. RestAssigned(Read, r, ahead, up)
      BY <2>1, AssignedRest
    <2>. HIDE DEF r, u
    <2>3. /\ Range(Read) = {u} /\ End(Pending, Read) = After(u)
          /\ Ordered(Pending, Read) <=> Expected(Pending, u)
      BY <2>1, OneUnit, OrderedOne
    <2>. QED
      BY <2>1, <2>2, <2>3 DEF RestAssigned
  <1>4. /\ u.of \in Messages /\ After(u) = u.of /\ u.of # Null
        /\ \A m \in Messages : Body(m) # u
    BY <1>2, <1>3, UnitFacts, NullAssumption DEF After
  <1>. HIDE DEF r, u
  <1>5. ParserTypeOK'
    <2>1. parse' \in [at : {"loop", "header", "body", "data", "empty"}, ret : {0, 1},
                      unit : Unit \union {Null}, rest : Seq(Unit)]
      BY <1>1, <1>2 DEF ParserTypeOK, Reading
    <2>. QED
      BY <1>1, <1>3, <1>4, <2>1 DEF ParserTypeOK
  <1>6. StageInv' /\ ~Reading' /\ Copied' = <<>> /\ Pending' = After(u)
    <2>1. parse'.at = "body"
      BY <1>1, <1>2 DEF ParserTypeOK, Reading
    <2>2. ~Reading'
      BY <2>1 DEF Reading
    <2>. QED
      BY <1>1, <1>4, <2>1, <2>2 DEF StageInv, Copied, Pending
  <1>7. Taken' = Taken
    BY <1>1 DEF Taken
  <1>8. /\ (buff \o ahead)' = r \o ahead /\ (Copied \o ahead)' = ahead
        /\ Range(Copied') = {}
    BY <1>1, <1>6, ConcatEmptySeq, OneUnit
  <1>9. UniqueInv(ahead)'
    BY <1>3, <1>8 DEF UniqueInv
  <1>10. TakenInv(done)'
    <2>1. TakenInv(done)
      BY DEF ParserInv
    <2>2. Pending' # Null
      BY <1>4, <1>6
    <2>. QED
      BY <1>1, <1>7, <2>1, <2>2 DEF TakenInv
  <1>11. OriginInv(ahead, forwarded, done)'
    <2>1. OriginInv(ahead, forwarded, done)
      BY DEF ParserInv
    <2>2. Range(buff \o ahead)' = Range(r \o ahead) /\ Range(Copied)' = {}
      BY <1>1, <1>8 DEF Range
    <2>. QED
      BY <1>3, <1>7, <2>1, <2>2 DEF OriginInv
  <1>12. OrderInv(ahead)'
    <2>1. lost' = {} => /\ \A i \in DOMAIN message_list :
                              message_list[i].from = message_list[i].of
                        /\ \A p \in DOMAIN process : p.from = p.of
      BY <1>3 DEF ParserInv, OrderInv
    <2>2. lost' = {} => Ordered(Pending', (buff \o ahead)')
      BY <1>3, <1>6, <1>8
    <2>3. Ordered(Pending', Copied')
      BY <1>6, OrderedOne
    <2>. QED
      BY <1>1, <2>1, <2>2, <2>3 DEF OrderInv
  <1>13. WholeInv(ahead, forwarded, done, up)'
    <2>1. /\ WholeInv(ahead, forwarded, done, up)
          /\ Range(buff \o ahead)' = Range(r \o ahead)
      BY <1>1 DEF ParserInv, Range
    <2>2. lost' = {} /\ up => End(Pending', (buff \o ahead)') = Null
      BY <1>3, <1>6, <1>8
    <2>3. ASSUME lost' = {}, up, NEW m \in forwarded
          PROVE  Body(m) \in Range(r \o ahead) \/ m \in Taken \union done
      BY <1>3, <1>4, <2>1, <2>3 DEF WholeInv
    <2>. QED
      BY <1>6, <1>7, <2>1, <2>2, <2>3 DEF WholeInv
  <1>. QED
    BY <1>5, <1>6, <1>9, <1>10, <1>11, <1>12, <1>13 DEF ParserInv

\* A message that is neither listed nor handed on nor done is listed.
LEMMA ListAppended ==
  ASSUME NEW m \in Message, NEW done,
         ParserTypeOK, TakenInv(done), m.of \notin Taken \union done,
         message_list' = Append(message_list, m),
         process' = process, stage_' = "header"
  PROVE  /\ message_list' \in Seq(Message)
         /\ TakenInv(done)' /\ Taken' = Taken \union {m.of}
         /\ \A i \in DOMAIN message_list' :
              \/ message_list'[i] = m
              \/ i \in DOMAIN message_list /\ message_list'[i] = message_list[i]
  <1>. DEFINE l == message_list
              n == Len(message_list)
  <1>1. l \in Seq(Message) /\ n \in Nat /\ DOMAIN l = 1 .. n
    BY LenProperties DEF ParserTypeOK
  <1>2. /\ l' \in Seq(Message) /\ DOMAIN l' = 1 .. n + 1
        /\ \A i \in 1 .. n : l'[i] = l[i]
        /\ l'[n + 1] = m
    <2>1. /\ l' \in Seq(Message) /\ Len(l') = n + 1 /\ l'[n + 1] = m
          /\ \A i \in 1 .. n : l'[i] = l[i]
      BY <1>1, AppendProperties
    <2>. QED
      BY <2>1, LenProperties
  <1>. HIDE DEF n
  <1>3. \A i \in DOMAIN l' : \/ i = n + 1 /\ l'[i] = m
                             \/ i \in DOMAIN l /\ l'[i] = l[i]
    BY <1>1, <1>2
  <1>4. n + 1 \in DOMAIN l' /\ \A i \in DOMAIN l : i \in DOMAIN l'
    BY <1>1, <1>2
  <1>5. /\ \A i \in DOMAIN l : l[i].of \in Taken
        /\ \A p \in DOMAIN process : p.of \in Taken
    BY DEF Taken, BagToSet
  <1>6. Taken' = Taken \union {m.of}
    <2>1. {l'[i].of : i \in DOMAIN l'} = {l[i].of : i \in DOMAIN l} \union {m.of}
      BY <1>1, <1>2, <1>3, <1>4
    <2>. QED
      BY <2>1 DEF Taken, BagToSet
  <1>7. \A i, j \in DOMAIN l' : l'[i].of = l'[j].of => i = j
    <2>1. \A i, j \in DOMAIN l : l[i].of = l[j].of => i = j
      BY DEF TakenInv
    <2>2. \A i \in DOMAIN l : l[i].of # m.of
      BY <1>5
    <2>. QED
      BY <1>3, <2>1, <2>2
  <1>8. \A p \in DOMAIN process' :
          /\ process'[p] = 1
          /\ \A q \in DOMAIN process' : p.of = q.of => p = q
          /\ \A i \in DOMAIN l' : l'[i].of # p.of
    <2>. SUFFICES ASSUME NEW p \in DOMAIN process
                  PROVE  \A i \in DOMAIN l' : l'[i].of # p.of
      BY DEF TakenInv
    <2>1. p.of # m.of /\ \A i \in DOMAIN l : l[i].of # p.of
      BY <1>5 DEF TakenInv
    <2>. QED
      BY <1>3, <2>1
  <1>9. Taken' \intersect done = {}
    BY <1>6 DEF TakenInv
  <1>. QED
    BY <1>2, <1>3, <1>6, <1>7, <1>8, <1>9 DEF TakenInv

\* A thread that has read a body: the message is new, for its body was not.
LEMMA BodyParsedStep ==
  ASSUME NEW ahead \in Seq(Unit), NEW forwarded \in SUBSET Messages,
         NEW done, NEW up \in BOOLEAN,
         ParserTypeOK, ParserInv(ahead, forwarded, done, up), BodyParsed
  PROVE  ParserTypeOK' /\ ParserInv(ahead, forwarded, done, up)'
  <1>. DEFINE u == parse.unit
              r == parse.rest
              m == [from |-> header_, of |-> u.of]
  <1>1. /\ buff' = r /\ stage_' = "header" /\ header_' = header_
        /\ parse' = [parse EXCEPT !.at = "loop", !.ret = 1]
        /\ message_list' = Append(message_list, m)
        /\ taking' = taking /\ process' = process /\ crash' = crash
    BY DEF BodyParsed, AssignRest, PushMessage, taskVars
  <1>2. Reading /\ stage_ = "body" /\ header_ # Null /\ u.part = "body"
    BY DEF BodyParsed, At, Reading, ParserInv, StageInv
  <1>3. /\ u \in Unit /\ r \in Seq(Unit) /\ lost' \subseteq Unit
        /\ IsInjective(r \o ahead) /\ IsInjective(ahead)
        /\ u \in Range(Copied) /\ u \notin Range(r \o ahead)
        /\ Range(r \o ahead) \subseteq Range(buff \o ahead) \union Range(Copied)
        /\ lost' = {} => /\ lost = {} /\ Expected(Pending, u)
                         /\ Ordered(After(u), r \o ahead)
        /\ lost' = {} /\ up =>
             /\ End(After(u), r \o ahead) = Null
             /\ Range(buff \o ahead) \subseteq {u} \union Range(r \o ahead)
    <2>1. Reading /\ AssignRest /\ Read = <<u>> /\ u \in Unit
      BY <1>2, StreamUnits DEF BodyParsed, At, ParserInv
    <2>2. RestAssigned(Read, r, ahead, up)
      BY <2>1, AssignedRest
    <2>. HIDE DEF r, u
    <2>3. /\ Range(Read) = {u} /\ End(Pending, Read) = After(u)
          /\ Ordered(Pending, Read) <=> Expected(Pending, u)
      BY <2>1, OneUnit, OrderedOne
    <2>. QED
      BY <2>1, <2>2, <2>3 DEF RestAssigned
  <1>4. /\ u.of \in Messages /\ u = Body(u.of) /\ u # Meta /\ After(u) = Null
        /\ \A k \in Messages : Body(k) = u => k = u.of
        /\ \A k \in Messages : Body(k).of = k
    BY <1>2, <1>3, UnitFacts DEF After
  <1>5. m \in Message /\ m.of = u.of /\ m.from = header_
    BY <1>4 DEF ParserTypeOK, Message
  <1>. HIDE DEF r, u, m
  <1>6. u.of \notin Taken \union done /\ u.of \in forwarded
    <2>1. OriginInv(ahead, forwarded, done)
      BY DEF ParserInv
    <2>. QED
      BY <1>3, <1>4, <2>1, NullAssumption DEF OriginInv
  <1>7. /\ message_list' \in Seq(Message)
        /\ TakenInv(done)' /\ Taken' = Taken \union {u.of}
        /\ \A i \in DOMAIN message_list' :
             \/ message_list'[i] = m
             \/ i \in DOMAIN message_list /\ message_list'[i] = message_list[i]
    <2>1. TakenInv(done) /\ m.of \notin Taken \union done
      BY <1>5, <1>6 DEF ParserInv
    <2>2. /\ message_list' \in Seq(Message)
          /\ TakenInv(done)' /\ Taken' = Taken \union {m.of}
          /\ \A i \in DOMAIN message_list' :
               \/ message_list'[i] = m
               \/ /\ i \in DOMAIN message_list
                  /\ message_list'[i] = message_list[i]
      BY <1>1, <1>5, <2>1, ListAppended
    <2>. QED
      BY <1>5, <2>2
  <1>8. ParserTypeOK'
    <2>1. parse' \in [at : {"loop", "header", "body", "data", "empty"}, ret : {0, 1},
                      unit : Unit \union {Null}, rest : Seq(Unit)]
      BY <1>1, <1>2 DEF ParserTypeOK, Reading
    <2>. QED
      BY <1>1, <1>3, <1>7, <2>1 DEF ParserTypeOK
  <1>9. StageInv' /\ ~Reading' /\ Copied' = <<>> /\ Pending' = Null
    <2>1. parse'.at = "loop"
      BY <1>1, <1>2 DEF ParserTypeOK, Reading
    <2>2. ~Reading'
      BY <2>1 DEF Reading
    <2>. QED
      BY <1>1, <2>1, <2>2 DEF StageInv, Copied, Pending
  <1>10. /\ (buff \o ahead)' = r \o ahead /\ (Copied \o ahead)' = ahead
         /\ Range(Copied') = {}
    BY <1>1, <1>9, ConcatEmptySeq, OneUnit
  <1>11. UniqueInv(ahead)'
    BY <1>3, <1>10 DEF UniqueInv
  <1>12. OriginInv(ahead, forwarded, done)'
    <2>1. OriginInv(ahead, forwarded, done)
      BY DEF ParserInv
    <2>2. Range(buff \o ahead)' = Range(r \o ahead) /\ Range(Copied)' = {}
      BY <1>1, <1>10 DEF Range
    <2>3. \A k \in Range(r \o ahead) : k # Meta => k.of \in forwarded
      BY <1>3, <2>1 DEF OriginInv
    <2>4. Taken' \union done \subseteq forwarded \union {Null}
      BY <1>6, <1>7, <2>1 DEF OriginInv
    <2>5. \A k \in Taken' \union done : k # Null => Body(k) \notin Range(r \o ahead)
      <3>1. \A k \in Taken \union done :
              k # Null => Body(k) \notin Range(r \o ahead)
        BY <1>3, <2>1 DEF OriginInv
      <3>2. Body(u.of) \notin Range(r \o ahead)
        BY <1>3, <1>4
      <3>. QED
        BY <1>7, <3>1, <3>2
    <2>. QED
      BY <2>2, <2>3, <2>4, <2>5 DEF OriginInv
  <1>13. OrderInv(ahead)'
    <2>. SUFFICES ASSUME lost' = {}
                  PROVE  OrderInv(ahead)'
      BY DEF OrderInv
    <2>1. /\ lost = {} /\ Ordered(Null, r \o ahead)
          /\ \A i \in DOMAIN message_list :
               message_list[i].from = message_list[i].of
          /\ \A p \in DOMAIN process : p.from = p.of
      BY <1>3, <1>4 DEF ParserInv, OrderInv
    <2>2. m.from = m.of
      <3>1. Expected(header_, u)
        BY <1>2, <1>3 DEF Pending
      <3>2. u = Body(header_)
        BY <1>2, <3>1 DEF Expected
      <3>3. header_ \in Messages
        BY <1>2 DEF ParserTypeOK
      <3>. QED
        BY <1>4, <1>5, <3>2, <3>3
    <2>3. \A i \in DOMAIN message_list' :
            message_list'[i].from = message_list'[i].of
      BY <1>7, <2>1, <2>2
    <2>4. Ordered(Pending', (buff \o ahead)') /\ Ordered(Pending', Copied')
      BY <1>9, <1>10, <2>1, OrderedOne
    <2>. QED
      BY <1>1, <2>1, <2>3, <2>4 DEF OrderInv
  <1>14. WholeInv(ahead, forwarded, done, up)'
    <2>1. /\ WholeInv(ahead, forwarded, done, up)
          /\ Range(buff \o ahead)' = Range(r \o ahead)
      BY <1>1 DEF ParserInv, Range
    <2>2. lost' = {} /\ up => End(Pending', (buff \o ahead)') = Null
      BY <1>3, <1>4, <1>9, <1>10
    <2>3. ASSUME lost' = {}, up, NEW k \in forwarded
          PROVE  Body(k) \in Range(r \o ahead) \/ k \in Taken' \union done
      BY <1>3, <1>4, <1>7, <2>1, <2>3 DEF WholeInv
    <2>. QED
      BY <1>9, <2>1, <2>2, <2>3 DEF WholeInv
  <1>. QED
    BY <1>7, <1>8, <1>9, <1>11, <1>12, <1>13, <1>14 DEF ParserInv

\* The empty message of a stage_ that was found as PARSING_BODY.
LEMMA EmptyBodyStep ==
  ASSUME NEW ahead \in Seq(Unit), NEW forwarded \in SUBSET Messages,
         NEW done, NEW up \in BOOLEAN,
         ParserTypeOK, ParserInv(ahead, forwarded, done, up), EmptyBodyParsed
  PROVE  ParserTypeOK' /\ ParserInv(ahead, forwarded, done, up)'
  <1>. DEFINE m == [from |-> Null, of |-> Null]
              r == parse.rest
  <1>1. /\ buff' = r /\ stage_' = "header" /\ header_' = header_
        /\ parse' = [parse EXCEPT !.at = "loop", !.ret = 1]
        /\ message_list' = Append(message_list, m)
        /\ taking' = taking /\ process' = process /\ crash' = crash
    BY DEF EmptyBodyParsed, AssignRest, PushMessage, taskVars
  <1>2. /\ stage_ = "body" /\ header_ = Null /\ Reading /\ Pending = Null
        /\ parse.at = "empty"
    BY DEF EmptyBodyParsed, At, Reading, Pending, ParserInv, StageInv
  <1>3. /\ r \in Seq(Unit) /\ lost' \subseteq Unit
        /\ IsInjective(r \o ahead) /\ IsInjective(ahead)
        /\ Range(r \o ahead) \subseteq Range(buff \o ahead) \union Range(Copied)
        /\ lost' = {} => lost = {} /\ Ordered(Null, r \o ahead)
        /\ lost' = {} /\ up =>
             /\ End(Null, r \o ahead) = Null
             /\ Range(buff \o ahead) \subseteq Range(r \o ahead)
    <2>1. Reading /\ AssignRest /\ Read = <<>>
      BY <1>2 DEF EmptyBodyParsed, Read
    <2>2. RestAssigned(Read, r, ahead, up)
      BY <2>1, AssignedRest
    <2>. HIDE DEF r
    <2>3. Range(Read) = {} /\ End(Pending, Read) = Null
      BY <1>2, <2>1, OneUnit, OrderedOne
    <2>. QED
      BY <2>2, <2>3 DEF RestAssigned
  <1>4. m \in Message /\ m.of = Null /\ m.from = Null
    BY DEF Message
  <1>. HIDE DEF m, r
  <1>5. /\ message_list' \in Seq(Message)
        /\ TakenInv(done)' /\ Taken' = Taken \union {m.of}
        /\ \A i \in DOMAIN message_list' :
             \/ message_list'[i] = m
             \/ i \in DOMAIN message_list /\ message_list'[i] = message_list[i]
    <2>1. TakenInv(done) /\ m.of \notin Taken \union done
      BY <1>2, <1>4 DEF ParserInv, TakenInv
    <2>. QED
      BY <1>1, <1>4, <2>1, ListAppended
  <1>6. ParserTypeOK'
    <2>1. parse' \in [at : {"loop", "header", "body", "data", "empty"},
                      ret : {0, 1}, unit : Unit \union {Null},
                      rest : Seq(Unit)]
      BY <1>1, <1>2 DEF ParserTypeOK, Reading
    <2>. QED
      BY <1>1, <1>3, <1>5, <2>1 DEF ParserTypeOK
  <1>7. StageInv' /\ ~Reading' /\ Copied' = <<>> /\ Pending' = Null
    <2>1. parse'.at = "loop"
      BY <1>1, <1>2 DEF ParserTypeOK, Reading
    <2>2. ~Reading'
      BY <2>1 DEF Reading
    <2>. QED
      BY <1>1, <2>1, <2>2 DEF StageInv, Copied, Pending
  <1>8. /\ (buff \o ahead)' = r \o ahead /\ (Copied \o ahead)' = ahead
        /\ Range(Copied') = {}
    BY <1>1, <1>7, ConcatEmptySeq, OneUnit
  <1>9. UniqueInv(ahead)'
    BY <1>3, <1>8 DEF UniqueInv
  <1>10. OriginInv(ahead, forwarded, done)'
    <2>1. OriginInv(ahead, forwarded, done)
      BY DEF ParserInv
    <2>2. Range(buff \o ahead)' = Range(r \o ahead) /\ Range(Copied)' = {}
      BY <1>1, <1>8 DEF Range
    <2>. QED
      BY <1>3, <1>4, <1>5, <2>1, <2>2 DEF OriginInv
  <1>11. OrderInv(ahead)'
    <2>. SUFFICES ASSUME lost' = {}
                  PROVE  OrderInv(ahead)'
      BY DEF OrderInv
    <2>1. /\ lost = {} /\ Ordered(Null, r \o ahead)
          /\ \A i \in DOMAIN message_list :
               message_list[i].from = message_list[i].of
          /\ \A p \in DOMAIN process : p.from = p.of
      BY <1>3 DEF ParserInv, OrderInv
    <2>2. Ordered(Pending', (buff \o ahead)') /\ Ordered(Pending', Copied')
      BY <1>7, <1>8, <2>1, OrderedOne
    <2>. QED
      BY <1>1, <1>4, <1>5, <2>1, <2>2 DEF OrderInv
  <1>12. WholeInv(ahead, forwarded, done, up)'
    <2>1. /\ WholeInv(ahead, forwarded, done, up)
          /\ Range(buff \o ahead)' = Range(r \o ahead)
      BY <1>1 DEF ParserInv, Range
    <2>2. lost' = {} /\ up => End(Pending', (buff \o ahead)') = Null
      BY <1>3, <1>7, <1>8
    <2>3. ASSUME lost' = {}, up, NEW k \in forwarded
          PROVE  Body(k) \in Range(r \o ahead) \/ k \in Taken' \union done
      BY <1>3, <1>5, <2>1, <2>3 DEF WholeInv
    <2>. QED
      BY <1>7, <2>1, <2>2, <2>3 DEF WholeInv
  <1>. QED
    BY <1>5, <1>6, <1>7, <1>9, <1>10, <1>11, <1>12 DEF ParserInv

\* The thread that takes the messages hands the first one on.
LEMMA TakeMessageStep ==
  ASSUME NEW ahead \in Seq(Unit), NEW forwarded \in SUBSET Messages,
         NEW done, NEW up \in BOOLEAN,
         ParserTypeOK, ParserInv(ahead, forwarded, done, up), TakeMessage
  PROVE  ParserTypeOK' /\ ParserInv(ahead, forwarded, done, up)'
  <1>. DEFINE l == message_list
              m == Head(message_list)
              n == Len(message_list)
  <1>1. /\ l' = Tail(l) /\ process' = BagAdd(process, m) /\ l # <<>>
        /\ UNCHANGED <<buff, stage_, header_, parse, lost, crash>>
        /\ taking' = taking
    BY DEF TakeMessage, PopFront, TakeAnother
  <1>2. TakenInv(done) /\ l \in Seq(Message)
    BY DEF ParserInv, ParserTypeOK
  <1>3. /\ m \in Message /\ l' \in Seq(Message) /\ m = l[1]
        /\ n \in Nat \ {0} /\ DOMAIN l = 1 .. n /\ DOMAIN l' = 1 .. n - 1
        /\ \A i \in 1 .. n - 1 : l'[i] = l[i + 1]
    <2>1. /\ Tail(l) \in Seq(Message) /\ Len(Tail(l)) = Len(l) - 1
          /\ \A i \in 1 .. Len(Tail(l)) : Tail(l)[i] = l[i + 1]
          /\ Head(l) \in Message
      BY <1>1, <1>2, HeadTailProperties
    <2>2. Head(l) = l[1] /\ Len(l) \in Nat \ {0} /\ DOMAIN l = 1 .. Len(l)
      BY <1>1, <1>2, LenProperties, EmptySeq
    <2>3. DOMAIN Tail(l) = 1 .. Len(Tail(l))
      BY <2>1, LenProperties
    <2>. QED
      BY <1>1, <2>1, <2>2, <2>3
  <1>. HIDE DEF n, m
  <1>4. /\ 1 \in DOMAIN l
        /\ \A i \in DOMAIN l' : i + 1 \in DOMAIN l /\ i + 1 # 1 /\ l'[i] = l[i + 1]
        /\ \A i \in DOMAIN l : i = 1 \/ (i - 1 \in DOMAIN l' /\ l'[i - 1] = l[i])
        /\ \A i, j \in DOMAIN l' : i + 1 = j + 1 => i = j
    <2>1. \A i \in 1 .. n :
            i = 1 \/ (i - 1 \in 1 .. n - 1 /\ (i - 1) + 1 = i)
      BY <1>3
    <2>2. \A i \in DOMAIN l : i = 1 \/ (i - 1 \in DOMAIN l' /\ l'[i - 1] = l[i])
      BY <1>3, <2>1
    <2>3. 1 \in DOMAIN l
      BY <1>3
    <2>4. \A i \in DOMAIN l' : i + 1 \in DOMAIN l /\ i + 1 # 1 /\ l'[i] = l[i + 1]
      BY <1>3
    <2>5. \A i, j \in DOMAIN l' : i + 1 = j + 1 => i = j
      BY <1>3
    <2>. QED
      BY <2>2, <2>3, <2>4, <2>5
  <1>5. m \notin DOMAIN process
    BY <1>2, <1>3, <1>4 DEF TakenInv
  <1>6. /\ DOMAIN process' = DOMAIN process \union {m}
        /\ process'[m] = 1
        /\ \A p \in DOMAIN process : process'[p] = process[p]
        /\ process' = [p \in DOMAIN process' |-> process'[p]]
    BY <1>1, <1>5 DEF BagAdd
  <1>7. ParserTypeOK'
    <2>1. IsABag(process') /\ DOMAIN process' \subseteq Message
      BY <1>3, <1>6 DEF ParserTypeOK, IsABag, BagToSet
    <2>. QED
      BY <1>1, <1>3, <2>1 DEF ParserTypeOK, BagToSet
  <1>8. Taken' = Taken
    <2>1. {l[i].of : i \in DOMAIN l} = {l'[i].of : i \in DOMAIN l'} \union {m.of}
      <3>1. \A i \in DOMAIN l :
              l[i].of \in {l'[j].of : j \in DOMAIN l'} \union {m.of}
        BY <1>3, <1>4
      <3>2. \A i \in DOMAIN l' : l'[i].of \in {l[j].of : j \in DOMAIN l}
        BY <1>4
      <3>3. m.of \in {l[j].of : j \in DOMAIN l}
        BY <1>3, <1>4
      <3>. QED
        BY <3>1, <3>2, <3>3
    <2>2. {p.of : p \in DOMAIN process'} = {p.of : p \in DOMAIN process} \union {m.of}
      BY <1>6
    <2>. QED
      BY <2>1, <2>2 DEF Taken, BagToSet
  <1>9. StageInv' /\ Copied' = Copied /\ Pending' = Pending /\ (Reading' <=> Reading)
    BY <1>1 DEF ParserInv, StageInv, Copied, Read, Pending, Reading
  <1>10. UniqueInv(ahead)'
    BY <1>1, <1>9 DEF ParserInv, UniqueInv
  <1>11. TakenInv(done)'
    <2>1. \A i, j \in DOMAIN l' : l'[i].of = l'[j].of => i = j
      BY <1>2, <1>4 DEF TakenInv
    <2>2. ASSUME NEW i \in DOMAIN l'
          PROVE  l'[i].of # m.of
      <3>1. /\ i + 1 \in DOMAIN l /\ 1 \in DOMAIN l /\ i + 1 # 1
            /\ l'[i] = l[i + 1] /\ m = l[1]
        BY <1>3, <1>4
      <3>2. l[i + 1].of # l[1].of
        BY <1>2, <3>1 DEF TakenInv
      <3>. QED
        BY <3>1, <3>2
    <2>3. ASSUME NEW p \in DOMAIN process
          PROVE  /\ process[p] = 1 /\ p.of # m.of
                 /\ \A q \in DOMAIN process : p.of = q.of => p = q
                 /\ \A i \in DOMAIN l' : l'[i].of # p.of
      <3>1. /\ process[p] = 1
            /\ \A q \in DOMAIN process : p.of = q.of => p = q
            /\ \A i \in DOMAIN l : l[i].of # p.of
        BY <1>2 DEF TakenInv
      <3>. QED
        BY <1>3, <1>4, <3>1
    <2>4. \A p \in DOMAIN process' :
            /\ process'[p] = 1
            /\ \A q \in DOMAIN process' : p.of = q.of => p = q
            /\ \A i \in DOMAIN l' : l'[i].of # p.of
      BY <1>6, <2>2, <2>3
    <2>5. /\ Taken' \intersect done = {}
          /\ Pending' = Null /\ stage_' = "body" => Null \notin Taken' \union done
      BY <1>1, <1>2, <1>8, <1>9 DEF TakenInv
    <2>. QED
      BY <2>1, <2>4, <2>5 DEF TakenInv
  <1>12. OriginInv(ahead, forwarded, done)'
    <2>1. OriginInv(ahead, forwarded, done)
      BY DEF ParserInv
    <2>. QED
      BY <1>1, <1>8, <1>9, <2>1 DEF OriginInv, Range
  <1>13. OrderInv(ahead)'
    <2>1. OrderInv(ahead)
      BY DEF ParserInv
    <2>. QED
      BY <1>1, <1>3, <1>4, <1>6, <1>9, <2>1 DEF OrderInv
  <1>14. WholeInv(ahead, forwarded, done, up)'
    <2>1. WholeInv(ahead, forwarded, done, up)
      BY DEF ParserInv
    <2>. QED
      BY <1>1, <1>8, <1>9, <2>1 DEF WholeInv, Range
  <1>. QED
    BY <1>7, <1>9, <1>10, <1>11, <1>12, <1>13, <1>14 DEF ParserInv

\* Whatever a thread of parse_pool_ does in ParseMessage.
LEMMA ParserStep ==
  ASSUME NEW ahead \in Seq(Unit), NEW forwarded \in SUBSET Messages,
         NEW done, NEW up \in BOOLEAN,
         ParserTypeOK, ParserInv(ahead, forwarded, done, up),
         ParseBegins \/ Parse \/ GetMessages
  PROVE  ParserTypeOK' /\ ParserInv(ahead, forwarded, done, up)'
  <1>1. CASE ParseBegins \/ ParseEnds \/ ResumeBody \/ BodyMissing \/ NoMessageLeft
    BY <1>1, IdleStep
  <1>2. CASE ReadHeader \/ ReadBody \/ ReadNothing
    BY <1>2, CopyStep
  <1>3. CASE HeaderParsed
    BY <1>3, HeaderParsedStep
  <1>4. CASE BodyParsed
    BY <1>4, BodyParsedStep
  <1>5. CASE EmptyBodyParsed
    BY <1>5, EmptyBodyStep
  <1>6. CASE HeaderInvalid \/ BodyInvalid
    <2>1. CASE UNCHANGED <<buff, stage_, lost>>
      BY <1>6, <2>1, IdleStep
    <2>2. CASE ~UNCHANGED <<buff, stage_, lost>>
      BY <1>6, <2>2, WipeStep
    <2>. QED
      BY <2>1, <2>2
  <1>7. CASE TakeMessage
    BY <1>7, TakeMessageStep
  <1>. QED
    BY <1>1, <1>2, <1>3, <1>4, <1>5, <1>6, <1>7 DEF Parse, GetMessages

\* Nothing that was lost is found again, only who has begun goes on, and what
\* is read was there.
LEMMA ParserKeeps ==
  ASSUME ParserTypeOK, StageInv, ParseBegins \/ Parse \/ GetMessages
  PROVE  /\ lost \subseteq lost' /\ crash' = crash
         /\ ParseBegins \/ parse # Null \/ taking
         /\ Range(buff') \union Range(Copied')
              \subseteq Range(buff) \union Range(Copied)
  <1>1. Range(<<>>) = {} /\ (~Reading' => Copied' = <<>>)
    BY OneUnit DEF Copied
  <1>2. /\ buff \in Seq(Unit)
        /\ Reading => Range(parse.rest) \subseteq Range(Copied)
    <2>1. <<>> \in Seq(Unit)
      BY EmptySeq
    <2>. QED
      BY <2>1, StreamUnits
  <1>3. ASSUME ParseBegins \/ GetMessages
        PROVE  /\ lost \subseteq lost' /\ crash' = crash /\ buff' = buff
               /\ ParseBegins \/ taking
               /\ ~Reading'
    BY <1>3 DEF ParseBegins, GetMessages, TakeMessage, NoMessageLeft, Reading
  <1>4. ASSUME ParseEnds \/ ResumeBody \/ BodyMissing
        PROVE  /\ lost \subseteq lost' /\ crash' = crash /\ buff' = buff
               /\ parse # Null /\ ~Reading'
    <2>1. /\ lost' = lost /\ crash' = crash /\ buff' = buff /\ parse # Null
          /\ parse' = Null \/ parse' = [parse EXCEPT !.at = "body"]
      BY <1>4 DEF ParseEnds, ResumeBody, BodyMissing, At, Return
    <2>. QED
      BY <2>1 DEF Reading, ParserTypeOK
  <1>5. ASSUME ReadHeader \/ ReadBody \/ ReadNothing
        PROVE  /\ lost \subseteq lost' /\ crash' = crash /\ buff' = buff
               /\ parse # Null /\ Range(Copied') \subseteq Range(buff)
    <2>1. /\ lost' = lost /\ crash' = crash /\ buff' = buff /\ parse # Null
          /\ \/ /\ buff # <<>>
                /\ \E to \in {"header", "data"} :
                     parse' = [parse EXCEPT !.at = to, !.unit = Head(buff),
                                            !.rest = Tail(buff)]
             \/ parse' = [parse EXCEPT !.at = "empty", !.unit = Null,
                                       !.rest = buff]
      BY <1>5 DEF ReadHeader, ReadBody, ReadNothing, CopyRest, At
    <2>2. \/ /\ buff # <<>> /\ parse'.at \in {"header", "data"}
             /\ parse'.unit = Head(buff) /\ parse'.rest = Tail(buff)
          \/ parse'.at = "empty" /\ parse'.rest = buff
      BY <2>1 DEF ParserTypeOK
    <2>3. Copied' = buff \/ Copied' = <<>>
      <3>1. buff # <<>> => buff = <<Head(buff)>> \o Tail(buff)
        BY <1>2, HeadAndTail
      <3>2. buff = <<>> \o buff
        BY <1>2, ConcatEmptySeq
      <3>. QED
        BY <2>2, <3>1, <3>2 DEF Copied, Read, Reading
    <2>. QED
      BY <1>1, <2>1, <2>3
  <1>6. ASSUME HeaderParsed \/ BodyParsed \/ EmptyBodyParsed
        PROVE  /\ lost \subseteq lost' /\ crash' = crash /\ parse # Null
               /\ ~Reading' /\ Range(buff') \subseteq Range(Copied)
    <2>1. /\ lost \subseteq lost' /\ crash' = crash /\ parse # Null /\ Reading
          /\ buff' = parse.rest
          /\ \/ parse' = [parse EXCEPT !.at = "body"]
             \/ parse' = [parse EXCEPT !.at = "loop", !.ret = 1]
      BY <1>6 DEF HeaderParsed, BodyParsed, EmptyBodyParsed, AssignRest, At,
                  PushMessage, Reading
    <2>2. ~Reading'
      BY <2>1 DEF Reading, ParserTypeOK
    <2>. QED
      BY <1>2, <2>1, <2>2
  <1>7. ASSUME HeaderInvalid \/ BodyInvalid
        PROVE  /\ lost \subseteq lost' /\ crash' = crash /\ parse # Null
               /\ ~Reading' /\ buff' \in {buff, <<>>}
    BY <1>7 DEF HeaderInvalid, BodyInvalid, At, Return, Reading
  <1>. QED
    BY <1>1, <1>3, <1>4, <1>5, <1>6, <1>7 DEF Parse

-----------------------------------------------------------------------------
(***************************************************************************)
(* What happens around the parser keeps the invariant, too.                *)
(***************************************************************************)
\* The parser of a new connection, to which nothing has been sent.
LEMMA ParserStart ==
  ASSUME ParserInit
  PROVE  /\ ParserTypeOK /\ ParserInv(<<>>, {}, {}, FALSE)
         /\ Taken = {} /\ Copied = <<>>
  <1>1. /\ buff = <<>> /\ stage_ \in {"header", "body", "other"} /\ header_ = Null
        /\ message_list = <<>> /\ parse = Null /\ taking = FALSE
        /\ process = EmptyBag /\ lost = {} /\ crash = "no"
    BY DEF ParserInit
  <1>2. DOMAIN process = {} /\ IsABag(process)
    BY <1>1 DEF EmptyBag, SetToBag, IsABag
  <1>3. ParserTypeOK
    BY <1>1, <1>2, EmptySeq DEF ParserTypeOK, BagToSet
  <1>4. DOMAIN message_list = {}
    BY <1>1
  <1>5. /\ Copied = <<>> /\ ~Reading /\ Taken = {} /\ Pending = Null
    BY <1>1, <1>2, <1>4 DEF Copied, Reading, Taken, Pending, BagToSet
  <1>6. buff \o <<>> = <<>> /\ Copied \o <<>> = <<>>
    BY <1>1, <1>5, ConcatEmptySeq, EmptySeq
  <1>7. StageInv
    BY <1>1 DEF StageInv
  <1>8. UniqueInv(<<>>)
    BY <1>6, OneUnit DEF UniqueInv
  <1>9. TakenInv({})
    BY <1>2, <1>4, <1>5 DEF TakenInv
  <1>10. OriginInv(<<>>, {}, {})
    BY <1>5, <1>6, OneUnit DEF OriginInv
  <1>11. OrderInv(<<>>)
    BY <1>2, <1>4, <1>5, <1>6, OrderedOne DEF OrderInv
  <1>12. WholeInv(<<>>, {}, {}, FALSE)
    BY DEF WholeInv
  <1>. QED
    BY <1>3, <1>5, <1>7, <1>8, <1>9, <1>10, <1>11, <1>12 DEF ParserInv

\* Whoever leaves the parser alone.
LEMMA ParserUnchanged ==
  ASSUME NEW ahead, NEW forwarded, NEW done, NEW up,
         ParserTypeOK, ParserInv(ahead, forwarded, done, up),
         UNCHANGED <<buff, parserVars, parse, taskVars, lost>>,
         crash' \in {crash, "no", "null"}
  PROVE  ParserTypeOK' /\ ParserInv(ahead, forwarded, done, up)'
  <1>1. UNCHANGED <<buff, stage_, header_, message_list, parse, taking, process,
                    lost>>
    BY DEF parserVars, taskVars
  <1>2. /\ Copied' = Copied /\ Pending' = Pending /\ Taken' = Taken
        /\ (Reading' <=> Reading)
    BY <1>1 DEF Copied, Read, Pending, Taken, Reading
  <1>3. ParserTypeOK' /\ StageInv' /\ UniqueInv(ahead)' /\ TakenInv(done)'
    BY <1>1, <1>2
    DEF ParserTypeOK, ParserInv, StageInv, UniqueInv, TakenInv
  <1>4. OriginInv(ahead, forwarded, done)'
    BY <1>1, <1>2 DEF ParserInv, OriginInv, Range
  <1>5. OrderInv(ahead)'
    BY <1>1, <1>2 DEF ParserInv, OrderInv
  <1>6. WholeInv(ahead, forwarded, done, up)'
    BY <1>1, <1>2 DEF ParserInv, WholeInv, Range
  <1>. QED
    BY <1>3, <1>4, <1>5, <1>6 DEF ParserInv

\* Nothing has been sent to a connection that is made now.
LEMMA ConnectionMade ==
  ASSUME ParserTypeOK, ParserInv(<<>>, {}, {}, FALSE),
         buff = <<>>, parse = Null, header_ = Null, Taken = {},
         buff' = <<>>, crash' \in {"no", "race"},
         UNCHANGED <<parserVars, parse, taskVars, lost>>
  PROVE  ParserTypeOK' /\ ParserInv(<<>>, {}, {}, TRUE)'
  <1>1. /\ UNCHANGED <<stage_, header_, message_list, parse, taking, process>>
        /\ lost' = lost /\ buff' = buff
    BY DEF parserVars, taskVars
  <1>2. /\ ~Reading' /\ Copied' = Copied /\ Pending' = Pending
        /\ Taken' = Taken /\ Pending = Null
    BY <1>1 DEF Reading, Copied, Read, Pending, Taken
  <1>3. buff' \o <<>> = <<>>
    BY ConcatEmptySeq, EmptySeq
  <1>4. ParserTypeOK'
    BY <1>1 DEF ParserTypeOK
  <1>5. StageInv' /\ UniqueInv(<<>>)' /\ TakenInv({})'
    BY <1>1, <1>2 DEF ParserInv, StageInv, UniqueInv, TakenInv
  <1>6. OriginInv(<<>>, {}, {})'
    BY <1>1, <1>2 DEF ParserInv, OriginInv, Range
  <1>7. OrderInv(<<>>)'
    BY <1>1, <1>2 DEF ParserInv, OrderInv
  <1>8. WholeInv(<<>>, {}, {}, TRUE)'
    BY <1>2, <1>3, OrderedOne DEF WholeInv
  <1>. QED
    BY <1>4, <1>5, <1>6, <1>7, <1>8 DEF ParserInv

\* OnMessage appends the next units.
LEMMA AppendStep ==
  ASSUME NEW a \in Seq(Unit), NEW b \in Seq(Unit),
         NEW forwarded \in SUBSET Messages, NEW done, NEW up \in BOOLEAN,
         ParserTypeOK, ParserInv(a \o b, forwarded, done, up),
         buff' = buff \o a, crash' \in {"no", "race"},
         UNCHANGED <<parserVars, parse, taskVars, lost>>
  PROVE  ParserTypeOK' /\ ParserInv(b, forwarded, done, up)'
  <1>1. UNCHANGED <<stage_, header_, message_list, parse, taking, process, lost>>
    BY DEF parserVars, taskVars
  <1>2. /\ Copied' = Copied /\ Pending' = Pending /\ Taken' = Taken
        /\ (Reading' <=> Reading)
    BY <1>1 DEF Copied, Read, Pending, Taken, Reading
  <1>3. /\ buff \in Seq(Unit) /\ Copied \in Seq(Unit) /\ a \o b \in Seq(Unit)
        /\ buff \o a \in Seq(Unit)
    <2>1. a \o b \in Seq(Unit)
      BY ConcatProperties
    <2>2. buff \in Seq(Unit)
      BY DEF ParserTypeOK
    <2>3. buff \o a \in Seq(Unit)
      BY <2>2, ConcatProperties
    <2>. QED
      BY <2>1, <2>3, StreamUnits DEF ParserInv
  <1>4. buff' \o b = buff \o (a \o b)
    BY <1>3, ConcatAssociative
  <1>5. ParserTypeOK'
    BY <1>1, <1>3 DEF ParserTypeOK
  <1>6. StageInv'
    BY <1>1 DEF ParserInv, StageInv
  <1>7. UniqueInv(b)'
    <2>1. IsInjective(buff \o (a \o b)) /\ IsInjective(Copied \o (a \o b))
      BY DEF ParserInv, UniqueInv
    <2>2. IsInjective(b) /\ Range(b) \subseteq Range(a \o b)
      <3>. DEFINE c == a \o b
      <3>1. c \in Seq(Unit)
        BY <1>3
      <3>2. IsInjective(Copied \o c)
        BY <2>1
      <3>. HIDE DEF c
      <3>3. IsInjective(c)
        BY <1>3, <3>1, <3>2, InjectiveConcat
      <3>. QED
        BY <3>3, InjectiveConcat DEF c
    <2>3. /\ IsInjective(Copied)
          /\ Range(Copied) \intersect Range(a \o b) = {}
      <3>. DEFINE c == a \o b
      <3>1. c \in Seq(Unit) /\ IsInjective(Copied \o c)
        BY <1>3, <2>1
      <3>. HIDE DEF c
      <3>2. IsInjective(Copied) /\ Range(Copied) \intersect Range(c) = {}
        BY <1>3, <3>1, InjectiveConcat
      <3>. QED
        BY <3>2 DEF c
    <2>4. IsInjective(Copied \o b)
      BY <1>3, <2>2, <2>3, InjectiveConcat
    <2>. QED
      BY <1>2, <1>4, <2>1, <2>4 DEF UniqueInv
  <1>8. TakenInv(done)'
    BY <1>1, <1>2 DEF ParserInv, TakenInv
  <1>9. OriginInv(b, forwarded, done)'
    BY <1>2, <1>4 DEF ParserInv, OriginInv, Range
  <1>10. OrderInv(b)'
    BY <1>1, <1>2, <1>4 DEF ParserInv, OrderInv
  <1>11. WholeInv(b, forwarded, done, up)'
    <2>1. WholeInv(a \o b, forwarded, done, up)
      BY DEF ParserInv
    <2>2. ~up => b = <<>>
      <3>1. ~up => Len(a) + Len(b) = 0
        BY <1>3, <2>1, ConcatProperties, EmptySeq DEF WholeInv
      <3>. QED
        BY <3>1, LenProperties, EmptySeq
    <2>3. ASSUME lost' = {}, up, Reading,
                 ~(parse.at = "empty" /\ Copied = <<Meta>>)
          PROVE  \E new \in Seq(Unit) : buff' = Copied \o new
      <3>1. PICK new \in Seq(Unit) : buff = Copied \o new
        BY <1>1, <2>1, <2>3 DEF WholeInv
      <3>2. new \o a \in Seq(Unit)
        BY ConcatProperties
      <3>3. (Copied \o new) \o a = Copied \o (new \o a)
        <4>1. Copied \in Seq(Unit)
          BY <1>3
        <4>. QED
          BY <4>1, ConcatAssociative
      <3>. QED
        BY <3>1, <3>2, <3>3
    <2>4. lost' = {} /\ up =>
            /\ End(Pending, buff' \o b) = Null
            /\ \A m \in forwarded :
                 Body(m) \in Range(buff' \o b) \/ m \in Taken \union done
      BY <1>1, <1>4, <2>1 DEF WholeInv
    <2>. QED
      BY <1>1, <1>2, <2>2, <2>3, <2>4 DEF WholeInv, Range
  <1>. QED
    BY <1>5, <1>6, <1>7, <1>8, <1>9, <1>10, <1>11 DEF ParserInv

\* What is sent is not there yet, and its messages are whole.
LEMMA SendStep ==
  ASSUME NEW ahead \in Seq(Unit), NEW forwarded \in SUBSET Messages, NEW done,
         NEW a \in Seq(Unit), NEW forwarded2 \in SUBSET Messages,
         ParserTypeOK, ParserInv(ahead, forwarded, done, TRUE),
         UNCHANGED streamVars,
         IsInjective(a), Ordered(Null, a), End(Null, a) = Null,
         Range(a) \intersect (Range(buff \o ahead) \union Range(Copied)) = {},
         forwarded \subseteq forwarded2,
         \A u \in Range(a) : u # Meta => u.of \in forwarded2 \ forwarded,
         \A m \in forwarded2 \ forwarded : Body(m) \in Range(a)
  PROVE  ParserTypeOK' /\ ParserInv(ahead \o a, forwarded2, done, TRUE)'
  <1>1. /\ UNCHANGED <<stage_, header_, message_list, parse, taking, process>>
        /\ lost' = lost /\ buff' = buff /\ crash' = crash
    BY DEF streamVars, parserVars, taskVars
  <1>2. /\ Copied' = Copied /\ Pending' = Pending /\ Taken' = Taken
        /\ (Reading' <=> Reading)
    BY <1>1 DEF Copied, Read, Pending, Taken, Reading
  <1>3. /\ buff \in Seq(Unit) /\ Copied \in Seq(Unit)
        /\ buff \o ahead \in Seq(Unit) /\ Copied \o ahead \in Seq(Unit)
        /\ Range(buff \o ahead) = Range(buff) \union Range(ahead)
        /\ Range(Copied \o ahead) = Range(Copied) \union Range(ahead)
    BY StreamUnits DEF ParserInv
  <1>4. buff \o (ahead \o a) = (buff \o ahead) \o a
    <2>1. buff \in Seq(Unit)
      BY <1>3
    <2>. QED
      BY <2>1, ConcatAssociative
  <1>5. Copied \o (ahead \o a) = (Copied \o ahead) \o a
    <2>1. Copied \in Seq(Unit)
      BY <1>3
    <2>. QED
      BY <2>1, ConcatAssociative
  <1>. DEFINE s == buff \o ahead
              c == Copied \o ahead
  <1>6. /\ s \in Seq(Unit) /\ c \in Seq(Unit)
        /\ buff \o (ahead \o a) = s \o a /\ Copied \o (ahead \o a) = c \o a
        /\ Range(a) \intersect Range(s) = {} /\ Range(a) \intersect Range(c) = {}
        /\ Range(a) \intersect Range(Copied) = {}
    BY <1>3, <1>4, <1>5
  <1>7. ParserInv(ahead, forwarded, done, TRUE)
    OBVIOUS
  <1>8. UniqueInv(ahead \o a)'
    <2>1. IsInjective(s) /\ IsInjective(c)
      BY <1>7 DEF ParserInv, UniqueInv
    <2>. HIDE DEF s, c
    <2>2. IsInjective(s \o a) /\ IsInjective(c \o a)
      BY <1>6, <2>1, InjectiveConcat
    <2>. QED
      BY <1>1, <1>2, <1>6, <2>2 DEF UniqueInv
  <1>9. Range(s \o a) = Range(s) \union Range(a)
    <2>. HIDE DEF s
    <2>. QED
      BY <1>6, InjectiveConcat
  <1>10. TakenInv(done)'
    BY <1>1, <1>2, <1>7 DEF ParserInv, TakenInv
  <1>11. OriginInv(ahead \o a, forwarded2, done)'
    <2>1. /\ \A u \in Range(s) \union Range(Copied) :
               u # Meta => u.of \in forwarded
          /\ Taken \union done \subseteq forwarded \union {Null}
          /\ \A m \in Taken \union done :
               m # Null => Body(m) \notin Range(s) \union Range(Copied)
      BY <1>7 DEF ParserInv, OriginInv
    <2>. HIDE DEF s
    <2>2. \A m \in forwarded : Body(m) \notin Range(a)
      BY UnitFacts
    <2>3. /\ \A u \in Range(s \o a) \union Range(Copied) :
               u # Meta => u.of \in forwarded2
          /\ Taken \union done \subseteq forwarded2 \union {Null}
          /\ \A m \in Taken \union done :
               m # Null => Body(m) \notin Range(s \o a) \union Range(Copied)
      BY <1>9, <2>1, <2>2
    <2>. QED
      BY <1>1, <1>2, <1>6, <2>3 DEF OriginInv, Range
  <1>12. lost = {} => /\ Ordered(Pending, s) /\ End(Pending, s) = Null
                      /\ Ordered(Pending, s \o a) /\ End(Pending, s \o a) = Null
    <2>1. lost = {} => Ordered(Pending, s) /\ End(Pending, s) = Null
      BY <1>7 DEF ParserInv, OrderInv, WholeInv
    <2>. HIDE DEF s
    <2>2. /\ Ordered(Pending, s \o a)
               <=> Ordered(Pending, s) /\ Ordered(End(Pending, s), a)
          /\ End(Pending, s \o a) = End(End(Pending, s), a)
      BY <1>6, OrderedConcat
    <2>. QED
      BY <2>1, <2>2
  <1>13. OrderInv(ahead \o a)'
    <2>1. OrderInv(ahead)
      BY <1>7 DEF ParserInv
    <2>. QED
      BY <1>1, <1>2, <1>6, <1>12, <2>1 DEF OrderInv
  <1>14. WholeInv(ahead \o a, forwarded2, done, TRUE)'
    <2>1. WholeInv(ahead, forwarded, done, TRUE)
      BY <1>7 DEF ParserInv
    <2>2. lost = {} =>
            \A m \in forwarded2 : Body(m) \in Range(s \o a) \/ m \in Taken \union done
      BY <1>9, <2>1 DEF WholeInv
    <2>. QED
      BY <1>1, <1>2, <1>6, <1>12, <2>1, <2>2 DEF WholeInv, Range
  <1>15. ParserTypeOK' /\ StageInv'
    BY <1>1, <1>7 DEF ParserTypeOK, ParserInv, StageInv
  <1>. QED
    BY <1>8, <1>10, <1>11, <1>13, <1>14, <1>15 DEF ParserInv

\* The units of a message that has not been sent.
LEMMA MessageUnits ==
  ASSUME NEW m \in Messages, NEW ahead \in Seq(Unit),
         NEW forwarded \in SUBSET Messages, NEW done, NEW up \in BOOLEAN,
         ParserTypeOK, ParserInv(ahead, forwarded, done, up), m \notin forwarded
  PROVE  LET a == <<Header(m), Body(m)>>
         IN  /\ a \in Seq(Unit) /\ IsInjective(a)
             /\ Range(a) = {Header(m), Body(m)}
             /\ Ordered(Null, a) /\ End(Null, a) = Null
             /\ Range(a) \intersect
                  (Range(buff \o ahead) \union Range(Copied)) = {}
             /\ \A u \in Range(a) :
                  u # Meta => u.of \in (forwarded \union {m}) \ forwarded
             /\ \A k \in (forwarded \union {m}) \ forwarded : Body(k) \in Range(a)
             /\ Meta \notin Range(a)
  <1>. DEFINE a == <<Header(m), Body(m)>>
  <1>1. /\ Header(m) \in Unit /\ Header(m).part = "header" /\ Header(m).of = m
        /\ Body(m) \in Unit /\ Body(m).part = "body" /\ Body(m).of = m
        /\ Header(m) # Meta /\ Body(m) # Meta /\ Header(m) # Body(m)
    BY UnitFacts
  <1>2. /\ a \in Seq(Unit) /\ Len(a) = 2 /\ DOMAIN a = {1, 2} /\ a # <<>>
        /\ a[1] = Header(m) /\ a[2] = Body(m)
    BY <1>1
  <1>. HIDE DEF a
  <1>3. Range(a) = {Header(m), Body(m)} /\ IsInjective(a)
    BY <1>1, <1>2 DEF Range, IsInjective
  <1>4. Ordered(Null, a)
    <2>1. \A i \in 1 .. Len(a) : i = 1 \/ (i = 2 /\ i - 1 = 1)
      BY <1>2
    <2>2. Expected(Null, a[1]) /\ Expected(After(a[1]), a[2])
      BY <1>1, <1>2, NullAssumption DEF Expected, After
    <2>. QED
      BY <2>1, <2>2 DEF Ordered
  <1>5. End(Null, a) = Null
    BY <1>1, <1>2 DEF End, After
  <1>6. Range(a) \intersect (Range(buff \o ahead) \union Range(Copied)) = {}
    BY <1>1, <1>3 DEF ParserInv, OriginInv
  <1>. QED
    BY <1>1, <1>2, <1>3, <1>4, <1>5, <1>6 DEF a

\* A connection is lost, with what has not been read, or with buff too.
LEMMA ConnectionLost ==
  ASSUME NEW ahead \in Seq(Unit), NEW forwarded \in SUBSET Messages,
         NEW done, NEW up \in BOOLEAN,
         ParserTypeOK, ParserInv(ahead, forwarded, done, up),
         buff' \in {buff, <<>>}, crash' \in {crash, "no", "race"},
         UNCHANGED <<parserVars, parse, taskVars, lost>>
  PROVE  ParserTypeOK' /\ ParserInv(<<>>, forwarded, done, FALSE)'
  <1>1. UNCHANGED <<stage_, header_, message_list, parse, taking, process, lost>>
    BY DEF parserVars, taskVars
  <1>2. /\ Copied' = Copied /\ Pending' = Pending /\ Taken' = Taken
        /\ (Reading' <=> Reading)
    BY <1>1 DEF Copied, Read, Pending, Taken, Reading
  <1>3. /\ buff \in Seq(Unit) /\ Copied \in Seq(Unit) /\ buff' \in Seq(Unit)
        /\ Range(buff \o ahead) = Range(buff) \union Range(ahead)
    BY StreamUnits, EmptySeq DEF ParserInv
  <1>4. buff' \o <<>> = buff' /\ Copied \o <<>> = Copied
    BY <1>3, ConcatEmptySeq
  <1>5. IsInjective(buff) /\ IsInjective(Copied)
    BY <1>3, InjectiveConcat DEF ParserInv, UniqueInv
  <1>6. ParserTypeOK' /\ StageInv'
    BY <1>1, <1>3 DEF ParserTypeOK, ParserInv, StageInv
  <1>7. UniqueInv(<<>>)'
    BY <1>2, <1>4, <1>5, OneUnit DEF UniqueInv
  <1>8. TakenInv(done)'
    BY <1>1, <1>2 DEF ParserInv, TakenInv
  <1>9. OriginInv(<<>>, forwarded, done)'
    <2>1. OriginInv(ahead, forwarded, done)
      BY DEF ParserInv
    <2>2. Range(buff' \o <<>>) \subseteq Range(buff \o ahead)
      BY <1>3, <1>4, OneUnit
    <2>. QED
      BY <1>2, <2>1, <2>2 DEF OriginInv, Range
  <1>10. OrderInv(<<>>)'
    <2>1. OrderInv(ahead)
      BY DEF ParserInv
    <2>2. lost = {} => Ordered(Pending, buff')
      BY <1>3, <2>1, OrderedConcat, OrderedOne DEF OrderInv
    <2>. QED
      BY <1>1, <1>2, <1>4, <2>1, <2>2 DEF OrderInv
  <1>11. WholeInv(<<>>, forwarded, done, FALSE)'
    BY DEF WholeInv
  <1>. QED
    BY <1>6, <1>7, <1>8, <1>9, <1>10, <1>11 DEF ParserInv

\* What is cleared is counted as lost, but for the Meta: it was alone then.
LEMMA ClearStep ==
  ASSUME NEW ahead \in Seq(Unit), NEW forwarded \in SUBSET Messages,
         NEW done, NEW up \in BOOLEAN,
         ParserTypeOK, ParserInv(ahead, forwarded, done, up),
         buff' = <<>>, lost' = lost \union (Range(buff) \ {Meta}),
         crash' \in {"no", "race"},
         UNCHANGED <<parserVars, parse, taskVars>>
  PROVE  ParserTypeOK' /\ ParserInv(ahead, forwarded, done, up)'
  <1>1. UNCHANGED <<stage_, header_, message_list, parse, taking, process>>
    BY DEF parserVars, taskVars
  <1>2. /\ Copied' = Copied /\ Pending' = Pending /\ Taken' = Taken
        /\ (Reading' <=> Reading)
    BY <1>1 DEF Copied, Read, Pending, Taken, Reading
  <1>3. /\ buff \in Seq(Unit) /\ Copied \in Seq(Unit)
        /\ Range(buff) \subseteq Unit
        /\ Range(buff \o ahead) = Range(buff) \union Range(ahead)
    BY StreamUnits DEF ParserInv
  <1>4. (buff \o ahead)' = ahead
    BY ConcatEmptySeq
  <1>5. IsInjective(ahead) /\ IsInjective(buff)
    BY <1>3, InjectiveConcat DEF ParserInv, UniqueInv
  <1>6. ParserTypeOK' /\ StageInv'
    BY <1>1, <1>3, EmptySeq DEF ParserTypeOK, ParserInv, StageInv
  <1>7. UniqueInv(ahead)'
    BY <1>2, <1>4, <1>5 DEF ParserInv, UniqueInv
  <1>8. TakenInv(done)'
    BY <1>1, <1>2 DEF ParserInv, TakenInv
  <1>9. OriginInv(ahead, forwarded, done)'
    <2>1. OriginInv(ahead, forwarded, done)
      BY DEF ParserInv
    <2>. QED
      BY <1>2, <1>3, <1>4, <2>1 DEF OriginInv, Range
  <1>10. ASSUME lost' = {}
         PROVE  /\ buff = <<>> \/ buff = <<Meta>>
                /\ lost = {} /\ Range(buff) \subseteq {Meta}
    <2>1. lost = {} /\ Range(buff) \subseteq {Meta}
      BY <1>10
    <2>. QED
      BY <1>3, <1>5, <2>1, OnlyMeta
  <1>11. ASSUME lost' = {}
         PROVE  /\ Ordered(Pending, buff \o ahead) <=> Ordered(Pending, ahead)
                /\ End(Pending, buff \o ahead) = End(Pending, ahead)
    <2>1. Ordered(Pending, buff)
      BY <1>3, <1>10, <1>11, OrderedConcat DEF ParserInv, OrderInv
    <2>2. Pending \in Messages \union {Null}
      BY DEF ParserTypeOK, Pending
    <2>. QED
      BY <1>3, <1>10, <1>11, <2>1, <2>2, MetaFirst
  <1>12. OrderInv(ahead)'
    <2>1. OrderInv(ahead)
      BY DEF ParserInv
    <2>. QED
      BY <1>1, <1>2, <1>4, <1>11, <2>1 DEF OrderInv
  <1>13. WholeInv(ahead, forwarded, done, up)'
    <2>1. WholeInv(ahead, forwarded, done, up)
      BY DEF ParserInv
    <2>2. ASSUME lost' = {}, up, Reading
          PROVE  parse.at = "empty" /\ Copied \in {<<>>, <<Meta>>}
      <3>1. Range(Copied) \subseteq {Meta}
        <4>1. CASE Copied = <<Meta>>
          BY <4>1, OneUnit
        <4>2. CASE \E new \in Seq(Unit) : buff = Copied \o new
          BY <1>3, <1>10, <2>2, <4>2, InjectiveConcat
        <4>. QED
          BY <1>10, <2>1, <2>2, <4>1, <4>2 DEF WholeInv
      <3>2. parse.at = "empty"
        <4>1. SUFFICES ASSUME parse.at # "empty"
                       PROVE  FALSE
          OBVIOUS
        <4>2. parse.unit \in Range(Copied)
          BY <2>2, <4>1, StreamUnits, OneUnit DEF ParserInv
        <4>3. parse.unit # Meta
          BY <2>2, <4>1, UnitFacts DEF Reading, ParserInv, StageInv
        <4>. QED
          BY <3>1, <4>2, <4>3
      <3>3. IsInjective(Copied)
        BY <1>3, InjectiveConcat DEF ParserInv, UniqueInv
      <3>. QED
        BY <1>3, <3>1, <3>2, <3>3, OnlyMeta
    <2>5. /\ <<>> \in Seq(Unit) /\ <<>> \o <<>> = <<>>
      BY EmptySeq, ConcatEmptySeq
    <2>6. ASSUME lost' = {}, up, Reading'
          PROVE  \/ \E new \in Seq(Unit) : buff' = Copied' \o new
                 \/ parse'.at = "empty" /\ Copied' = <<Meta>>
      <3>1. /\ parse.at = "empty" /\ Copied \in {<<>>, <<Meta>>}
        BY <1>2, <2>2, <2>6
      <3>2. CASE Copied = <<>>
        BY <1>2, <2>5, <3>2
      <3>3. CASE Copied = <<Meta>>
        BY <1>1, <1>2, <3>1, <3>3
      <3>. QED
        BY <3>1, <3>2, <3>3
    <2>3. ASSUME lost' = {}, up, NEW m \in forwarded
          PROVE  Body(m) \in Range(ahead) \/ m \in Taken \union done
      <3>1. Body(m) # Meta /\ lost = {} /\ Range(buff) \subseteq {Meta}
        BY <2>3, UnitFacts
      <3>. QED
        BY <1>3, <2>1, <2>3, <3>1 DEF WholeInv
    <2>4. lost' = {} => lost = {}
      OBVIOUS
    <2>. QED
      BY <1>2, <1>4, <1>11, <2>1, <2>3, <2>4, <2>6 DEF WholeInv, Range
  <1>. QED
    BY <1>6, <1>7, <1>8, <1>9, <1>12, <1>13 DEF ParserInv

\* A message that was handed on is not done.
LEMMA TaskFacts ==
  ASSUME NEW ahead, NEW forwarded, NEW done, NEW up, NEW m \in DOMAIN process,
         ParserTypeOK, ParserInv(ahead, forwarded, done, up)
  PROVE  /\ m \in Message /\ m.of \in Taken /\ m.of \notin done
         /\ lost = {} => m.from = m.of
  <1>1. TakenInv(done)
    BY DEF ParserInv
  <1>2. m \in Message
    BY DEF ParserTypeOK, BagToSet
  <1>3. m.of \in Taken
    BY DEF Taken, BagToSet
  <1>4. lost = {} => m.from = m.of
    BY DEF ParserInv, OrderInv
  <1>. QED
    BY <1>1, <1>2, <1>3, <1>4 DEF TakenInv

\* It is when it leaves process_pool_.
LEMMA TaskDone ==
  ASSUME NEW ahead \in Seq(Unit), NEW forwarded \in SUBSET Messages,
         NEW done, NEW up \in BOOLEAN, NEW m, NEW done2,
         ParserTypeOK, ParserInv(ahead, forwarded, done, up),
         m \in DOMAIN process, process' = BagRemove(process, m),
         UNCHANGED <<buff, parserVars, parse, taking, lost, crash>>,
         done2 = done \union {m.of}
  PROVE  ParserTypeOK' /\ ParserInv(ahead, forwarded, done2, up)'
  <1>1. UNCHANGED <<buff, stage_, header_, message_list, parse, taking, lost, crash>>
    BY DEF parserVars
  <1>2. TakenInv(done) /\ m \in Message /\ m.of \in Taken /\ m.of \notin done
    BY TaskFacts DEF ParserInv
  <1>3. /\ DOMAIN process' = DOMAIN process \ {m}
        /\ \A p \in DOMAIN process' : process'[p] = process[p]
        /\ process' = [p \in DOMAIN process' |-> process'[p]]
    BY <1>2 DEF TakenInv, BagRemove
  <1>4. Taken' = Taken \ {m.of}
    <2>1. /\ \A p \in DOMAIN process' : p.of # m.of
          /\ \A i \in DOMAIN message_list : message_list[i].of # m.of
      BY <1>2, <1>3 DEF TakenInv
    <2>2. {p.of : p \in DOMAIN process'} = {p.of : p \in DOMAIN process} \ {m.of}
      BY <1>3, <2>1
    <2>. QED
      BY <1>1, <2>1, <2>2 DEF Taken, BagToSet
  <1>5. Taken' \union done2 = Taken \union done
    BY <1>2, <1>4
  <1>6. /\ Copied' = Copied /\ Pending' = Pending /\ (Reading' <=> Reading)
    BY <1>1 DEF Copied, Read, Pending, Reading
  <1>7. ParserTypeOK'
    <2>1. IsABag(process') /\ DOMAIN process' \subseteq Message
      BY <1>3 DEF ParserTypeOK, IsABag, BagToSet
    <2>. QED
      BY <1>1, <2>1 DEF ParserTypeOK, BagToSet
  <1>8. StageInv' /\ UniqueInv(ahead)'
    BY <1>1, <1>6 DEF ParserInv, StageInv, UniqueInv
  <1>9. TakenInv(done2)'
    <2>1. \A p \in DOMAIN process' :
            /\ process'[p] = 1
            /\ \A q \in DOMAIN process' : p.of = q.of => p = q
            /\ \A i \in DOMAIN message_list : message_list[i].of # p.of
      BY <1>2, <1>3 DEF TakenInv
    <2>2. Taken' \intersect done2 = {}
      BY <1>2, <1>4 DEF TakenInv
    <2>. QED
      BY <1>1, <1>2, <1>5, <1>6, <2>1, <2>2 DEF TakenInv
  <1>10. OriginInv(ahead, forwarded, done2)'
    <2>1. OriginInv(ahead, forwarded, done)
      BY DEF ParserInv
    <2>. QED
      BY <1>1, <1>5, <1>6, <2>1 DEF OriginInv, Range
  <1>11. OrderInv(ahead)'
    <2>1. OrderInv(ahead)
      BY DEF ParserInv
    <2>. QED
      BY <1>1, <1>3, <1>6, <2>1 DEF OrderInv
  <1>12. WholeInv(ahead, forwarded, done2, up)'
    <2>1. WholeInv(ahead, forwarded, done, up)
      BY DEF ParserInv
    <2>. QED
      BY <1>1, <1>5, <1>6, <2>1 DEF WholeInv, Range
  <1>. QED
    BY <1>7, <1>8, <1>9, <1>10, <1>11, <1>12 DEF ParserInv

-----------------------------------------------------------------------------
(***************************************************************************)
(* What is taken is counted once.                                          *)
(***************************************************************************)
\* A message is listed or handed on, or not at all.
LEMMA ListedOnce ==
  ASSUME NEW m, NEW done, TakenInv(done)
  PROVE  Listed(m) = IF m \in Taken THEN 1 ELSE 0
  <1>. DEFINE I == {i \in DOMAIN message_list : message_list[i].of = m}
              P == {p \in BagToSet(process) : p.of = m}
  <1>1. Listed(m) = Cardinality(I) + Cardinality(Copies(m))
    BY DEF Listed
  <1>2. Copies(m) = {<<p, 1>> : p \in P}
    <2>1. \A p \in P : process[p] = 1
      BY DEF TakenInv, BagToSet
    <2>2. 1 .. 1 = {1}
      OBVIOUS
    <2>3. \A p \in P : {p} \X (1 .. process[p]) = {<<p, 1>>}
      BY <2>1, <2>2
    <2>4. Copies(m) = UNION {{p} \X (1 .. process[p]) : p \in P}
      BY DEF Copies
    <2>5. Copies(m) = UNION {{<<p, 1>>} : p \in P}
      BY <2>3, <2>4
    <2>. QED
      BY <2>5
  <1>3. \A i, j \in I : i = j
    BY DEF TakenInv
  <1>4. \A p, q \in P : p = q
    BY DEF TakenInv, BagToSet
  <1>5. I = {} \/ P = {}
    BY DEF TakenInv, BagToSet
  <1>6. m \in Taken <=> I # {} \/ P # {}
    BY DEF Taken
  <1>. HIDE DEF I, P
  <1>7. Cardinality(I) = IF I = {} THEN 0 ELSE 1
    <2>1. CASE I = {}
      BY <2>1, FS_EmptySet
    <2>2. CASE I # {}
      <3>1. PICK i \in I : I = {i}
        BY <1>3, <2>2
      <3>. QED
        BY <2>2, <3>1, FS_Singleton
    <2>. QED
      BY <2>1, <2>2
  <1>8. Cardinality(Copies(m)) = IF P = {} THEN 0 ELSE 1
    <2>1. CASE P = {}
      <3>1. Copies(m) = {}
        BY <1>2, <2>1
      <3>. QED
        BY <2>1, <3>1, FS_EmptySet
    <2>2. CASE P # {}
      <3>1. PICK p \in P : P = {p}
        BY <1>4, <2>2
      <3>2. Copies(m) = {<<p, 1>>}
        BY <1>2, <3>1
      <3>. QED
        BY <2>2, <3>2, FS_Singleton
    <2>. QED
      BY <2>1, <2>2
  <1>. QED
    BY <1>1, <1>5, <1>6, <1>7, <1>8

\* Of two places, one at most is taken.
LEMMA CountOfTwo ==
  ASSUME NEW A \in BOOLEAN, NEW B \in BOOLEAN, ~(A /\ B)
  PROVE  Cardinality((IF A THEN {1} ELSE {}) \union (IF B THEN {2} ELSE {}))
           = IF A \/ B THEN 1 ELSE 0
  <1>. DEFINE S == (IF A THEN {1} ELSE {}) \union (IF B THEN {2} ELSE {})
  <1>1. S = IF A THEN {1} ELSE IF B THEN {2} ELSE {}
    OBVIOUS
  <1>2. Cardinality({}) = 0 /\ Cardinality({1}) = 1 /\ Cardinality({2}) = 1
    BY FS_EmptySet, FS_Singleton
  <1>. QED
    BY <1>1, <1>2

\* Of three places, one at most is taken.
LEMMA CountOfThree ==
  ASSUME NEW A \in BOOLEAN, NEW B \in BOOLEAN, NEW C \in BOOLEAN,
         ~(A /\ B), ~(A /\ C), ~(B /\ C)
  PROVE  Cardinality((IF A THEN {1} ELSE {}) \union (IF B THEN {2} ELSE {})
                       \union (IF C THEN {3} ELSE {}))
           = IF A \/ B \/ C THEN 1 ELSE 0
  <1>. DEFINE S == (IF A THEN {1} ELSE {}) \union (IF B THEN {2} ELSE {})
                     \union (IF C THEN {3} ELSE {})
  <1>1. S = IF A THEN {1} ELSE IF B THEN {2} ELSE IF C THEN {3} ELSE {}
    OBVIOUS
  <1>2. /\ Cardinality({}) = 0 /\ Cardinality({1}) = 1
        /\ Cardinality({2}) = 1 /\ Cardinality({3}) = 1
    BY FS_EmptySet, FS_Singleton
  <1>. QED
    BY <1>1, <1>2
=============================================================================
