---------------------------- MODULE GraphBuilderProof ----------------------------
(***************************************************************************)
(* Theorems about BuildHash and GraphBuilder, for every plan.              *)
(***************************************************************************)
EXTENDS GraphBuilder, FoldLemmas

-----------------------------------------------------------------------------
(* The bytes hash_build feeds to the hasher.                               *)

LEMMA ChunksOfTexts ==
  ASSUME NEW texts \in Seq(Text)
  PROVE  /\ Chunks(texts) \in Seq(Seq(Text))
         /\ Len(Chunks(texts)) = Len(texts)
         /\ \A i \in 1 .. Len(texts) : Chunks(texts)[i] = <<texts[i]>>
<1>1. \A i \in 1 .. Len(texts) : texts[i] \in Text
  OBVIOUS
<1>2. \A t \in Text : <<t>> \in Seq(Text)
  OBVIOUS
<1>3. Chunks(texts) = [i \in 1 .. Len(texts) |-> <<texts[i]>>]
  BY DEF Chunks
<1> QED
  BY <1>1, <1>2, <1>3

LEMMA SameSeq ==
  ASSUME NEW S, NEW s \in Seq(S), NEW t \in Seq(S), Len(s) = Len(t),
         \A i \in 1 .. Len(s) : s[i] = t[i]
  PROVE  s = t
  OBVIOUS

LEMMA SameMethod ==
  ASSUME NEW m \in BuildMethods, NEW n \in BuildMethods,
         m.method = n.method, m.name = n.name, m.args = n.args
  PROVE  m = n
<1> DEFINE R == [method : {"subcmd", "callback", "phony"}, name : Text, args : Seq(Text)]
<1>1. m \in R /\ n \in R
  BY DEF BuildMethods
<1>2. /\ m = [method |-> m.method, name |-> m.name, args |-> m.args]
      /\ n = [method |-> n.method, name |-> n.name, args |-> n.args]
  BY <1>1
<1> QED
  BY <1>2

LEMMA ShortSeq ==
  ASSUME NEW S, NEW x \in S, NEW y \in S
  PROVE  /\ <<x>> \in Seq(S) /\ <<x, y>> \in Seq(S)
         /\ <<x, y>>[1] = x /\ <<x, y>>[2] = y /\ <<x>>[1] = x
  OBVIOUS

\* Concatenation by position.  Named, so that it is known by these facts only.
Cat(s, t) == s \o t

LEMMA CatSeq ==
  ASSUME NEW S, NEW s \in Seq(S), NEW t \in Seq(S)
  PROVE  Cat(s, t) \in Seq(S)
  BY DEF Cat

LEMMA CatLen ==
  ASSUME NEW S, NEW s \in Seq(S), NEW t \in Seq(S)
  PROVE  Len(Cat(s, t)) = Len(s) + Len(t)
  BY DEF Cat

LEMMA CatLeft ==
  ASSUME NEW S, NEW s \in Seq(S), NEW t \in Seq(S), NEW i \in 1 .. Len(s)
  PROVE  Cat(s, t)[i] = s[i]
  BY DEF Cat

LEMMA CatRight ==
  ASSUME NEW S, NEW s \in Seq(S), NEW t \in Seq(S), NEW i \in 1 .. Len(t)
  PROVE  Cat(s, t)[Len(s) + i] = t[i]
  BY DEF Cat

\* A sequence put together from two chunks and a list.
LEMMA TwoThenList ==
  ASSUME NEW S, NEW x \in S, NEW y \in S, NEW s \in Seq(S)
  PROVE  /\ Cat(<<x, y>>, s) \in Seq(S)
         /\ Len(Cat(<<x, y>>, s)) = 2 + Len(s)
         /\ Cat(<<x, y>>, s)[1] = x /\ Cat(<<x, y>>, s)[2] = y
<1> DEFINE head == <<x, y>>
<1>1. head \in Seq(S)
  OBVIOUS
<1>2. /\ Len(head) = 2 /\ head[1] = x /\ head[2] = y
      /\ 1 \in 1 .. Len(head) /\ 2 \in 1 .. Len(head)
  OBVIOUS
<1> HIDE DEF head
<1>3. Cat(head, s) \in Seq(S)
  BY <1>1, CatSeq
<1>4. Len(Cat(head, s)) = Len(head) + Len(s)
  BY <1>1, CatLen
<1>5. \A i \in 1 .. Len(head) : Cat(head, s)[i] = head[i]
  BY <1>1, CatLeft
<1> QED
  BY <1>2, <1>3, <1>4, <1>5 DEF head

\* The words a chunk is made of.
Word == Text \cup {"subcmd", "callback", "phony", "out"}

\* The bytes of a command with arguments, by position.
LEMMA SubCommandBytes ==
  ASSUME NEW m \in BuildMethods, m.method = "subcmd", NEW outs \in Seq(Text)
  PROVE  /\ Len(BuildBytes(m, outs)) = 3 + Len(m.args) + Len(outs)
         /\ BuildBytes(m, outs)[1] = <<"subcmd">>
         /\ BuildBytes(m, outs)[2] = <<m.name>>
         /\ \A i \in 1 .. Len(m.args) : BuildBytes(m, outs)[i + 2] = <<m.args[i]>>
         /\ BuildBytes(m, outs)[Len(m.args) + 3] = <<"out">>
         /\ \A i \in 1 .. Len(outs) :
              BuildBytes(m, outs)[Len(m.args) + 3 + i] = <<outs[i]>>
<1> DEFINE S == Seq(Word)
           A == Chunks(m.args)
           O == Chunks(outs)
           HA == Cat(<<<<"subcmd">>, <<m.name>>>>, A)
<1>1. m.args \in Seq(Text) /\ m.name \in Text
  BY DEF BuildMethods
<1>2. /\ A \in Seq(Seq(Text)) /\ Len(A) = Len(m.args)
      /\ \A i \in 1 .. Len(m.args) : A[i] = <<m.args[i]>>
  BY <1>1, ChunksOfTexts
<1>3. /\ O \in Seq(Seq(Text)) /\ Len(O) = Len(outs)
      /\ \A i \in 1 .. Len(outs) : O[i] = <<outs[i]>>
  BY ChunksOfTexts
<1>4. BuildBytes(m, outs) = Cat(Cat(HA, <<<<"out">>>>), O)
  BY DEF BuildBytes, Cat
<1>5. A \in Seq(S) /\ O \in Seq(S)
  <2>1. Text \subseteq Word
    BY DEF Word
  <2>2. Seq(Text) \subseteq S
    BY <2>1
  <2> HIDE DEF S
  <2> QED
    BY <1>2, <1>3, <2>2
<1>6. <<"subcmd">> \in S /\ <<m.name>> \in S /\ <<"out">> \in S
  BY <1>1, ShortSeq DEF Word
<1> HIDE DEF S, A, O
<1>7. /\ HA \in Seq(S) /\ Len(HA) = 2 + Len(A)
      /\ HA[1] = <<"subcmd">> /\ HA[2] = <<m.name>>
      /\ \A i \in 1 .. Len(A) : HA[2 + i] = A[i]
  <2> DEFINE x == <<"subcmd">>
             y == <<m.name>>
             all == Cat(<<x, y>>, A)
  <2>1. x \in S /\ y \in S /\ HA = all
    BY <1>6
  <2> HIDE DEF x, y
  <2>2. all \in Seq(S) /\ Len(all) = 2 + Len(A)
    BY <1>5, <2>1, TwoThenList
  <2>3. all[1] = x /\ all[2] = y
    BY <1>5, <2>1, TwoThenList
  <2>4. \A i \in 1 .. Len(A) : all[2 + i] = A[i]
    <3> DEFINE head == <<x, y>>
    <3>1. head \in Seq(S)
      BY <2>1
    <3>2. Len(head) = 2
      OBVIOUS
    <3> HIDE DEF head
    <3>3. \A i \in 1 .. Len(A) : Cat(head, A)[Len(head) + i] = A[i]
      BY <1>5, <3>1, CatRight
    <3> QED
      BY <3>2, <3>3 DEF head
  <2> HIDE DEF all
  <2> QED
    BY <2>1, <2>2, <2>3, <2>4 DEF x, y
<1> HIDE DEF HA
<1>8. /\ Len(BuildBytes(m, outs)) = Len(HA) + 1 + Len(O)
      /\ \A i \in 1 .. Len(HA) : BuildBytes(m, outs)[i] = HA[i]
      /\ BuildBytes(m, outs)[Len(HA) + 1] = <<"out">>
      /\ \A i \in 1 .. Len(O) : BuildBytes(m, outs)[Len(HA) + 1 + i] = O[i]
  <2> DEFINE mark == <<<<"out">>>>
             front == Cat(HA, mark)
             all == Cat(front, O)
  <2>1. BuildBytes(m, outs) = all
    BY <1>4
  <2>2. mark \in Seq(S)
    BY <1>6
  <2>3. Len(mark) = 1 /\ mark[1] = <<"out">> /\ 1 \in 1 .. Len(mark)
    OBVIOUS
  <2> HIDE DEF mark
  <2> HA \in Seq(S)
    BY <1>7
  <2>4. front \in Seq(S)
    BY <2>2, CatSeq
  <2>5. Len(front) = Len(HA) + Len(mark)
    BY <2>2, CatLen
  <2>6. \A i \in 1 .. Len(HA) : front[i] = HA[i]
    BY <2>2, CatLeft
  <2>7. \A i \in 1 .. Len(mark) : front[Len(HA) + i] = mark[i]
    BY <2>2, CatRight
  <2> HIDE DEF front
  <2>8. Len(all) = Len(front) + Len(O)
    BY <1>5, <2>4, CatLen
  <2>9. \A i \in 1 .. Len(front) : all[i] = front[i]
    BY <1>5, <2>4, CatLeft
  <2>10. \A i \in 1 .. Len(O) : all[Len(front) + i] = O[i]
    BY <1>5, <2>4, CatRight
  <2> HIDE DEF all
  <2>11. Len(HA) \in Nat /\ Len(front) = Len(HA) + 1
    BY <1>7, <2>3, <2>5
  <2>12. Len(HA) + 1 \in 1 .. Len(front) /\ \A i \in 1 .. Len(HA) : i \in 1 .. Len(front)
    BY <2>11
  <2>13. front[Len(HA) + 1] = <<"out">>
    BY <2>3, <2>7
  <2>14. \A i \in 1 .. Len(HA) : all[i] = HA[i]
    BY <2>6, <2>9, <2>12
  <2>15. all[Len(HA) + 1] = <<"out">>
    BY <2>9, <2>12, <2>13
  <2> QED
    BY <2>1, <2>8, <2>10, <2>11, <2>14, <2>15
<1>9. Len(A) \in Nat /\ Len(O) \in Nat
  BY <1>5
<1>10. \A i \in 1 .. Len(A) : BuildBytes(m, outs)[i + 2] = A[i]
  <2>1. TAKE i \in 1 .. Len(A)
  <2>2. 2 + i \in 1 .. Len(HA) /\ i + 2 = 2 + i
    BY <1>7, <1>9
  <2> QED
    BY <1>7, <1>8, <2>2
<1>11. Len(HA) + 1 = Len(m.args) + 3
  BY <1>2, <1>7, <1>9
<1>16. 1 \in 1 .. Len(HA) /\ 2 \in 1 .. Len(HA)
  BY <1>7, <1>9
<1> QED
  <2>1. Len(BuildBytes(m, outs)) = 3 + Len(m.args) + Len(outs)
    BY <1>2, <1>3, <1>7, <1>8, <1>9
  <2>2. BuildBytes(m, outs)[1] = <<"subcmd">> /\ BuildBytes(m, outs)[2] = <<m.name>>
    BY <1>7, <1>8, <1>16
  <2>3. \A i \in 1 .. Len(m.args) : BuildBytes(m, outs)[i + 2] = <<m.args[i]>>
    BY <1>2, <1>10
  <2>4. BuildBytes(m, outs)[Len(m.args) + 3] = <<"out">>
    BY <1>8, <1>11
  <2>5. \A i \in 1 .. Len(outs) : BuildBytes(m, outs)[Len(m.args) + 3 + i] = <<outs[i]>>
    BY <1>3, <1>8, <1>11
  <2> QED
    BY <2>1, <2>2, <2>3, <2>4, <2>5

\* The bytes of the other methods, by position.
LEMMA OtherBytes ==
  ASSUME NEW m \in BuildMethods, m.method # "subcmd", NEW outs \in Seq(Text)
  PROVE  /\ Len(BuildBytes(m, outs)) = 2 + Len(outs)
         /\ BuildBytes(m, outs)[1] = <<m.method>>
         /\ m.method = "callback" => BuildBytes(m, outs)[2] = <<m.name, "out">>
         /\ \A i \in 1 .. Len(outs) : BuildBytes(m, outs)[2 + i] = <<outs[i]>>
<1> DEFINE S == Seq(Word)
           O == Chunks(outs)
           second == IF m.method = "callback" THEN <<m.name, "out">> ELSE <<"out">>
<1>1. m.name \in Text /\ m.method \in {"callback", "phony"}
  BY DEF BuildMethods
<1>2. /\ O \in Seq(Seq(Text)) /\ Len(O) = Len(outs)
      /\ \A i \in 1 .. Len(outs) : O[i] = <<outs[i]>>
  BY ChunksOfTexts
<1>3. O \in Seq(S)
  <2>1. Text \subseteq Word
    BY DEF Word
  <2>2. Seq(Text) \subseteq S
    BY <2>1
  <2> HIDE DEF S
  <2> QED
    BY <1>2, <2>2
<1>4. BuildBytes(m, outs) = Cat(<<<<m.method>>, second>>, O)
  BY <1>1 DEF BuildBytes, Cat
<1>5. <<m.method>> \in S /\ second \in S
  BY <1>1, ShortSeq DEF Word
<1>6. m.method = "callback" => second = <<m.name, "out">>
  OBVIOUS
<1> HIDE DEF S, O, second
<1>7. /\ Len(BuildBytes(m, outs)) = 2 + Len(O)
      /\ BuildBytes(m, outs)[1] = <<m.method>> /\ BuildBytes(m, outs)[2] = second
      /\ \A i \in 1 .. Len(O) : BuildBytes(m, outs)[2 + i] = O[i]
  <2> DEFINE x == <<m.method>>
             all == Cat(<<x, second>>, O)
  <2>1. x \in S /\ BuildBytes(m, outs) = all
    BY <1>4, <1>5
  <2> HIDE DEF x
  <2>2. Len(all) = 2 + Len(O)
    BY <1>3, <1>5, <2>1, TwoThenList
  <2>3. all[1] = x /\ all[2] = second
    BY <1>3, <1>5, <2>1, TwoThenList
  <2>4. \A i \in 1 .. Len(O) : all[2 + i] = O[i]
    <3> DEFINE head == <<x, second>>
    <3>1. head \in Seq(S)
      BY <1>5, <2>1
    <3>2. Len(head) = 2
      OBVIOUS
    <3> HIDE DEF head
    <3>3. \A i \in 1 .. Len(O) : Cat(head, O)[Len(head) + i] = O[i]
      BY <1>3, <3>1, CatRight
    <3> QED
      BY <3>2, <3>3 DEF head
  <2> HIDE DEF all
  <2> QED
    BY <2>1, <2>2, <2>3, <2>4 DEF x
<1> QED
  BY <1>2, <1>6, <1>7

\* Where no argument is "out", the bytes tell command and outputs: the first
\* chunk "out" behind the arguments is where they end.
THEOREM BytesIdentify ==
  ASSUME NEW m \in BuildMethods, NEW n \in BuildMethods,
         NEW o \in Seq(Text), NEW p \in Seq(Text),
         "out" \notin Range(m.args), "out" \notin Range(n.args),
         BuildBytes(m, o) = BuildBytes(n, p)
  PROVE  m = n /\ o = p
<1>1. m.args \in Seq(Text) /\ n.args \in Seq(Text)
  BY DEF BuildMethods
<1>2. BuildBytes(m, o)[1] = <<m.method>> /\ BuildBytes(n, p)[1] = <<n.method>>
  BY SubCommandBytes, OtherBytes
<1>3. m.method = n.method
  BY <1>2
<1>4. CASE m.method = "subcmd"
  <2> DEFINE B == BuildBytes(m, o)
  <2>1. /\ Len(B) = 3 + Len(m.args) + Len(o)
        /\ B[2] = <<m.name>>
        /\ \A i \in 1 .. Len(m.args) : B[i + 2] = <<m.args[i]>>
        /\ B[Len(m.args) + 3] = <<"out">>
        /\ \A i \in 1 .. Len(o) : B[Len(m.args) + 3 + i] = <<o[i]>>
    BY <1>4, SubCommandBytes
  <2>2. /\ Len(B) = 3 + Len(n.args) + Len(p)
        /\ B[2] = <<n.name>>
        /\ \A i \in 1 .. Len(n.args) : B[i + 2] = <<n.args[i]>>
        /\ B[Len(n.args) + 3] = <<"out">>
        /\ \A i \in 1 .. Len(p) : B[Len(n.args) + 3 + i] = <<p[i]>>
    <3>1. n.method = "subcmd"
      BY <1>3, <1>4
    <3>2. B = BuildBytes(n, p)
      OBVIOUS
    <3> HIDE DEF B
    <3> QED
      BY <3>1, <3>2, SubCommandBytes
  <2> HIDE DEF B
  <2>3. Len(m.args) \in Nat /\ Len(n.args) \in Nat /\ Len(o) \in Nat /\ Len(p) \in Nat
    BY <1>1
  <2>4. \A i \in 1 .. Len(m.args) : m.args[i] # "out"
    BY <1>1 DEF Range
  <2>5. \A i \in 1 .. Len(n.args) : n.args[i] # "out"
    BY <1>1 DEF Range
  <2>6. Len(m.args) = Len(n.args)
    <3>1. ~ Len(m.args) < Len(n.args)
      <4>1. SUFFICES ASSUME Len(m.args) < Len(n.args) PROVE FALSE
        OBVIOUS
      <4>2. Len(m.args) + 1 \in 1 .. Len(n.args)
        BY <2>3, <4>1
      <4>3. B[(Len(m.args) + 1) + 2] = <<n.args[Len(m.args) + 1]>>
        BY <2>2, <4>2
      <4>4. (Len(m.args) + 1) + 2 = Len(m.args) + 3
        BY <2>3
      <4>5. <<n.args[Len(m.args) + 1]>> = <<"out">>
        BY <2>1, <4>3, <4>4
      <4> QED
        BY <2>5, <4>2, <4>5
    <3>2. ~ Len(n.args) < Len(m.args)
      <4>1. SUFFICES ASSUME Len(n.args) < Len(m.args) PROVE FALSE
        OBVIOUS
      <4>2. Len(n.args) + 1 \in 1 .. Len(m.args)
        BY <2>3, <4>1
      <4>3. B[(Len(n.args) + 1) + 2] = <<m.args[Len(n.args) + 1]>>
        BY <2>1, <4>2
      <4>4. (Len(n.args) + 1) + 2 = Len(n.args) + 3
        BY <2>3
      <4>5. <<m.args[Len(n.args) + 1]>> = <<"out">>
        BY <2>2, <4>3, <4>4
      <4> QED
        BY <2>4, <4>2, <4>5
    <3> QED
      BY <2>3, <3>1, <3>2
  <2>7. m.name = n.name
    BY <2>1, <2>2
  <2>8. m.args = n.args
    <3>1. \A i \in 1 .. Len(m.args) : <<m.args[i]>> = <<n.args[i]>>
      BY <2>1, <2>2, <2>6
    <3>2. \A i \in 1 .. Len(m.args) : m.args[i] = n.args[i]
      BY <3>1
    <3> QED
      BY <1>1, <2>6, <3>2, SameSeq
  <2>9. o = p
    <3>1. Len(o) = Len(p)
      BY <2>1, <2>2, <2>3, <2>6
    <3>2. \A i \in 1 .. Len(o) : <<o[i]>> = <<p[i]>>
      BY <2>1, <2>2, <2>6, <3>1
    <3>3. \A i \in 1 .. Len(o) : o[i] = p[i]
      BY <3>2
    <3> QED
      BY <3>1, <3>3
  <2> QED
    BY <1>3, <2>7, <2>8, <2>9, SameMethod
<1>5. CASE m.method # "subcmd"
  <2> DEFINE B == BuildBytes(m, o)
  <2>1. /\ Len(B) = 2 + Len(o)
        /\ m.method = "callback" => B[2] = <<m.name, "out">>
        /\ \A i \in 1 .. Len(o) : B[2 + i] = <<o[i]>>
    BY <1>5, OtherBytes
  <2>2. /\ Len(B) = 2 + Len(p)
        /\ n.method = "callback" => B[2] = <<n.name, "out">>
        /\ \A i \in 1 .. Len(p) : B[2 + i] = <<p[i]>>
    BY <1>3, <1>5, OtherBytes
  <2> HIDE DEF B
  <2>3. Len(o) = Len(p)
    BY <2>1, <2>2
  <2>4. o = p
    <3>1. \A i \in 1 .. Len(o) : <<o[i]>> = <<p[i]>>
      BY <2>1, <2>2, <2>3
    <3>2. \A i \in 1 .. Len(o) : o[i] = p[i]
      BY <3>1
    <3> QED
      BY <2>3, <3>2
  <2>5. m.name = n.name
    <3>1. CASE m.method = "callback"
      BY <1>3, <2>1, <2>2, <3>1
    <3>2. CASE m.method = "phony"
      BY <1>3, <3>2 DEF BuildMethods
    <3> QED
      BY <1>5, <3>1, <3>2 DEF BuildMethods
  <2>6. m.args = <<>> /\ n.args = <<>>
    BY <1>3, <1>5 DEF BuildMethods
  <2> QED
    BY <1>3, <2>4, <2>5, <2>6, SameMethod
<1> QED
  BY <1>4, <1>5

-----------------------------------------------------------------------------
(* The digest of hash_input_set: what FoldLeft accumulates.                *)

\* The places of p among the first k.
Places(p, paths, k) == {i \in 1 .. k : paths[i] = p}

\* What the digest of the first k has to be.
DigestAt(paths, k) ==
  [sum |-> [p \in Text |-> Cardinality(Places(p, paths, k))],
   xor |-> {p \in Text : Cardinality(Places(p, paths, k)) % 2 = 1},
   cnt |-> k]

\* One more place counts for its path.
LEMMA PlacesCounted ==
  ASSUME NEW paths \in Seq(Text), NEW k \in 1 .. Len(paths), NEW p \in Text
  PROVE  /\ Cardinality(Places(p, paths, k - 1)) \in Nat
         /\ Cardinality(Places(p, paths, k)) =
              Cardinality(Places(p, paths, k - 1)) + (IF p = paths[k] THEN 1 ELSE 0)
<1> DEFINE old == Places(p, paths, k - 1)
           new == Places(p, paths, k)
<1>1. IsFiniteSet(old) /\ Cardinality(old) \in Nat
  <2>1. IsFiniteSet(1 .. (k - 1)) /\ old \subseteq 1 .. (k - 1)
    BY FS_Interval DEF Places
  <2> QED BY <2>1, FS_Subset, FS_CardinalityType
<1>2. k \notin old /\ new = IF p = paths[k] THEN old \cup {k} ELSE old
  BY DEF Places
<1> HIDE DEF old, new
<1>3. p = paths[k] => Cardinality(old \cup {k}) = Cardinality(old) + 1
  BY <1>1, <1>2, FS_AddElement
<1> QED BY <1>1, <1>2, <1>3 DEF old, new

Digests == [sum : [Text -> Nat], xor : SUBSET Text, cnt : Nat]

LEMMA AccumulateTyped ==
  ASSUME NEW acc \in Digests, NEW p \in Text
  PROVE  /\ accumulate(acc, p) \in Digests
         /\ accumulate(acc, p) =
              [sum |-> [q \in Text |-> acc.sum[q] + (IF q = p THEN 1 ELSE 0)],
               xor |-> {q \in Text : (q \in acc.xor) <=> (q # p)},
               cnt |-> acc.cnt + 1]
<1>1. accumulate(acc, p) =
        [sum |-> [acc.sum EXCEPT ![p] = @ + 1],
         xor |-> (acc.xor \ {p}) \cup ({p} \ acc.xor),
         cnt |-> acc.cnt + 1]
  BY DEF accumulate
<1>2. [acc.sum EXCEPT ![p] = @ + 1] = [q \in Text |-> acc.sum[q] + (IF q = p THEN 1 ELSE 0)]
  BY DEF Digests
<1>3. (acc.xor \ {p}) \cup ({p} \ acc.xor) = {q \in Text : (q \in acc.xor) <=> (q # p)}
  BY DEF Digests
<1>4. [acc.sum EXCEPT ![p] = @ + 1] \in [Text -> Nat]
  BY DEF Digests
<1>5. (acc.xor \ {p}) \cup ({p} \ acc.xor) \in SUBSET Text /\ acc.cnt + 1 \in Nat
  BY DEF Digests
<1>6. accumulate(acc, p) \in Digests
  BY <1>1, <1>4, <1>5 DEF Digests
<1> QED BY <1>1, <1>2, <1>3, <1>6

\* Accumulating the next path takes the digest of k - 1 places to that of k.
LEMMA DigestSteps ==
  ASSUME NEW paths \in Seq(Text), NEW k \in 1 .. Len(paths),
         DigestAt(paths, k - 1) \in Digests
  PROVE  accumulate(DigestAt(paths, k - 1), paths[k]) = DigestAt(paths, k)
<1> DEFINE d == DigestAt(paths, k - 1)
           C(p) == Cardinality(Places(p, paths, k - 1))
           N(p) == Cardinality(Places(p, paths, k))
<1>1. paths[k] \in Text
  OBVIOUS
<1>2. accumulate(d, paths[k]) =
        [sum |-> [q \in Text |-> d.sum[q] + (IF q = paths[k] THEN 1 ELSE 0)],
         xor |-> {q \in Text : (q \in d.xor) <=> (q # paths[k])},
         cnt |-> d.cnt + 1]
  BY <1>1, AccumulateTyped
<1>3. /\ \A q \in Text : d.sum[q] = C(q) /\ (q \in d.xor <=> C(q) % 2 = 1)
      /\ d.cnt = k - 1
  BY DEF DigestAt
<1>4. \A q \in Text : C(q) \in Nat /\ N(q) = C(q) + (IF q = paths[k] THEN 1 ELSE 0)
  BY PlacesCounted
<1> HIDE DEF d, C, N
<1>5. \A q \in Text : d.sum[q] + (IF q = paths[k] THEN 1 ELSE 0) = N(q)
  BY <1>3, <1>4
<1>6. \A q \in Text : ((q \in d.xor) <=> (q # paths[k])) <=> N(q) % 2 = 1
  <2>1. \A i \in Nat : (i + 1) % 2 = 1 <=> ~(i % 2 = 1)
    OBVIOUS
  <2> TAKE q \in Text
  <2>2. CASE q = paths[k]
    BY <1>3, <1>4, <2>1, <2>2
  <2>3. CASE q # paths[k]
    BY <1>3, <1>4, <2>3
  <2> QED BY <2>2, <2>3
<1>7. d.cnt + 1 = k
  BY <1>3
<1>8. accumulate(d, paths[k]) = [sum |-> [q \in Text |-> N(q)],
                                 xor |-> {q \in Text : N(q) % 2 = 1}, cnt |-> k]
  BY <1>2, <1>5, <1>6, <1>7
<1> QED BY <1>8 DEF d, N, DigestAt

LEMMA DigestTyped ==
  ASSUME NEW paths \in Seq(Text), NEW k \in 0 .. Len(paths)
  PROVE  DigestAt(paths, k) \in Digests
<1>1. \A p \in Text : Cardinality(Places(p, paths, k)) \in Nat
  <2> TAKE p \in Text
  <2>1. IsFiniteSet(1 .. k) /\ Places(p, paths, k) \subseteq 1 .. k
    BY FS_Interval DEF Places
  <2> QED BY <2>1, FS_Subset, FS_CardinalityType
<1> QED BY <1>1 DEF DigestAt, Digests

\* The fold accumulates one place after another, the first one first.
LEMMA InputBytesAre ==
  ASSUME NEW paths \in Seq(Text)
  PROVE  InputBytes(paths) = DigestAt(paths, Len(paths))
<1> DEFINE n == Len(paths)
           S == DOMAIN paths
           C == [s \in SUBSET S |-> Max(s)]
           W == [i \in S |-> [acc \in Digests |-> accumulate(acc, paths[i])]]
           Is(g) == g = [s \in SUBSET S |->
                           IF s = {} THEN NoInputs
                           ELSE accumulate(g[s \ {Max(s)}], paths[Max(s)])]
<1>1. n \in Nat /\ S = 1 .. n /\ \A i \in S : paths[i] \in Text
  OBVIOUS
<1>2. IsFiniteSet(S)
  BY <1>1, FS_Interval
<1>3. /\ \A s \in SUBSET S : s # {} => Max(s) \in s
      /\ \A k \in S : Max(1 .. k) = k /\ (1 .. k) \ {k} = 1 .. (k - 1)
  <2> HIDE DEF n, S
  <2> QED BY <1>1, MaxIsLast
<1>4. W \in [S -> [Digests -> Digests]]
  <2> HIDE DEF S
  <2> QED BY <1>1, AccumulateTyped
<1>5. NoInputs \in Digests
  BY DEF NoInputs, Digests
<1>6. PICK g \in [SUBSET S -> Digests] : Folds(g, S, NoInputs, C, W)
  <2>1. Picks(C, S)
    BY <1>3 DEF Picks
  <2> HIDE DEF S, W, C
  <2> QED BY ONLY <1>2, <1>4, <1>5, <2>1, FoldExists
<1>7. ASSUME NEW s \in SUBSET S
      PROVE  g[s] = IF s = {} THEN NoInputs ELSE accumulate(g[s \ {Max(s)}], paths[Max(s)])
  <2>1. CASE s = {}
    BY <1>6, <2>1 DEF Folds
  <2>2. CASE s # {}
    <3>1. Max(s) \in S /\ s \ {Max(s)} \in SUBSET S /\ C[s] = Max(s)
      BY <1>3, <2>2
    <3>2. g[s \ {Max(s)}] \in Digests
      BY <3>1
    <3>3. g[s] = W[C[s]][g[s \ {C[s]}]]
      BY <1>6, <2>2 DEF Folds
    <3> QED
      <4> HIDE DEF S, C
      <4> QED BY <2>2, <3>1, <3>2, <3>3
  <2> QED BY <2>1, <2>2
<1>8. Is(g)
  <2> HIDE DEF S
  <2> QED BY <1>7
<1>9. InputBytes(paths) = (CHOOSE f : Is(f))[S]
  BY DEF InputBytes, FoldLeft, MapThenFoldSet
<1> PICK f : f = (CHOOSE h : Is(h))
  OBVIOUS
<1>10. Is(f)
  <2> HIDE DEF Is
  <2> QED BY <1>8
<1>11. \A s \in SUBSET S :
         f[s] = IF s = {} THEN NoInputs ELSE accumulate(f[s \ {Max(s)}], paths[Max(s)])
  <2> HIDE DEF S
  <2> QED BY <1>10
<1>12. f[1 .. 0] = DigestAt(paths, 0)
  <2>1. 1 .. 0 = {} /\ {} \in SUBSET S
    OBVIOUS
  <2>2. f[1 .. 0] = NoInputs
    <3> HIDE DEF S
    <3> QED BY <1>11, <2>1
  <2>3. \A p \in Text : Cardinality(Places(p, paths, 0)) = 0
    BY FS_EmptySet DEF Places
  <2>4. DigestAt(paths, 0) = NoInputs
    <3>1. {p \in Text : Cardinality(Places(p, paths, 0)) % 2 = 1} = {}
      BY <2>3
    <3> QED BY <2>3, <3>1 DEF NoInputs, DigestAt
  <2> QED BY ONLY <2>2, <2>4
<1>13. \A k \in 0 .. n : f[1 .. k] = DigestAt(paths, k)
  <2> DEFINE T == {k \in Nat : k <= n => f[1 .. k] = DigestAt(paths, k)}
  <2>1. 0 \in T
    BY <1>12
  <2>2. ASSUME NEW k \in T PROVE k + 1 \in T
    <3> SUFFICES ASSUME k + 1 <= n PROVE f[1 .. (k + 1)] = DigestAt(paths, k + 1)
      OBVIOUS
    <3> DEFINE m == k + 1
    <3>1. m \in S /\ m - 1 = k /\ f[1 .. k] = DigestAt(paths, k) /\ k \in 0 .. n
      BY <1>1
    <3> HIDE DEF m
    <3>2. 1 .. m \in SUBSET S /\ 1 .. m # {}
      <4>1. 1 .. m \subseteq 1 .. n /\ m \in 1 .. m
        BY <1>1, <3>1
      <4> HIDE DEF S, n
      <4> QED BY <1>1, <4>1
    <3>3. Max(1 .. m) = m /\ (1 .. m) \ {m} = 1 .. k
      BY <1>3, <3>1
    <3>4. f[1 .. m] = accumulate(f[1 .. k], paths[m])
      <4> HIDE DEF S
      <4> QED BY <1>11, <3>2, <3>3
    <3>5. accumulate(DigestAt(paths, m - 1), paths[m]) = DigestAt(paths, m)
      <4>1. DigestAt(paths, k) \in Digests
        BY <3>1, DigestTyped
      <4> QED BY <3>1, <4>1, DigestSteps
    <3>6. f[1 .. m] = DigestAt(paths, m)
      BY <3>1, <3>4, <3>5
    <3> QED BY <3>6 DEF m
  <2>3. T = Nat
    <3> HIDE DEF T
    <3>1. T \in SUBSET Nat
      BY DEF T
    <3> QED BY <2>1, <2>2, <3>1, NatSetInduction
  <2> SUFFICES ASSUME NEW k \in 0 .. n PROVE f[1 .. k] = DigestAt(paths, k)
    OBVIOUS
  <2>4. k \in T /\ k <= n
    <3> HIDE DEF T, n
    <3> QED BY <1>1, <2>3
  <2> HIDE DEF n
  <2> QED BY <2>4
<1> QED
  <2>1. n \in 0 .. n
    BY <1>1
  <2>2. S = 1 .. n
    BY <1>1
  <2>3. InputBytes(paths) = f[1 .. n]
    <3> HIDE DEF Is, n, S
    <3> QED BY <1>9, <2>2
  <2> HIDE DEF Is, S
  <2> QED BY <1>13, <2>1, <2>3

LEMMA OccurrencesArePlaces ==
  ASSUME NEW s \in Seq(Text), NEW p
  PROVE  /\ Occurrences(p, s) = Cardinality(Places(p, s, Len(s)))
         /\ Occurrences(p, s) \in Nat
<1>1. {i \in DOMAIN s : s[i] = p} = Places(p, s, Len(s))
  BY DEF Places
<1>2. IsFiniteSet(1 .. Len(s)) /\ Places(p, s, Len(s)) \subseteq 1 .. Len(s)
  BY FS_Interval DEF Places
<1>3. Cardinality(Places(p, s, Len(s))) \in Nat
  BY <1>2, FS_Subset, FS_CardinalityType
<1> QED BY <1>1, <1>3 DEF Occurrences

\* Sequences with each path as often are as long as each other.
LEMMA SameOccurrencesSameLength ==
  ASSUME NEW s \in Seq(Text), NEW t \in Seq(Text),
         \A p \in Text : Occurrences(p, s) = Occurrences(p, t)
  PROVE  Len(s) = Len(t)
<1> DEFINE R == Range(s) \cup Range(t)
           In(q, A) == {i \in DOMAIN q : q[i] \in A}
           P == {A \in SUBSET R : Cardinality(In(s, A)) = Cardinality(In(t, A))}
<1>1. /\ IsFiniteSet(DOMAIN s) /\ IsFiniteSet(DOMAIN t)
      /\ Cardinality(DOMAIN s) = Len(s) /\ Cardinality(DOMAIN t) = Len(t)
  <2>1. /\ DOMAIN s = 1 .. Len(s) /\ Len(s) \in Nat
        /\ DOMAIN t = 1 .. Len(t) /\ Len(t) \in Nat
    OBVIOUS
  <2>2. /\ IsFiniteSet(1 .. Len(s)) /\ Cardinality(1 .. Len(s)) = Len(s)
        /\ IsFiniteSet(1 .. Len(t)) /\ Cardinality(1 .. Len(t)) = Len(t)
    <3>1. ASSUME NEW n \in Nat PROVE IsFiniteSet(1 .. n) /\ Cardinality(1 .. n) = n
      <4>1. IsFiniteSet(1 .. n) /\ Cardinality(1 .. n) = IF 1 > n THEN 0 ELSE n - 1 + 1
        BY FS_Interval
      <4> QED BY <4>1
    <3> QED BY <2>1, <3>1
  <2> QED BY <2>1, <2>2
<1>2. IsFiniteSet(R)
  <2>1. s \in Surjection(DOMAIN s, Range(s)) /\ t \in Surjection(DOMAIN t, Range(t))
    BY DEF Surjection, Range
  <2>2. IsFiniteSet(Range(s)) /\ IsFiniteSet(Range(t))
    BY <1>1, <2>1, FS_Surjection
  <2> QED BY <2>2, FS_Union
<1>3. R \subseteq Text
  BY DEF Range
<1>4. ASSUME NEW q \in {s, t}, NEW A \in SUBSET R, NEW x \in R \ A
      PROVE  Cardinality(In(q, A \cup {x})) = Cardinality(In(q, A)) + Occurrences(x, q)
  <2> DEFINE old == In(q, A)
             new == {i \in DOMAIN q : q[i] = x}
  <2>1. old \subseteq DOMAIN q /\ new \subseteq DOMAIN q /\ IsFiniteSet(DOMAIN q)
    BY <1>1
  <2>2. old \cap new = {} /\ In(q, A \cup {x}) = old \cup new
    OBVIOUS
  <2>3. Cardinality(new) = Occurrences(x, q)
    BY DEF Occurrences
  <2> HIDE DEF old, new, In
  <2>4. /\ IsFiniteSet(old) /\ IsFiniteSet(new)
        /\ Cardinality(old) \in Nat /\ Cardinality(new) \in Nat
    BY <2>1, FS_Subset, FS_CardinalityType
  <2>5. Cardinality(old \cup new) = Cardinality(old) + Cardinality(new) - Cardinality(old \cap new)
    BY <2>4, FS_Union
  <2>6. Cardinality(old \cap new) = 0
    BY <2>2, FS_EmptySet
  <2>7. Cardinality(old \cup new) = Cardinality(old) + Cardinality(new)
    BY <2>4, <2>5, <2>6
  <2> QED BY <2>2, <2>3, <2>7 DEF old
<1>5. {} \in P
  <2>1. In(s, {}) = In(t, {})
    OBVIOUS
  <2> QED BY <2>1
<1>6. ASSUME NEW A \in P, NEW x \in R \ A PROVE A \cup {x} \in P
  <2>1. A \in SUBSET R /\ Cardinality(In(s, A)) = Cardinality(In(t, A))
    OBVIOUS
  <2>2. Occurrences(x, s) = Occurrences(x, t)
    BY <1>3
  <2>3. /\ Cardinality(In(s, A \cup {x})) = Cardinality(In(s, A)) + Occurrences(x, s)
        /\ Cardinality(In(t, A \cup {x})) = Cardinality(In(t, A)) + Occurrences(x, t)
    BY <1>4, <2>1
  <2> HIDE DEF R, In
  <2> QED BY <2>1, <2>2, <2>3
<1>7. R \in P
  <2> HIDE DEF R, P
  <2>1. P \in SUBSET SUBSET R
    BY DEF P
  <2>2. P = SUBSET R
    BY <1>2, <1>5, <1>6, <2>1, SubsetInduction
  <2> QED BY <2>2
<1>8. In(s, R) = DOMAIN s /\ In(t, R) = DOMAIN t
  BY DEF Range
<1>9. Cardinality(In(s, R)) = Cardinality(In(t, R))
  BY <1>7
<1> QED BY <1>1, <1>8, <1>9

\* Digests are equal exactly if each path was accumulated as often.
THEOREM DigestCountsPaths ==
  ASSUME NEW s \in Seq(Text), NEW t \in Seq(Text)
  PROVE  InputBytes(s) = InputBytes(t)
           <=> \A p \in Text : Occurrences(p, s) = Occurrences(p, t)
<1> DEFINE count(q) == [p \in Text |-> Cardinality(Places(p, q, Len(q)))]
           odd(q) == {p \in Text : Cardinality(Places(p, q, Len(q))) % 2 = 1}
<1>1. \A q \in {s, t} : InputBytes(q) = [sum |-> count(q), xor |-> odd(q), cnt |-> Len(q)]
  BY InputBytesAre DEF DigestAt
<1>2. \A q \in {s, t} : \A p \in Text :
        /\ count(q)[p] = Occurrences(p, q)
        /\ p \in odd(q) <=> Occurrences(p, q) % 2 = 1
  BY OccurrencesArePlaces
<1>3. \A q \in {s, t} : count(q) = [p \in Text |-> count(q)[p]] /\ odd(q) \subseteq Text
  OBVIOUS
<1> HIDE DEF count, odd
<1>4. ASSUME InputBytes(s) = InputBytes(t), NEW p \in Text
      PROVE  Occurrences(p, s) = Occurrences(p, t)
  <2>1. count(s) = count(t)
    BY <1>1, <1>4
  <2> QED BY <1>2, <2>1
<1>5. ASSUME \A p \in Text : Occurrences(p, s) = Occurrences(p, t)
      PROVE  InputBytes(s) = InputBytes(t)
  <2>1. count(s) = count(t)
    <3>1. \A p \in Text : count(s)[p] = count(t)[p]
      BY <1>2, <1>5
    <3>2. [p \in Text |-> count(s)[p]] = [p \in Text |-> count(t)[p]]
      BY <3>1
    <3> QED BY <1>3, <3>2
  <2>2. odd(s) = odd(t)
    BY <1>2, <1>3, <1>5
  <2>3. Len(s) = Len(t)
    BY <1>5, SameOccurrencesSameLength
  <2> QED BY <1>1, <2>1, <2>2, <2>3
<1> QED BY <1>4, <1>5

\* Behind each other, sequences have a path as often as both together.
LEMMA OccurrencesAdd ==
  ASSUME NEW s \in Seq(Text), NEW t \in Seq(Text), NEW p \in Text
  PROVE  Occurrences(p, s \o t) = Occurrences(p, s) + Occurrences(p, t)
<1> DEFINE n == Len(s)
           r == s \o t
           C(q, k) == Cardinality(Places(p, q, k))
           T == {k \in Nat : k <= Len(t) => C(r, n + k) = C(s, n) + C(t, k)}
<1>1. /\ r \in Seq(Text) /\ Len(r) = n + Len(t) /\ n \in Nat /\ Len(t) \in Nat
      /\ \A i \in 1 .. n : r[i] = s[i]
      /\ \A i \in 1 .. Len(t) : r[n + i] = t[i]
  OBVIOUS
<1>2. C(s, n) = Occurrences(p, s) /\ C(s, n) \in Nat
  BY OccurrencesArePlaces
<1>3. C(t, Len(t)) = Occurrences(p, t) /\ C(r, Len(r)) = Occurrences(p, r)
  <2> HIDE DEF r
  <2> QED BY <1>1, OccurrencesArePlaces
<1>4. 0 \in T
  <2>1. Places(p, r, n + 0) = Places(p, s, n)
    <3> HIDE DEF r, n
    <3> QED BY <1>1 DEF Places
  <2>2. C(t, 0) = 0
    BY FS_EmptySet DEF Places
  <2> HIDE DEF n, r
  <2> QED BY <1>2, <2>1, <2>2
<1>5. ASSUME NEW k \in T PROVE k + 1 \in T
  <2> SUFFICES ASSUME k + 1 <= Len(t) PROVE C(r, n + (k + 1)) = C(s, n) + C(t, k + 1)
    OBVIOUS
  <2> DEFINE m == n + (k + 1)
             j == k + 1
  <2>1. k \in Nat /\ C(r, n + k) = C(s, n) + C(t, k)
    BY <1>1
  <2>2. m \in 1 .. Len(r) /\ m - 1 = n + k /\ j \in 1 .. Len(t) /\ j - 1 = k
    BY <1>1, <2>1
  <2>3. r[m] = t[j]
    BY <1>1, <2>2
  <2> HIDE DEF m, j, r
  <2>4. C(r, m) = C(r, m - 1) + (IF p = r[m] THEN 1 ELSE 0)
    BY <1>1, <2>2, PlacesCounted
  <2>5. C(t, j - 1) \in Nat /\ C(t, j) = C(t, j - 1) + (IF p = t[j] THEN 1 ELSE 0)
    BY <2>2, PlacesCounted
  <2> HIDE DEF C, n
  <2>6. C(r, m) = C(s, n) + C(t, j)
    BY <1>2, <2>1, <2>2, <2>3, <2>4, <2>5
  <2> QED BY <2>6 DEF m, j
<1>6. T = Nat
  <2> HIDE DEF T
  <2>1. T \in SUBSET Nat
    BY DEF T
  <2> QED BY <1>4, <1>5, <2>1, NatSetInduction
<1>7. C(r, n + Len(t)) = C(s, n) + C(t, Len(t))
  <2> HIDE DEF r, n, C
  <2> QED BY <1>1, <1>6
<1> HIDE DEF r, n, C
<1> QED BY <1>1, <1>2, <1>3, <1>7 DEF r

-----------------------------------------------------------------------------
(* Types.                                                                  *)

LEMMA SeqMono ==
  ASSUME NEW S, NEW T, S \subseteq T
  PROVE  Seq(S) \subseteq Seq(T)
  OBVIOUS

LEMMA PlanTyped ==
  ASSUME plan \in Plans, NEW b \in Build
  PROVE  /\ plan[b].command \in BuildMethods
         /\ plan[b].ins \in Seq(Text) /\ plan[b].outs \in Seq(Text)
         /\ plan[b].deps \subseteq Build
  BY PlansAssumption DEF IsPlan

LEMMA IndexOfKnown ==
  ASSUME NEW p, Known(p), files \in Seq(Text)
  PROVE  IndexOf(p) \in DOMAIN files /\ files[IndexOf(p)] = p
<1>1. \E i \in DOMAIN files : files[i] = p
  BY DEF Known, Range
<1> QED
  BY <1>1 DEF IndexOf

\* The ids of paths that were added are ids of files.
LEMMA FileIdsTyped ==
  ASSUME NEW paths \in Seq(Text), fid \in [Text -> {0} \cup DOMAIN files],
         \A p \in Range(paths) : fid[p] # 0
  PROVE  FileIds(paths) \in Seq(DOMAIN files)
<1>1. \A i \in 1 .. Len(paths) : paths[i] \in Text /\ fid[paths[i]] # 0
  BY DEF Range
<1>2. FileIds(paths) = [i \in 1 .. Len(paths) |-> fid[paths[i]]]
  BY DEF FileIds
<1>3. \A i \in 1 .. Len(paths) : fid[paths[i]] \in DOMAIN files
  BY <1>1
<1> QED
  BY <1>2, <1>3

NodesOver(D) == [command : BuildMethods, ins : Seq(D), outs : Seq(D)]

LEMMA GTypeInit ==
  GInit => GTypeOK
<1> SUFFICES ASSUME GInit PROVE GTypeOK
  OBVIOUS
<1> USE DEF GInit
<1>1. files \in Seq(Text) /\ \A i, j \in DOMAIN files : files[i] = files[j] => i = j
  OBVIOUS
<1>2. nodes \in Seq(NodesOver(DOMAIN files))
  OBVIOUS
<1>3. edges \in Seq(Seq(DOMAIN nodes)) /\ Len(edges) = Len(nodes)
  OBVIOUS
<1>4. fid \in [Text -> {0} \cup DOMAIN files] /\ bid \in [Build -> {0} \cup DOMAIN nodes]
  OBVIOUS
<1> QED
  BY <1>1, <1>2, <1>3, <1>4 DEF GTypeOK, NodesOver

LEMMA GTypeStep ==
  GTypeOK /\ [GNext]_gvars => GTypeOK'
<1> SUFFICES ASSUME GTypeOK, [GNext]_gvars PROVE GTypeOK'
  OBVIOUS
<1>0. /\ plan \in Plans /\ files \in Seq(Text)
      /\ \A i, j \in DOMAIN files : files[i] = files[j] => i = j
      /\ nodes \in Seq(NodesOver(DOMAIN files))
      /\ edges \in Seq(Seq(DOMAIN nodes)) /\ Len(edges) = Len(nodes)
      /\ fid \in [Text -> {0} \cup DOMAIN files]
      /\ bid \in [Build -> {0} \cup DOMAIN nodes]
      /\ state \in {"building", "built", "rejected"}
  BY DEF GTypeOK, NodesOver
<1>1. ASSUME NEW p \in Text, AddFile(p) PROVE GTypeOK'
  <2>1. CASE Known(p)
    <3>1. IndexOf(p) \in DOMAIN files
      BY <1>0, <2>1, IndexOfKnown
    <3>2. UNCHANGED <<plan, files, nodes, edges, bid, state>>
      BY <1>1, <2>1 DEF AddFile
    <3>3. fid' \in [Text -> {0} \cup DOMAIN files]
      BY <1>0, <1>1, <2>1, <3>1 DEF AddFile
    <3> QED
      BY <1>0, <3>2, <3>3 DEF GTypeOK, NodesOver
  <2>2. CASE ~ Known(p)
    <3>1. /\ files' = Append(files, p)
          /\ fid' = [fid EXCEPT ![p] = Len(files) + 1]
          /\ UNCHANGED <<plan, nodes, edges, bid, state>>
      BY <1>1, <2>2 DEF AddFile
    <3>2. /\ files' \in Seq(Text) /\ Len(files') = Len(files) + 1
          /\ DOMAIN files' = DOMAIN files \cup {Len(files) + 1}
          /\ \A i \in DOMAIN files : files'[i] = files[i]
          /\ files'[Len(files) + 1] = p
      BY <1>0, <3>1
    <3>3. \A i \in DOMAIN files : files[i] # p
      BY <2>2 DEF Known, Range
    <3>4. \A i, j \in DOMAIN files' : files'[i] = files'[j] => i = j
      BY <1>0, <3>2, <3>3
    <3>5. Seq(DOMAIN files) \subseteq Seq(DOMAIN files')
      BY <3>2, SeqMono
    <3>6. NodesOver(DOMAIN files) \subseteq NodesOver(DOMAIN files')
      BY <3>5 DEF NodesOver
    <3>7. nodes \in Seq(NodesOver(DOMAIN files'))
      <4>1. Seq(NodesOver(DOMAIN files)) \subseteq Seq(NodesOver(DOMAIN files'))
        BY <3>6, SeqMono
      <4> QED
        BY <1>0, <4>1
    <3>8. fid' \in [Text -> {0} \cup DOMAIN files']
      BY <1>0, <3>1, <3>2
    <3> QED
      BY <1>0, <3>1, <3>2, <3>4, <3>7, <3>8 DEF GTypeOK, NodesOver
  <2> QED
    BY <2>1, <2>2
<1>2. ASSUME NEW b \in Build, AddBuild(b) PROVE GTypeOK'
  <2> DEFINE node == [command |-> plan[b].command, ins |-> FileIds(plan[b].ins),
                      outs |-> FileIds(plan[b].outs)]
  <2>1. /\ nodes' = Append(nodes, node) /\ edges' = Append(edges, <<>>)
        /\ bid' = [bid EXCEPT ![b] = Len(nodes) + 1]
        /\ UNCHANGED <<plan, files, fid, state>>
    BY <1>2 DEF AddBuild
  <2>2. node \in NodesOver(DOMAIN files)
    <3>1. /\ \A p \in Range(plan[b].ins) : fid[p] # 0
          /\ \A p \in Range(plan[b].outs) : fid[p] # 0
      BY <1>2 DEF AddBuild, Paths
    <3>2. /\ plan[b].command \in BuildMethods
          /\ plan[b].ins \in Seq(Text) /\ plan[b].outs \in Seq(Text)
      BY <1>0, PlanTyped
    <3>3. FileIds(plan[b].ins) \in Seq(DOMAIN files)
      BY <1>0, <3>1, <3>2, FileIdsTyped
    <3>4. FileIds(plan[b].outs) \in Seq(DOMAIN files)
      BY <1>0, <3>1, <3>2, FileIdsTyped
    <3> QED
      BY <3>2, <3>3, <3>4 DEF NodesOver
  <2> HIDE DEF node
  <2>3. /\ nodes' \in Seq(NodesOver(DOMAIN files)) /\ Len(nodes') = Len(nodes) + 1
        /\ DOMAIN nodes' = DOMAIN nodes \cup {Len(nodes) + 1}
    BY <1>0, <2>1, <2>2
  <2>4. Seq(DOMAIN nodes) \subseteq Seq(DOMAIN nodes')
    BY <2>3, SeqMono
  <2>5. edges \in Seq(Seq(DOMAIN nodes'))
    <3>1. Seq(Seq(DOMAIN nodes)) \subseteq Seq(Seq(DOMAIN nodes'))
      BY <2>4, SeqMono
    <3> QED
      BY <1>0, <3>1
  <2>6. edges' \in Seq(Seq(DOMAIN nodes')) /\ Len(edges') = Len(nodes')
    <3>1. <<>> \in Seq(DOMAIN nodes')
      OBVIOUS
    <3> QED
      BY <1>0, <2>1, <2>3, <2>5, <3>1
  <2>7. bid' \in [Build -> {0} \cup DOMAIN nodes']
    BY <1>0, <2>1, <2>3
  <2> QED
    BY <1>0, <2>1, <2>3, <2>6, <2>7 DEF GTypeOK, NodesOver
<1>3. ASSUME NEW b \in Build, NEW d \in Build, AddBuildDep(b, d) PROVE GTypeOK'
  <2>1. /\ bid[b] \in DOMAIN nodes /\ bid[d] \in DOMAIN nodes
        /\ UNCHANGED <<plan, files, nodes, fid, bid, state>>
    BY <1>0, <1>3 DEF AddBuildDep, ids
  <2>2. edges[bid[b]] \in Seq(DOMAIN nodes) /\ bid[b] \in DOMAIN edges
    BY <1>0, <2>1
  <2>3. edges' \in Seq(Seq(DOMAIN nodes)) /\ Len(edges') = Len(edges)
    <3> DEFINE D == DOMAIN nodes
    <3>1. Append(edges[bid[b]], bid[d]) \in Seq(D)
      BY <2>1, <2>2
    <3>2. edges' = edges \/ edges' = [edges EXCEPT ![bid[b]] = Append(edges[bid[b]], bid[d])]
      BY <1>3 DEF AddBuildDep
    <3>3. edges \in Seq(Seq(D))
      BY <1>0
    <3> HIDE DEF D
    <3> DEFINE SD == Seq(D)
               new == Append(edges[bid[b]], bid[d])
    <3>4. new \in SD /\ edges \in Seq(SD)
      BY <3>1, <3>3
    <3>5. edges' = edges \/ edges' = [edges EXCEPT ![bid[b]] = new]
      BY <3>2
    <3> HIDE DEF SD, new
    <3>6. edges' \in Seq(SD) /\ Len(edges') = Len(edges)
      BY <2>2, <3>4, <3>5
    <3> QED
      BY <3>6 DEF SD, D
  <2> QED
    BY <1>0, <2>1, <2>3 DEF GTypeOK, NodesOver
<1>4. ASSUME Finish PROVE GTypeOK'
  <2>1. UNCHANGED <<plan, files, nodes, edges, fid, bid>>
    BY <1>4 DEF Finish, ids
  <2>2. state' \in {"building", "built", "rejected"}
    BY <1>4 DEF Finish
  <2> QED
    BY <1>0, <2>1, <2>2 DEF GTypeOK, NodesOver
<1>5. ASSUME UNCHANGED gvars PROVE GTypeOK'
  BY <1>0, <1>5 DEF GTypeOK, NodesOver, gvars, ids
<1> QED
  BY <1>1, <1>2, <1>3, <1>4, <1>5 DEF GNext

\* The builder's types, and that no path has two ids.
THEOREM GTypesHold ==
  GSpec => []GTypeOK
  BY GTypeInit, GTypeStep, PTL DEF GSpec

-----------------------------------------------------------------------------
(* Ids stand for what they were given for: the inductive invariant.        *)

FidsFaithful == \A p \in Text : fid[p] # 0 => files[fid[p]] = p

NodesFaithful ==
  \A b \in Added : /\ Node(b).command = plan[b].command
                   /\ PathsOf(Node(b).ins) = plan[b].ins
                   /\ PathsOf(Node(b).outs) = plan[b].outs

Faithful == FidsFaithful /\ NodesFaithful

LEMMA NodeTyped ==
  ASSUME GTypeOK, NEW b \in Added
  PROVE  Node(b).ins \in Seq(DOMAIN files) /\ Node(b).outs \in Seq(DOMAIN files)
<1> DEFINE N == NodesOver(DOMAIN files)
<1>1. nodes \in Seq(N) /\ bid[b] \in DOMAIN nodes
  BY DEF GTypeOK, NodesOver, Added
<1> HIDE DEF N
<1>2. nodes[bid[b]] \in N
  BY <1>1
<1> QED
  BY <1>2 DEF N, NodesOver, Node

\* Adding a file leaves the paths of older ids alone.
LEMMA PathsOfKept ==
  ASSUME NEW q \in Seq(DOMAIN files),
         \A i \in DOMAIN files : files'[i] = files[i]
  PROVE  [i \in DOMAIN q |-> files'[q[i]]] = PathsOf(q)
<1>1. \A i \in DOMAIN q : q[i] \in DOMAIN files
  OBVIOUS
<1> QED
  BY <1>1 DEF PathsOf

\* The ids of paths are the paths' own.
LEMMA FileIdsFaithful ==
  ASSUME FidsFaithful, NEW paths \in Seq(Text), \A p \in Range(paths) : fid[p] # 0
  PROVE  PathsOf(FileIds(paths)) = paths
<1>1. \A i \in 1 .. Len(paths) : paths[i] \in Text /\ fid[paths[i]] # 0
  BY DEF Range
<1>2. FileIds(paths) = [i \in 1 .. Len(paths) |-> fid[paths[i]]]
  BY DEF FileIds
<1>3. PathsOf(FileIds(paths)) = [i \in 1 .. Len(paths) |-> files[fid[paths[i]]]]
  BY <1>2 DEF PathsOf
<1>4. \A i \in 1 .. Len(paths) : files[fid[paths[i]]] = paths[i]
  BY <1>1 DEF FidsFaithful
<1>5. paths = [i \in 1 .. Len(paths) |-> paths[i]]
  OBVIOUS
<1> QED
  BY <1>3, <1>4, <1>5

LEMMA FaithfulStep ==
  GTypeOK /\ Faithful /\ [GNext]_gvars => Faithful'
<1> SUFFICES ASSUME GTypeOK, Faithful, [GNext]_gvars PROVE Faithful'
  OBVIOUS
<1>0. /\ plan \in Plans /\ files \in Seq(Text)
      /\ nodes \in Seq(NodesOver(DOMAIN files))
      /\ fid \in [Text -> {0} \cup DOMAIN files]
      /\ bid \in [Build -> {0} \cup DOMAIN nodes]
  BY DEF GTypeOK, NodesOver
<1>1. FidsFaithful /\ NodesFaithful
  BY DEF Faithful
<1>2. \A b \in Added : Node(b).ins \in Seq(DOMAIN files) /\ Node(b).outs \in Seq(DOMAIN files)
  BY NodeTyped
<1>3. ASSUME NEW p \in Text, AddFile(p) PROVE Faithful'
  <2>1. UNCHANGED <<plan, nodes, bid>>
    BY <1>3 DEF AddFile
  <2>2. \A i \in DOMAIN files : files'[i] = files[i]
    <3>1. files' = files \/ files' = Append(files, p)
      BY <1>3 DEF AddFile
    <3> QED
      BY <1>0, <3>1
  <2>3. FidsFaithful'
    <3>1. CASE Known(p)
      <4>1. files' = files /\ fid' = [fid EXCEPT ![p] = IndexOf(p)]
        BY <1>3, <3>1 DEF AddFile
      <4>2. files[IndexOf(p)] = p
        BY <1>0, <3>1, IndexOfKnown
      <4> QED
        BY <1>0, <1>1, <4>1, <4>2 DEF FidsFaithful
    <3>2. CASE ~ Known(p)
      <4>1. files' = Append(files, p) /\ fid' = [fid EXCEPT ![p] = Len(files) + 1]
        BY <1>3, <3>2 DEF AddFile
      <4>2. files'[Len(files) + 1] = p
        BY <1>0, <4>1
      <4>3. SUFFICES ASSUME NEW q \in Text, fid'[q] # 0 PROVE files'[fid'[q]] = q
        BY DEF FidsFaithful
      <4>4. CASE q = p
        BY <1>0, <4>1, <4>2, <4>4
      <4>5. CASE q # p
        <5>1. fid'[q] = fid[q] /\ fid[q] \in DOMAIN files /\ files[fid[q]] = q
          BY <1>0, <1>1, <4>1, <4>3, <4>5 DEF FidsFaithful
        <5> QED
          BY <2>2, <5>1
      <4> QED
        BY <4>4, <4>5
    <3> QED
      BY <3>1, <3>2
  <2>4. NodesFaithful'
    <3>1. SUFFICES ASSUME NEW b \in Added
                   PROVE  /\ Node(b).command = plan[b].command
                          /\ [i \in DOMAIN Node(b).ins |-> files'[Node(b).ins[i]]] = plan[b].ins
                          /\ [i \in DOMAIN Node(b).outs |-> files'[Node(b).outs[i]]] = plan[b].outs
      BY <2>1 DEF NodesFaithful, Added, Node, PathsOf
    <3> QED
      BY <1>1, <1>2, <2>2, PathsOfKept DEF NodesFaithful
  <2> QED
    BY <2>3, <2>4 DEF Faithful
<1>4. ASSUME NEW b \in Build, AddBuild(b) PROVE Faithful'
  <2> DEFINE node == [command |-> plan[b].command, ins |-> FileIds(plan[b].ins),
                      outs |-> FileIds(plan[b].outs)]
  <2>1. /\ nodes' = Append(nodes, node) /\ bid[b] = 0
        /\ bid' = [bid EXCEPT ![b] = Len(nodes) + 1]
        /\ UNCHANGED <<plan, files, fid>>
    BY <1>4 DEF AddBuild
  <2>2. /\ node.command = plan[b].command
        /\ PathsOf(node.ins) = plan[b].ins /\ PathsOf(node.outs) = plan[b].outs
    <3>1. /\ \A p \in Range(plan[b].ins) : fid[p] # 0
          /\ \A p \in Range(plan[b].outs) : fid[p] # 0
      BY <1>4 DEF AddBuild, Paths
    <3>2. plan[b].ins \in Seq(Text) /\ plan[b].outs \in Seq(Text)
      BY <1>0, PlanTyped
    <3>3. PathsOf(FileIds(plan[b].ins)) = plan[b].ins
      BY <1>1, <3>1, <3>2, FileIdsFaithful
    <3>4. PathsOf(FileIds(plan[b].outs)) = plan[b].outs
      BY <1>1, <3>1, <3>2, FileIdsFaithful
    <3> QED
      BY <3>3, <3>4
  <2> HIDE DEF node
  <2>3. /\ nodes'[Len(nodes) + 1] = node
        /\ \A i \in DOMAIN nodes : nodes'[i] = nodes[i]
    BY <1>0, <2>1
  <2>4. FidsFaithful'
    BY <1>1, <2>1 DEF FidsFaithful
  <2>5. NodesFaithful'
    <3> DEFINE Now(q) == [i \in DOMAIN q |-> files'[q[i]]]
    <3>1. SUFFICES ASSUME NEW c \in Build, bid'[c] # 0
                   PROVE  /\ nodes'[bid'[c]].command = plan[c].command
                          /\ Now(nodes'[bid'[c]].ins) = plan[c].ins
                          /\ Now(nodes'[bid'[c]].outs) = plan[c].outs
      BY <2>1 DEF NodesFaithful, Added, Node, PathsOf
    <3>2. \A q : Now(q) = PathsOf(q)
      BY <2>1 DEF PathsOf
    <3> HIDE DEF Now
    <3>3. CASE c = b
      <4>1. nodes'[bid'[c]] = node
        BY <1>0, <2>1, <2>3, <3>3
      <4> QED
        BY <2>2, <3>3, <3>2, <4>1
    <3>4. CASE c # b
      <4>1. bid'[c] = bid[c] /\ c \in Added /\ bid[c] \in DOMAIN nodes
        BY <1>0, <2>1, <3>1, <3>4 DEF Added
      <4>2. nodes'[bid'[c]] = Node(c)
        BY <2>3, <4>1 DEF Node
      <4> QED
        BY <1>1, <3>2, <4>1, <4>2 DEF NodesFaithful
    <3> QED
      BY <3>3, <3>4
  <2> QED
    BY <2>4, <2>5 DEF Faithful
<1>5. ASSUME UNCHANGED <<plan, files, nodes, fid, bid>> PROVE Faithful'
  BY <1>1, <1>5 DEF Faithful, FidsFaithful, NodesFaithful, Added, Node, PathsOf
<1>6. ASSUME NEW b \in Build, NEW d \in Build, AddBuildDep(b, d) PROVE Faithful'
  BY <1>5, <1>6 DEF AddBuildDep, ids
<1>7. ASSUME Finish PROVE Faithful'
  BY <1>5, <1>7 DEF Finish, ids
<1>8. ASSUME UNCHANGED gvars PROVE Faithful'
  BY <1>5, <1>8 DEF gvars, ids
<1> QED
  BY <1>3, <1>4, <1>6, <1>7, <1>8 DEF GNext

\* Ids stand for what they were given for.
THEOREM IdsStandForPaths ==
  GSpec => [](GTypeOK /\ Faithful)
<1>1. GInit => Faithful
  BY DEF GInit, Faithful, FidsFaithful, NodesFaithful, Added
<1> QED
  BY <1>1, GTypeInit, GTypeStep, FaithfulStep, PTL DEF GSpec

\* Two places have the same FileId exactly if the plan has the same path there.
THEOREM IdsAreFaithful ==
  GSpec => []IdsFaithful
<1>1. ASSUME GTypeOK, Faithful PROVE IdsFaithful
  <2>1. SUFFICES ASSUME NEW b \in Added, NEW c \in Added,
                        NEW i \in DOMAIN plan[b].ins, NEW j \in DOMAIN plan[c].outs
                 PROVE  Node(b).ins[i] = Node(c).outs[j] <=> plan[b].ins[i] = plan[c].outs[j]
    BY DEF IdsFaithful
  <2>2. /\ files \in Seq(Text)
        /\ \A k, l \in DOMAIN files : files[k] = files[l] => k = l
        /\ nodes \in Seq(NodesOver(DOMAIN files))
        /\ bid \in [Build -> {0} \cup DOMAIN nodes]
    BY <1>1 DEF GTypeOK, NodesOver
  <2>3. Node(b).ins \in Seq(DOMAIN files) /\ Node(c).outs \in Seq(DOMAIN files)
    BY <1>1, NodeTyped
  <2>4. PathsOf(Node(b).ins) = plan[b].ins /\ PathsOf(Node(c).outs) = plan[c].outs
    BY <1>1, <2>1 DEF Faithful, NodesFaithful
  <2> DEFINE I == Node(b).ins
             O == Node(c).outs
  <2>5. i \in DOMAIN I /\ plan[b].ins[i] = files[I[i]]
    BY <2>4 DEF PathsOf
  <2>6. j \in DOMAIN O /\ plan[c].outs[j] = files[O[j]]
    BY <2>4 DEF PathsOf
  <2>7. I \in Seq(DOMAIN files) /\ O \in Seq(DOMAIN files)
    BY <2>3
  <2> HIDE DEF I, O
  <2>8. I[i] \in DOMAIN files /\ O[j] \in DOMAIN files
    BY <2>5, <2>6, <2>7
  <2>9. I[i] = O[j] <=> files[I[i]] = files[O[j]]
    BY <2>2, <2>8
  <2> QED
    BY <2>5, <2>6, <2>9 DEF I, O
<1> QED
  BY <1>1, IdsStandForPaths, PTL

\* A build's hash does not depend on the order in which files and builds were
\* added.
THEOREM HashIsLayoutFree ==
  GSpec => []HashLayoutFree
<1>1. ASSUME Faithful PROVE HashLayoutFree
  BY <1>1 DEF Faithful, NodesFaithful, HashLayoutFree, hash_build
<1> QED
  BY <1>1, IdsStandForPaths, PTL

\* Builds with the same hash are the same, where no argument is "out".
THEOREM SameHashIsSameBuild ==
  GSpec => []SameHashSameBuild
<1>1. ASSUME GTypeOK, Faithful PROVE SameHashSameBuild
  <2>1. SUFFICES ASSUME NEW b \in Added, NEW c \in Added, hash_build(b) = hash_build(c),
                        "out" \notin Range(plan[b].command.args),
                        "out" \notin Range(plan[c].command.args)
                 PROVE  plan[b].command = plan[c].command /\ plan[b].outs = plan[c].outs
    BY DEF SameHashSameBuild
  <2>2. b \in Build /\ c \in Build /\ plan \in Plans
    BY <1>1 DEF Added, GTypeOK
  <2>3. /\ plan[b].command \in BuildMethods /\ plan[b].outs \in Seq(Text)
        /\ plan[c].command \in BuildMethods /\ plan[c].outs \in Seq(Text)
    BY <2>2, PlanTyped
  <2>4. BuildBytes(plan[b].command, plan[b].outs) = BuildBytes(plan[c].command, plan[c].outs)
    BY <1>1, <2>1 DEF Faithful, NodesFaithful, hash_build
  <2> QED
    BY <2>1, <2>3, <2>4, BytesIdentify
<1> QED
  BY <1>1, IdsStandForPaths, PTL

-----------------------------------------------------------------------------
(* The edges, and the digest of what a build reads.                        *)

\* No id is twice among the dependencies of another.
EdgesUnique ==
  \A k \in DOMAIN edges : \A i, j \in DOMAIN edges[k] : edges[k][i] = edges[k][j] => i = j

\* No two builds have the same id.
IdsUnique == \A b, c \in Added : bid[b] = bid[c] => b = c

\* What a build depends on, the plan says it does.
EdgesPlanned ==
  \A b \in Added : \A i \in DOMAIN edges[bid[b]] :
    \E d \in plan[b].deps : bid[d] = edges[bid[b]][i]

EdgesFaithful ==
  /\ EdgesUnique
  /\ IdsUnique
  /\ EdgesPlanned
  /\ state # "building" => EverythingSaid

LEMMA EdgesFaithfulStep ==
  GTypeOK /\ EdgesFaithful /\ [GNext]_gvars => EdgesFaithful'
<1> SUFFICES ASSUME GTypeOK, EdgesFaithful, [GNext]_gvars PROVE EdgesFaithful'
  OBVIOUS
<1>0. /\ plan \in Plans
      /\ edges \in Seq(Seq(DOMAIN nodes)) /\ Len(edges) = Len(nodes) /\ Len(nodes) \in Nat
      /\ DOMAIN nodes = 1 .. Len(nodes) /\ DOMAIN edges = 1 .. Len(nodes)
      /\ bid \in [Build -> {0} \cup DOMAIN nodes]
  <2>1. nodes \in Seq(NodesOver(DOMAIN files))
    BY DEF GTypeOK, NodesOver
  <2>2. edges \in Seq(Seq(DOMAIN nodes)) /\ Len(edges) = Len(nodes)
    BY DEF GTypeOK
  <2>3. Len(nodes) \in Nat /\ DOMAIN nodes = 1 .. Len(nodes) /\ DOMAIN edges = 1 .. Len(edges)
    BY <2>1, <2>2
  <2> QED BY <2>2, <2>3 DEF GTypeOK
<1>1. /\ EdgesUnique /\ IdsUnique /\ EdgesPlanned
      /\ state # "building" => EverythingSaid
  BY DEF EdgesFaithful
<1>2. ASSUME UNCHANGED <<plan, nodes, edges, bid, state>> PROVE EdgesFaithful'
  BY <1>1, <1>2
     DEF EdgesFaithful, EdgesUnique, IdsUnique, EdgesPlanned, EverythingSaid, Edges, Added
<1>3. ASSUME NEW p \in Text, AddFile(p) PROVE EdgesFaithful'
  BY <1>2, <1>3 DEF AddFile
<1>4. ASSUME NEW b \in Build, AddBuild(b) PROVE EdgesFaithful'
  <2> DEFINE new == Len(nodes) + 1
  <2>1. /\ state' = "building" /\ bid[b] = 0 /\ plan' = plan
        /\ edges' = Append(edges, <<>>)
        /\ bid' = [bid EXCEPT ![b] = new]
    BY <1>4 DEF AddBuild
  <2>2. /\ DOMAIN edges' = DOMAIN edges \cup {new}
        /\ \A k \in DOMAIN edges : edges'[k] = edges[k] /\ k # new
        /\ edges'[new] = <<>>
    BY <1>0, <2>1
  <2>3. /\ bid'[b] = new
        /\ \A c \in Build \ {b} : bid'[c] = bid[c]
        /\ \A c \in Build : bid[c] # 0 => bid[c] \in DOMAIN edges
    BY <1>0, <2>1
  <2>4. EdgesUnique'
    BY <1>1, <2>2 DEF EdgesUnique
  <2>5. IdsUnique'
    BY <1>1, <2>2, <2>3 DEF IdsUnique, Added
  <2>6. EdgesPlanned'
    <3> SUFFICES ASSUME NEW c \in Build, bid'[c] # 0, NEW i \in DOMAIN edges'[bid'[c]]
                 PROVE  \E d \in plan[c].deps : bid'[d] = edges'[bid'[c]][i]
      BY <2>1 DEF EdgesPlanned, Added
    <3>1. c # b
      BY <2>2, <2>3
    <3>2. c \in Added /\ edges'[bid'[c]] = edges[bid[c]] /\ i \in DOMAIN edges[bid[c]]
          /\ bid[c] \in DOMAIN edges
      BY <2>2, <2>3, <3>1 DEF Added
    <3>3. PICK d \in plan[c].deps : bid[d] = edges[bid[c]][i]
      BY <1>1, <3>2 DEF EdgesPlanned
    <3>4. bid[d] # 0 /\ d \in Build
      <4>1. edges[bid[c]] \in Seq(DOMAIN nodes)
        BY <1>0, <3>2
      <4>2. edges[bid[c]][i] \in DOMAIN nodes
        BY <3>2, <4>1
      <4> QED BY <1>0, <3>3, <4>2, PlanTyped
    <3>5. d # b /\ bid'[d] = bid[d]
      BY <2>1, <2>3, <3>4
    <3> QED BY <3>2, <3>3, <3>5
  <2> QED BY <2>1, <2>4, <2>5, <2>6 DEF EdgesFaithful
<1>5. ASSUME NEW b \in Build, NEW d \in Build, AddBuildDep(b, d) PROVE EdgesFaithful'
  <2>1. /\ state' = "building" /\ bid[b] # 0 /\ bid[d] # 0 /\ d \in plan[b].deps
        /\ UNCHANGED <<plan, nodes, bid, state>>
        /\ edges' = IF bid[d] \in Range(edges[bid[b]]) THEN edges
                    ELSE [edges EXCEPT ![bid[b]] = Append(@, bid[d])]
    BY <1>5 DEF AddBuildDep, ids
  <2>2. CASE bid[d] \in Range(edges[bid[b]])
    BY <1>2, <2>1, <2>2
  <2>3. CASE bid[d] \notin Range(edges[bid[b]])
    <3> DEFINE k == bid[b]
               e == bid[d]
               old == edges[k]
               D == DOMAIN nodes
    <3>1. k \in DOMAIN edges /\ e \in D /\ old \in Seq(D)
      BY <1>0, <2>1
    <3>2. edges' = [edges EXCEPT ![k] = Append(old, e)]
      BY <2>1, <2>3
    <3>3. \A i \in DOMAIN old : old[i] # e
      BY <2>3 DEF Range
    <3>4. DOMAIN edges' = DOMAIN edges /\ edges'[k] = Append(old, e)
          /\ \A l \in DOMAIN edges \ {k} : edges'[l] = edges[l]
      <4> HIDE DEF k, e, old, D
      <4> QED BY <1>0, <3>1, <3>2
    <3>5. /\ DOMAIN Append(old, e) = DOMAIN old \cup {Len(old) + 1}
          /\ Append(old, e)[Len(old) + 1] = e
          /\ \A i \in DOMAIN old : Append(old, e)[i] = old[i]
      <4> HIDE DEF k, e, old, D
      <4> QED BY <3>1
    <3>6. EdgesUnique'
      <4> SUFFICES ASSUME NEW l \in DOMAIN edges', NEW i \in DOMAIN edges'[l],
                          NEW j \in DOMAIN edges'[l], edges'[l][i] = edges'[l][j]
                   PROVE  i = j
        BY DEF EdgesUnique
      <4>1. CASE l = k
        <5>1. \A x, y \in DOMAIN old : old[x] = old[y] => x = y
          BY <1>1, <3>1 DEF EdgesUnique
        <5> HIDE DEF k, e, old, D
        <5> QED BY <3>3, <3>4, <3>5, <4>1, <5>1
      <4>2. CASE l # k
        <5> HIDE DEF k, e, old, D
        <5> QED BY <1>1, <3>4, <4>2 DEF EdgesUnique
      <4> QED BY <4>1, <4>2
    <3>7. IdsUnique'
      BY <1>1, <2>1 DEF IdsUnique, Added
    <3>8. EdgesPlanned'
      <4> SUFFICES ASSUME NEW c \in Added, NEW i \in DOMAIN edges'[bid[c]]
                   PROVE  \E f \in plan[c].deps : bid[f] = edges'[bid[c]][i]
        BY <2>1 DEF EdgesPlanned, Added
      <4>1. bid[c] \in DOMAIN edges
        BY <1>0 DEF Added
      <4>2. CASE bid[c] = k
        <5>1. c = b
          BY <1>1, <2>1, <4>2 DEF IdsUnique, Added
        <5>2. CASE i \in DOMAIN old
          <6>1. edges'[bid[c]][i] = edges[bid[c]][i]
            BY <3>4, <3>5, <4>2, <5>2
          <6> QED BY <1>1, <4>2, <5>2, <6>1 DEF EdgesPlanned
        <5>3. CASE i \notin DOMAIN old
          <6>1. edges'[bid[c]][i] = e
            <7> HIDE DEF k, e, old, D
            <7> QED BY <3>4, <3>5, <4>2, <5>3
          <6> QED BY <2>1, <5>1, <6>1
        <5> QED BY <5>2, <5>3
      <4>3. CASE bid[c] # k
        <5>1. edges'[bid[c]] = edges[bid[c]]
          BY <3>4, <4>1, <4>3
        <5> QED BY <1>1, <5>1 DEF EdgesPlanned
      <4> QED BY <4>2, <4>3
    <3> QED BY <2>1, <3>6, <3>7, <3>8 DEF EdgesFaithful
  <2> QED BY <2>2, <2>3
<1>6. ASSUME Finish PROVE EdgesFaithful'
  <2>1. UNCHANGED <<plan, nodes, edges, bid>> /\ EverythingSaid
    BY <1>6 DEF Finish, ids
  <2>2. EverythingSaid'
    BY <2>1 DEF EverythingSaid, Edges
  <2>3. (EdgesUnique /\ IdsUnique /\ EdgesPlanned)'
    BY <1>1, <2>1 DEF EdgesUnique, IdsUnique, EdgesPlanned, Added
  <2> QED BY <2>2, <2>3 DEF EdgesFaithful
<1>7. ASSUME UNCHANGED gvars PROVE EdgesFaithful'
  BY <1>2, <1>7 DEF gvars, ids
<1> QED
  BY <1>3, <1>4, <1>5, <1>6, <1>7 DEF GNext

\* The edges stand for dependencies of the plan, and for each only once; built,
\* the graph has them all.
THEOREM EdgesStandForDependencies ==
  GSpec => [](GTypeOK /\ Faithful /\ EdgesFaithful)
<1>1. GInit => EdgesFaithful
  BY DEF GInit, EdgesFaithful, EdgesUnique, IdsUnique, EdgesPlanned, Added
<1> QED
  BY <1>1, IdsStandForPaths, EdgesFaithfulStep, PTL DEF GSpec

\* What MapThenSumSet adds up in InputBag: a sum over the dependencies that may
\* take them in any order.
LEMMA SumOverDeps ==
  ASSUME plan \in Plans, NEW b \in Build, NEW p \in Text
  PROVE  \E g \in [SUBSET plan[b].deps -> Nat] :
           /\ g[{}] = 0
           /\ \A s \in SUBSET plan[b].deps : \A d \in s :
                g[s] = Occurrences(p, plan[d].outs) + g[s \ {d}]
           /\ InputBag(b)[p] = Occurrences(p, plan[b].ins) + g[plan[b].deps]
<1> DEFINE S == plan[b].deps
           Occ(d) == Occurrences(p, plan[d].outs)
           F == [d \in S |-> Occ(d)]
           C == [s \in SUBSET S |-> CHOOSE x \in s : TRUE]
           W == [d \in S |-> [n \in Nat |-> F[d] + n]]
           Is(g) == g = [s \in SUBSET S |->
                           IF s = {} THEN 0
                           ELSE Occ(CHOOSE x \in s : TRUE) + g[s \ {CHOOSE x \in s : TRUE}]]
<1>1. S \subseteq Build /\ IsFiniteSet(S)
  BY PlanTyped, BuildAssumption, FS_Subset
<1>2. F \in [S -> Nat]
  <2>1. \A d \in S : Occ(d) \in Nat
    BY <1>1, PlanTyped, OccurrencesArePlaces
  <2> HIDE DEF Occ, S
  <2> QED BY <2>1
<1>3. Picks(C, S)
  BY DEF Picks
<1>4. W \in [S -> [Nat -> Nat]]
  <2> HIDE DEF S, F
  <2> QED BY <1>2
<1>5. PICK g \in [SUBSET S -> Nat] : Folds(g, S, 0, C, W)
  <2>1. 0 \in Nat
    OBVIOUS
  <2> HIDE DEF S, W, C
  <2> QED BY ONLY <1>1, <1>3, <1>4, <2>1, FoldExists
<1>6. \A s \in SUBSET S : g[s] = IF s = {} THEN 0 ELSE F[C[s]] + g[s \ {C[s]}]
  <2> SUFFICES ASSUME NEW s \in SUBSET S, s # {} PROVE g[s] = F[C[s]] + g[s \ {C[s]}]
    BY <1>5 DEF Folds
  <2>1. C[s] \in S /\ g[s \ {C[s]}] \in Nat
    <3>1. C[s] \in s
      BY <1>3 DEF Picks
    <3> HIDE DEF C, S
    <3> QED BY <3>1
  <2>2. g[s] = W[C[s]][g[s \ {C[s]}]]
    BY <1>5 DEF Folds
  <2> HIDE DEF S, F, C
  <2> QED BY <2>1, <2>2
<1>7. \A s \in SUBSET S : \A x \in s : g[s] = F[x] + g[s \ {x}]
  <2>1. g \in [SUBSET S -> Nat] /\ Sums(g, S, F, C)
    BY <1>6 DEF Sums
  <2> HIDE DEF S, F, C
  <2>2. SumsAny(g, S, F)
    BY ONLY <1>1, <1>2, <1>3, <2>1, SumTakesAny
  <2> QED BY <2>2 DEF SumsAny
<1>8. Is(g)
  <2>1. \A s \in SUBSET S : s # {} => C[s] \in S /\ C[s] = CHOOSE x \in s : TRUE
    BY <1>3 DEF Picks
  <2>2. \A d \in S : F[d] = Occ(d)
    OBVIOUS
  <2>3. \A s \in SUBSET S :
          g[s] = IF s = {} THEN 0
                 ELSE Occ(CHOOSE x \in s : TRUE) + g[s \ {CHOOSE x \in s : TRUE}]
    <3> HIDE DEF S, F, C, Occ
    <3> QED BY <1>6, <2>1, <2>2
  <2> HIDE DEF S, F, C, Occ
  <2> QED BY <2>3
<1>9. InputBag(b)[p] = Occurrences(p, plan[b].ins) + (CHOOSE f : Is(f))[S]
  BY DEF InputBag, MapThenSumSet, MapThenFoldSet
<1> PICK f : f = (CHOOSE h : Is(h))
  OBVIOUS
<1>10. Is(f)
  <2> HIDE DEF Is
  <2> QED BY <1>8
<1>11. \A s \in SUBSET S : s # {} => f[s] = Occ(C[s]) + f[s \ {C[s]}]
  <2> HIDE DEF Occ, S
  <2> QED BY <1>10
<1>12. f[{}] = 0
  <2> HIDE DEF Occ, S
  <2> QED BY <1>10
<1>13. \A d \in S : F[d] = Occ(d)
  OBVIOUS
<1>14. f[S] = g[S]
  <2> HIDE DEF S, F, C, W, Occ, Is
  <2> DEFINE T == {n \in Nat : \A s \in SUBSET S : Cardinality(s) = n => f[s] = g[s]}
  <2>0. \A s \in SUBSET S : IsFiniteSet(s) /\ Cardinality(s) \in Nat
    BY <1>1, FS_Subset, FS_CardinalityType
  <2>1. 0 \in T
    <3>1. \A s \in SUBSET S : Cardinality(s) = 0 => s = {}
      BY <2>0, FS_EmptySet
    <3>2. g[{}] = 0
      BY <1>6
    <3> QED BY <1>12, <3>1, <3>2
  <2>2. ASSUME NEW n \in T PROVE n + 1 \in T
    <3> SUFFICES ASSUME NEW s \in SUBSET S, Cardinality(s) = n + 1 PROVE f[s] = g[s]
      OBVIOUS
    <3>1. s # {}
      BY <2>0, FS_EmptySet
    <3>2. C[s] \in s /\ C[s] \in S
      BY <1>3, <3>1 DEF Picks
    <3>3. Cardinality(s \ {C[s]}) = n
      <4>1. IsFiniteSet(s) /\ n \in Nat /\ C[s] \in s
        BY <2>0, <3>2
      <4>2. Cardinality(s \ {C[s]}) = Cardinality(s) - 1
        BY <4>1, FS_RemoveElement
      <4> QED BY <4>1, <4>2
    <3>4. f[s \ {C[s]}] = g[s \ {C[s]}]
      BY <3>3
    <3>5. F[C[s]] = Occ(C[s])
      BY <1>13, <3>2
    <3> QED BY <1>6, <1>11, <3>1, <3>4, <3>5
  <2>3. T = Nat
    <3> HIDE DEF T
    <3>1. T \in SUBSET Nat
      BY DEF T
    <3> QED BY <2>1, <2>2, <3>1, NatSetInduction
  <2>4. Cardinality(S) \in T
    <3> HIDE DEF T
    <3> QED BY <2>0, <2>3
  <2> QED BY <2>4
<1>15. \A s \in SUBSET S : \A d \in s : g[s] = Occ(d) + g[s \ {d}]
  BY <1>7
<1>16. InputBag(b)[p] = Occurrences(p, plan[b].ins) + g[S]
  <2> HIDE DEF S, Is
  <2> QED BY <1>9, <1>14
<1> HIDE DEF Is, F, C, W
<1> QED BY <1>6, <1>15, <1>16

\* Built, a build's inputs are those of the plan: each path as often.
LEMMA InputsAsPlanned ==
  ASSUME GTypeOK, Faithful, EdgesFaithful, state = "built", NEW b \in Build
  PROVE  /\ InputPaths(b) \in Seq(Text)
         /\ \A p \in Text : Occurrences(p, InputPaths(b)) = InputBag(b)[p]
<1> DEFINE E == edges[bid[b]]
           n == Len(E)
           deps == plan[b].deps
           seqs == [i \in DOMAIN E |-> PathsOf(nodes[E[i]].outs)]
<1>1. /\ plan \in Plans /\ deps \subseteq Build
      /\ \A c \in Build : plan[c].ins \in Seq(Text) /\ plan[c].outs \in Seq(Text)
  BY PlanTyped DEF GTypeOK
<1>2. /\ EverythingSaid /\ EdgesUnique /\ IdsUnique /\ EdgesPlanned
      /\ \A c \in Build : c \in Added
  BY DEF EdgesFaithful, EverythingSaid, Added
<1>3. /\ \A c \in Build : /\ PathsOf(Node(c).outs) = plan[c].outs
                          /\ PathsOf(Node(c).ins) = plan[c].ins
      /\ bid[b] \in DOMAIN edges /\ E \in Seq(DOMAIN nodes)
  <2>1. bid[b] \in DOMAIN nodes /\ edges \in Seq(Seq(DOMAIN nodes)) /\ Len(edges) = Len(nodes)
    BY <1>2 DEF GTypeOK, Added
  <2>2. nodes \in Seq(NodesOver(DOMAIN files))
    BY DEF GTypeOK, NodesOver
  <2>3. bid[b] \in DOMAIN edges
    BY <2>1, <2>2
  <2>4. E \in Seq(DOMAIN nodes)
    BY <2>1, <2>3
  <2> QED BY <1>2, <2>3, <2>4 DEF Faithful, NodesFaithful
<1>4. n \in Nat /\ DOMAIN E = 1 .. n
  BY <1>3
<1>5. PICK dep \in [1 .. n -> deps] : \A i \in 1 .. n : bid[dep[i]] = E[i]
  <2>1. \A i \in 1 .. n : \E d \in deps : bid[d] = E[i]
    BY <1>2, <1>4 DEF EdgesPlanned
  <2> DEFINE dep == [i \in 1 .. n |-> CHOOSE d \in deps : bid[d] = E[i]]
  <2>2. \A i \in 1 .. n : dep[i] \in deps /\ bid[dep[i]] = E[i]
    BY <2>1
  <2>3. dep \in [1 .. n -> deps]
    BY <2>2
  <2> QED BY <2>2, <2>3
<1>6. \A i, j \in 1 .. n : dep[i] = dep[j] => i = j
  BY <1>2, <1>3, <1>4, <1>5 DEF EdgesUnique
<1>7. \A d \in deps : \E i \in 1 .. n : dep[i] = d
  <2> SUFFICES ASSUME NEW d \in deps PROVE \E i \in 1 .. n : dep[i] = d
    OBVIOUS
  <2>1. bid[d] \in Range(E)
    BY <1>2 DEF EverythingSaid, Edges
  <2>2. PICK i \in 1 .. n : E[i] = bid[d]
    BY <1>4, <2>1 DEF Range
  <2>3. dep[i] = d
    BY <1>1, <1>2, <1>5, <2>2 DEF IdsUnique
  <2> QED BY <2>3
<1>8. seqs = [i \in 1 .. n |-> plan[dep[i]].outs]
  <2>1. \A i \in 1 .. n : PathsOf(nodes[E[i]].outs) = plan[dep[i]].outs
    <3> SUFFICES ASSUME NEW i \in 1 .. n
                 PROVE  PathsOf(nodes[E[i]].outs) = plan[dep[i]].outs
      OBVIOUS
    <3>1. dep[i] \in Build /\ nodes[E[i]] = Node(dep[i])
      BY <1>1, <1>5 DEF Node
    <3> QED BY <1>3, <3>1
  <2> HIDE DEF n, E
  <2> QED BY <1>4, <2>1
<1>9. \A i \in 1 .. n : plan[dep[i]].outs \in Seq(Text)
  <2> HIDE DEF n, deps
  <2> QED BY <1>1, <1>5
<1>10. seqs \in Seq(Seq(Text)) /\ Len(seqs) = n /\ \A i \in 1 .. n : seqs[i] = plan[dep[i]].outs
  <2> DEFINE V == Seq(Text)
  <2> HIDE DEF n, seqs, V
  <2>1. seqs \in Seq(V) /\ Len(seqs) = n /\ \A i \in 1 .. n : seqs[i] = plan[dep[i]].outs
    BY <1>4, <1>8, <1>9 DEF V
  <2> QED BY <2>1 DEF V
<1> DEFINE flat == FlattenSeq(seqs)
<1>11. InputPaths(b) = plan[b].ins \o flat
  BY <1>3 DEF InputPaths
<1>12. flat \in Seq(Text)
  <2> HIDE DEF seqs
  <2> QED BY <1>10, FlattenSeqType
<1>13. ASSUME NEW p \in Text
       PROVE  Occurrences(p, plan[b].ins \o flat) = InputBag(b)[p]
  <2>1. PICK g \in [SUBSET deps -> Nat] :
          /\ g[{}] = 0
          /\ \A s \in SUBSET deps : \A d \in s :
               g[s] = Occurrences(p, plan[d].outs) + g[s \ {d}]
          /\ InputBag(b)[p] = Occurrences(p, plan[b].ins) + g[deps]
    BY <1>1, SumOverDeps
  <2>2. Occurrences(p, flat) = g[deps]
    <3>1. CASE n = 0
      <4>1. deps = {}
        <5> HIDE DEF n, deps
        <5> QED BY <1>7, <3>1
      <4>2. flat = <<>>
        <5> HIDE DEF n
        <5> SUFFICES seqs = <<>>
          BY DEF FlattenSeq
        <5> HIDE DEF seqs
        <5> QED BY <1>10, <3>1
      <4>3. Occurrences(p, <<>>) = 0
        <5>1. {i \in DOMAIN <<>> : <<>>[i] = p} = {}
          OBVIOUS
        <5> QED BY <5>1, FS_EmptySet DEF Occurrences
      <4> HIDE DEF deps, flat
      <4> QED BY <2>1, <4>1, <4>2, <4>3
    <3>2. CASE n # 0
      <4>1. PICK f \in [1 .. n -> Seq(Text)] :
              /\ f[1] = seqs[1]
              /\ \A i \in 2 .. n : f[i] = f[i - 1] \o seqs[i]
              /\ flat = f[n]
        <5> HIDE DEF n, seqs
        <5>1. seqs # <<>>
          BY <1>10, <3>2
        <5> QED BY <1>10, <5>1, FlattenSteps
      <4> DEFINE D(k) == {dep[i] : i \in 1 .. k}
                 T == {k \in Nat : k + 1 <= n => Occurrences(p, f[k + 1]) = g[D(k + 1)]}
      <4>2. ASSUME NEW k \in 1 .. n
            PROVE  /\ D(k) \in SUBSET deps /\ dep[k] \in D(k)
                   /\ D(k) \ {dep[k]} = D(k - 1)
        <5>1. \A i \in 1 .. k : i \in 1 .. n /\ (i = k \/ i \in 1 .. (k - 1))
          BY <1>4
        <5>2. \A i \in 1 .. (k - 1) : i \in 1 .. k /\ i # k
          BY <1>4
        <5>3. k \in 1 .. k
          BY <1>4
        <5> HIDE DEF n, deps
        <5> QED BY <1>5, <1>6, <5>1, <5>2, <5>3
      <4>3. ASSUME NEW k \in 1 .. n
            PROVE  g[D(k)] = Occurrences(p, seqs[k]) + g[D(k - 1)]
        <5> HIDE DEF D, n, deps, seqs
        <5>1. g[D(k)] = Occurrences(p, plan[dep[k]].outs) + g[D(k) \ {dep[k]}]
          BY <2>1, <4>2
        <5>2. D(k) \ {dep[k]} = D(k - 1) /\ seqs[k] = plan[dep[k]].outs
          BY <1>10, <4>2
        <5> QED BY <5>1, <5>2
      <4>4. \A k \in 1 .. n : seqs[k] \in Seq(Text) /\ f[k] \in Seq(Text)
        <5> HIDE DEF n, seqs
        <5> QED BY <1>9, <1>10, <4>1
      <4>5. 0 \in T
        <5>1. 1 \in 1 .. n
          BY <1>4, <3>2
        <5>2. D(1 - 1) = {}
          OBVIOUS
        <5>3. Occurrences(p, seqs[1]) \in Nat
          BY <4>4, <5>1, OccurrencesArePlaces
        <5>4. g[D(1)] = Occurrences(p, seqs[1])
          <6> HIDE DEF D, n, seqs
          <6>1. g[D(1)] = Occurrences(p, seqs[1]) + g[D(1 - 1)]
            BY <4>3, <5>1
          <6>2. g[D(1 - 1)] = 0
            BY <2>1, <5>2
          <6> QED BY <5>3, <6>1, <6>2
        <5> HIDE DEF D, n, seqs
        <5> QED BY <4>1, <5>4
      <4>6. ASSUME NEW k \in T PROVE k + 1 \in T
        <5> SUFFICES ASSUME (k + 1) + 1 <= n
                     PROVE  Occurrences(p, f[(k + 1) + 1]) = g[D((k + 1) + 1)]
          OBVIOUS
        <5> DEFINE m == (k + 1) + 1
        <5>1. /\ k \in Nat /\ m \in 2 .. n /\ m \in 1 .. n /\ m - 1 = k + 1 /\ m - 1 \in 1 .. n
              /\ Occurrences(p, f[k + 1]) = g[D(k + 1)]
          BY <1>4
        <5> HIDE DEF D, n, seqs, m
        <5>2. Occurrences(p, f[m]) = Occurrences(p, f[m - 1]) + Occurrences(p, seqs[m])
          BY <4>1, <4>4, <5>1, OccurrencesAdd
        <5>3. g[D(m)] = Occurrences(p, seqs[m]) + g[D(m - 1)]
          BY <4>3, <5>1
        <5>4. Occurrences(p, f[m - 1]) \in Nat /\ Occurrences(p, seqs[m]) \in Nat
          BY <4>4, <5>1, OccurrencesArePlaces
        <5>5. Occurrences(p, f[m]) = g[D(m)]
          BY <5>1, <5>2, <5>3, <5>4
        <5> QED BY <5>5 DEF m
      <4>7. T = Nat
        <5> HIDE DEF T
        <5>1. T \in SUBSET Nat
          BY DEF T
        <5> QED BY <4>5, <4>6, <5>1, NatSetInduction
      <4>8. n - 1 \in T /\ (n - 1) + 1 = n
        <5> HIDE DEF T, n
        <5> QED BY <1>4, <3>2, <4>7
      <4>9. D(n) = deps
        <5> HIDE DEF n, deps
        <5> QED BY <1>5, <1>7
      <4> HIDE DEF D, n, deps, flat
      <4> QED BY <1>4, <4>1, <4>8, <4>9
    <3> QED BY <3>1, <3>2
  <2>3. Occurrences(p, plan[b].ins \o flat) = Occurrences(p, plan[b].ins) + Occurrences(p, flat)
    <3> HIDE DEF flat
    <3> QED BY <1>1, <1>12, OccurrencesAdd
  <2> HIDE DEF flat, deps
  <2> QED BY <2>1, <2>2, <2>3
<1> HIDE DEF flat
<1>14. plan[b].ins \o flat \in Seq(Text)
  BY <1>1, <1>12
<1> QED BY <1>11, <1>13, <1>14

\* Two builds of a graph have the same input digest exactly if each path is as
\* often among their inputs and their dependencies' outputs.
THEOREM InputDigestIsExact ==
  GSpec => []InputDigestExact
<1>1. ASSUME GTypeOK, Faithful, EdgesFaithful PROVE InputDigestExact
  <2> SUFFICES ASSUME state = "built", NEW b \in Build, NEW c \in Build
               PROVE  hash_input_set(b) = hash_input_set(c) <=> InputBag(b) = InputBag(c)
    BY DEF InputDigestExact
  <2>1. \A d \in {b, c} : /\ InputPaths(d) \in Seq(Text)
                          /\ \A p \in Text : Occurrences(p, InputPaths(d)) = InputBag(d)[p]
    BY <1>1, InputsAsPlanned
  <2>2. hash_input_set(b) = hash_input_set(c)
          <=> \A p \in Text : InputBag(b)[p] = InputBag(c)[p]
    BY <2>1, DigestCountsPaths DEF hash_input_set
  <2>3. \A d \in {b, c} : InputBag(d) = [p \in Text |-> InputBag(d)[p]]
    BY DEF InputBag
  <2>4. InputBag(b) = InputBag(c) <=> \A p \in Text : InputBag(b)[p] = InputBag(c)[p]
    <3> DEFINE B == InputBag(b)
               D == InputBag(c)
    <3>1. B = [p \in Text |-> B[p]] /\ D = [p \in Text |-> D[p]]
      BY <2>3
    <3> HIDE DEF B, D
    <3>2. B = D <=> \A p \in Text : B[p] = D[p]
      BY <3>1
    <3> QED BY <3>2 DEF B, D
  <2> QED BY <2>2, <2>4
<1> QED
  BY <1>1, EdgesStandForDependencies, PTL
===============================================================================
