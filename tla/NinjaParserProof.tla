---------------------------- MODULE NinjaParserProof ----------------------------
(***************************************************************************)
(* Theorems about NinjaParser, for all files of lines and tokens.          *)
(***************************************************************************)
EXTENDS NinjaParser, FoldLemmas

Token == [k : TokenKinds, w : STRING, ind : BOOLEAN]

-----------------------------------------------------------------------------
(* The tokens of a file.                                                   *)

RawToken == [k : TokenKinds \cup Skipped, w : STRING]
WordToken == [k : TokenKinds, w : STRING]

LEMMA LeadTyped ==
  ASSUME NEW lines, IsFile(lines), NEW i \in DOMAIN lines
  PROVE  LeadOf(lines, i) \in Seq(WordToken)
<1>1. {"sp", "lf", "ilf"} \subseteq TokenKinds
  BY DEF TokenKinds, Newline, InValue
<1>2. " " \in STRING /\ "lf" \in STRING
  BY LiteralsAssumption
<1>3. Space \in WordToken
  BY <1>1, <1>2 DEF Space, WordToken
<1>4. \A kind \in {"lf", "ilf"} : [k |-> kind, w |-> "lf"] \in WordToken
  BY <1>1, <1>2 DEF WordToken
<1>5. [k |-> IF lines[i].ind THEN "ilf" ELSE "lf", w |-> "lf"] \in WordToken
  BY <1>4
<1> DEFINE lead == [k |-> IF lines[i].ind THEN "ilf" ELSE "lf", w |-> "lf"]
<1>6. LeadOf(lines, i) \in {<<>>, <<Space>>, <<lead>>}
  BY DEF LeadOf
<1>7. lead \in WordToken
  BY <1>5
<1> HIDE DEF lead
<1>8. <<>> \in Seq(WordToken) /\ \A x \in WordToken : <<x>> \in Seq(WordToken)
  OBVIOUS
<1> QED BY <1>3, <1>6, <1>7, <1>8

\* Only the last token of a line can be a comment or a continuation.
LEMMA BodyTyped ==
  ASSUME NEW lines, IsFile(lines), NEW i \in DOMAIN lines
  PROVE  BodyOf(lines, i) \in Seq(WordToken)
<1> DEFINE ts == lines[i].toks
           n == Len(ts)
<1>1. /\ ts \in Seq(RawToken) /\ n \in Nat
      /\ \A j \in 1 .. n - 1 : ts[j].k \notin Skipped
  <2> DEFINE L == [ind : BOOLEAN, toks : Seq(RawToken)]
  <2>1. lines \in Seq(L)
    BY DEF IsFile, RawToken
  <2>2. lines[i] \in L
    <3> HIDE DEF L
    <3> QED BY <2>1
  <2> QED BY <2>2 DEF IsFile
<1>2. ASSUME NEW j \in 1 .. n, ts[j].k \notin Skipped PROVE ts[j] \in WordToken
  <2>1. ts[j] \in RawToken
    BY <1>1
  <2> QED BY <1>2, <2>1 DEF RawToken, WordToken
<1>3. CASE ~Skips(lines[i])
  <2>1. \A j \in 1 .. n : ts[j].k \notin Skipped
    <3> TAKE j \in 1 .. n
    <3>1. CASE j = n
      BY <1>1, <1>3, <3>1 DEF Skips, Last
    <3>2. CASE j # n
      BY <1>1, <3>2
    <3> QED BY <3>1, <3>2
  <2>2. BodyOf(lines, i) = ts
    BY <1>3 DEF BodyOf
  <2> HIDE DEF n
  <2> QED BY <1>1, <1>2, <2>1, <2>2 DEF n
<1>4. CASE Skips(lines[i])
  <2>1. ts # <<>> /\ n \in 1 .. n
    BY <1>1, <1>4 DEF Skips
  <2>2. Front(ts) \in Seq(WordToken)
    <3>1. \A j \in 1 .. n - 1 : ts[j] \in WordToken
      BY <1>1, <1>2
    <3>2. Front(ts) = [j \in 1 .. n - 1 |-> ts[j]]
      BY <1>1, <2>1 DEF Front
    <3> HIDE DEF n
    <3> QED BY <1>1, <2>1, <3>1, <3>2
  <2>3. Unended(Last(ts)) \in WordToken
    <3>1. Last(ts).w \in STRING
      <4>1. Last(ts) \in RawToken
        BY <1>1, <2>1 DEF Last
      <4> QED BY <4>1 DEF RawToken
    <3>2. "word" \in TokenKinds /\ "bad" \in TokenKinds
      BY DEF TokenKinds, InValue, CanStartWord
    <3> QED BY <3>1, <3>2 DEF Unended, WordToken
  <2> DEFINE end == IF i = Len(lines) THEN <<Unended(Last(ts))>> ELSE <<>>
  <2>4. end \in Seq(WordToken)
    BY <2>3
  <2>5. BodyOf(lines, i) = Front(ts) \o end
    BY <1>4 DEF BodyOf
  <2> HIDE DEF end
  <2> QED BY <2>2, <2>4, <2>5
<1> QED BY <1>3, <1>4

\* The Lexer returns tokens of the language, and at last of all a bad one.
LEMMA TokensTyped ==
  ASSUME NEW lines, IsFile(lines)
  PROVE  Tokens(lines) \in Seq(Token)
<1> DEFINE raw(i) == LeadOf(lines, i) \o BodyOf(lines, i)
           of(i) == [j \in DOMAIN raw(i) |->
                       [k |-> raw(i)[j].k, w |-> raw(i)[j].w, ind |-> lines[i].ind]]
           all == [i \in DOMAIN lines |-> of(i)]
<1>1. ASSUME NEW i \in DOMAIN lines PROVE of(i) \in Seq(Token)
  <2>1. raw(i) \in Seq(WordToken)
    <3>1. LeadOf(lines, i) \in Seq(WordToken) /\ BodyOf(lines, i) \in Seq(WordToken)
      BY LeadTyped, BodyTyped
    <3> QED BY <3>1
  <2>2. lines[i].ind \in BOOLEAN
    <3> DEFINE R == Seq([k : TokenKinds \cup Skipped, w : STRING])
               L == [ind : BOOLEAN, toks : R]
    <3>1. lines \in Seq(L)
      BY DEF IsFile
    <3>2. lines[i] \in L
      <4> HIDE DEF L
      <4> QED BY <3>1
    <3> HIDE DEF R
    <3> QED BY <3>2
  <2> DEFINE q == raw(i)
             b == lines[i].ind
             at(j) == [k |-> q[j].k, w |-> q[j].w, ind |-> b]
  <2>3. q \in Seq(WordToken) /\ b \in BOOLEAN
    BY <2>1, <2>2
  <2>4. of(i) = [j \in DOMAIN q |-> at(j)]
    OBVIOUS
  <2> HIDE DEF q, b, of
  <2>5. DOMAIN q = 1 .. Len(q) /\ Len(q) \in Nat
    BY <2>3
  <2>6. \A j \in DOMAIN q : at(j) \in Token
    <3> SUFFICES ASSUME NEW j \in DOMAIN q PROVE at(j) \in Token
      OBVIOUS
    <3>1. q[j] \in WordToken
      BY <2>3
    <3>2. q[j].k \in TokenKinds /\ q[j].w \in STRING
      BY <3>1 DEF WordToken
    <3> QED BY <2>3, <3>2 DEF Token
  <2> HIDE DEF at
  <2> QED BY <2>4, <2>5, <2>6
<1>2. DOMAIN lines = 1 .. Len(lines) /\ Len(lines) \in Nat
  BY DEF IsFile
<1>3. all \in Seq(Seq(Token))
  <2> DEFINE V == Seq(Token)
  <2> HIDE DEF V, of
  <2>1. all \in Seq(V)
    BY <1>1, <1>2 DEF V
  <2> QED BY <2>1 DEF V
<1>4. Tokens(lines) = FlattenSeq(all)
  BY DEF Tokens
<1> HIDE DEF all
<1> QED BY <1>3, <1>4, FlattenSeqType

-----------------------------------------------------------------------------
(* The Lexer.                                                              *)

LEMMA AfterTyped ==
  ASSUME NEW q \in Seq(Token), NEW n \in 0 .. Len(q)
  PROVE  /\ After(q, n) \in Seq(Token)
         /\ Len(After(q, n)) = Len(q) - n
         /\ Kind(After(q, n)) = IF n = Len(q) THEN "eof" ELSE q[n + 1].k
<1>1. /\ After(q, n) \in Seq(Token)
      /\ Len(After(q, n)) = Len(q) - n
      /\ n < Len(q) => After(q, n)[1] = q[n + 1]
  BY DEF After
<1> QED BY <1>1 DEF Kind

LEMMA AfterElements ==
  ASSUME NEW q \in Seq(Token), NEW n \in 0 .. Len(q)
  PROVE  /\ After(q, n) \in Seq(Token)
         /\ Len(After(q, n)) = Len(q) - n
         /\ \A i \in 1 .. Len(q) - n : After(q, n)[i] = q[n + i]
BY DEF After

\* What is left when some of the first tokens are taken.
EndOf(r, q) == \E n \in 0 .. Len(q) : r = After(q, n)

LEMMA AfterAfter ==
  ASSUME NEW q \in Seq(Token), NEW n \in 0 .. Len(q), NEW m \in 0 .. Len(q) - n
  PROVE  n + m \in 0 .. Len(q) /\ After(After(q, n), m) = After(q, n + m)
<1>1. Len(q) \in Nat /\ n + m \in 0 .. Len(q)
  OBVIOUS
<1> DEFINE a == After(q, n)
           b == After(a, m)
           c == After(q, n + m)
<1>2. /\ a \in Seq(Token) /\ Len(a) = Len(q) - n
      /\ \A i \in 1 .. Len(q) - n : a[i] = q[n + i]
  BY <1>1 DEF After
<1>3. /\ c \in Seq(Token) /\ Len(c) = Len(q) - (n + m)
      /\ \A i \in 1 .. Len(q) - (n + m) : c[i] = q[(n + m) + i]
  BY <1>1 DEF After
<1> HIDE DEF a
<1>4. /\ b \in Seq(Token) /\ Len(b) = Len(q) - (n + m)
      /\ \A i \in 1 .. Len(q) - (n + m) : b[i] = a[m + i]
  BY <1>1, <1>2 DEF After
<1> HIDE DEF b, c
<1>5. ASSUME NEW i \in 1 .. Len(q) - (n + m) PROVE b[i] = c[i]
  <2>1. m + i \in 1 .. Len(q) - n /\ n + (m + i) = (n + m) + i
    BY <1>1
  <2> QED BY <1>2, <1>3, <1>4, <2>1
<1>6. PICK k \in Nat : k = Len(q) - (n + m)
  <2>1. Len(q) - (n + m) \in Nat
    BY <1>1
  <2> QED BY ONLY <2>1
<1>7. b = c
  <2>1. b \in Seq(Token) /\ Len(b) = k /\ c \in Seq(Token) /\ Len(c) = k
    BY <1>3, <1>4, <1>6
  <2>2. \A i \in 1 .. k : b[i] = c[i]
    BY <1>5, <1>6
  <2> QED BY ONLY <2>1, <2>2, <1>6
<1> QED BY <1>1, <1>7 DEF a, b, c

LEMMA AfterIsEnd ==
  ASSUME NEW q \in Seq(Token)
  PROVE  /\ \A n \in 0 .. Len(q) : EndOf(After(q, n), q)
         /\ EndOf(q, q)
<1>1. After(q, 0) = q /\ 0 \in 0 .. Len(q)
  BY DEF After
<1> QED BY <1>1 DEF EndOf

LEMMA EndOfEnd ==
  ASSUME NEW q \in Seq(Token), NEW r, NEW s, EndOf(r, q), EndOf(s, r)
  PROVE  EndOf(s, q)
<1>1. PICK n \in 0 .. Len(q) : r = After(q, n)
  BY DEF EndOf
<1>2. PICK m \in 0 .. Len(r) : s = After(r, m)
  BY DEF EndOf
<1>3. Len(r) = Len(q) - n
  BY <1>1, AfterTyped
<1>4. n + m \in 0 .. Len(q) /\ s = After(q, n + m)
  BY <1>1, <1>2, <1>3, AfterAfter
<1> QED BY <1>4 DEF EndOf

LEMMA TailIsEnd ==
  ASSUME NEW q \in Seq(Token), q # <<>>
  PROVE  Tail(q) = After(q, 1) /\ 1 \in 0 .. Len(q) /\ EndOf(Tail(q), q)
<1>1. 1 \in 0 .. Len(q)
  OBVIOUS
<1>2. Tail(q) = After(q, 1)
  BY <1>1 DEF After
<1> QED BY <1>1, <1>2 DEF EndOf

LEMMA TailTyped ==
  ASSUME NEW q \in Seq(Token), q # <<>>
  PROVE  Tail(q) \in Seq(Token) /\ Len(Tail(q)) = Len(q) - 1
  OBVIOUS

LEMMA KindTyped ==
  ASSUME NEW q \in Seq(Token)
  PROVE  /\ Kind(q) \in TokenKinds \cup {"eof"}
         /\ Kind(q) # "eof" => q # <<>> /\ Len(q) >= 1 /\ q[1] \in Token /\ Kind(q) = q[1].k
<1>1. q # <<>> => Len(q) >= 1 /\ q[1] \in Token
  OBVIOUS
<1> QED BY <1>1 DEF Kind, Token

\* There is a place where the tokens of these kinds end.
LEMMA RunEnds ==
  ASSUME NEW q \in Seq(Token), NEW kinds, "eof" \notin kinds
  PROVE  /\ Run(q, kinds) \in 0 .. Len(q)
         /\ \A i \in 1 .. Run(q, kinds) : q[i].k \in kinds
         /\ Kind(After(q, Run(q, kinds))) \notin kinds
<1> DEFINE All(n) == \A i \in 1 .. n : q[i].k \in kinds
           Good(n) == All(n) /\ Kind(After(q, n)) \notin kinds
           T == {n \in Nat : n <= Len(q) => All(n) \/ \E m \in 0 .. Len(q) : Good(m)}
<1>1. 0 \in T
  OBVIOUS
<1>2. ASSUME NEW n \in T PROVE n + 1 \in T
  <2> SUFFICES ASSUME n + 1 <= Len(q), ~ \E m \in 0 .. Len(q) : Good(m)
               PROVE  All(n + 1)
    OBVIOUS
  <2>1. n \in 0 .. Len(q) /\ n # Len(q) /\ All(n)
    OBVIOUS
  <2>2. Kind(After(q, n)) = q[n + 1].k
    BY <2>1, AfterTyped
  <2>3. q[n + 1].k \in kinds
    BY <2>1, <2>2
  <2> QED BY <2>1, <2>3
<1>3. T = Nat
  <2> HIDE DEF T
  <2>1. T \in SUBSET Nat
    BY DEF T
  <2> QED BY <1>1, <1>2, <2>1, NatSetInduction
<1>4. \E m \in 0 .. Len(q) : Good(m)
  <2>1. Len(q) \in T /\ Len(q) \in 0 .. Len(q)
    <3> HIDE DEF T
    <3> QED BY <1>3
  <2>2. Kind(After(q, Len(q))) = "eof"
    BY <2>1, AfterTyped
  <2> QED BY <2>1, <2>2
<1> HIDE DEF T
<1>5. Run(q, kinds) = CHOOSE n \in 0 .. Len(q) : Good(n)
  BY DEF Run
<1>6. Run(q, kinds) \in 0 .. Len(q) /\ Good(Run(q, kinds))
  <2> HIDE DEF Good
  <2> QED BY <1>4, <1>5
<1> QED BY <1>6

\* The end of the file is no token.
LEMMA EofIsNoKind == "eof" \notin Newline \cup InValue \cup CanStartWord \cup {"sp"} \cup TokenKinds
  BY DEF Newline, InValue, CanStartWord, Punctuation, TokenKinds

\* The first token is of these kinds exactly if they do not end there.
LEMMA RunStarts ==
  ASSUME NEW q \in Seq(Token), NEW kinds, "eof" \notin kinds, Kind(q) \in kinds
  PROVE  Run(q, kinds) \in 1 .. Len(q)
<1>1. Run(q, kinds) \in 0 .. Len(q) /\ Kind(After(q, Run(q, kinds))) \notin kinds
  BY RunEnds
<1>2. Kind(After(q, 0)) = Kind(q)
  <2>1. 0 \in 0 .. Len(q)
    OBVIOUS
  <2>2. Kind(After(q, 0)) = IF 0 = Len(q) THEN "eof" ELSE q[0 + 1].k
    BY <2>1, AfterTyped
  <2>3. 0 = Len(q) <=> q = <<>>
    OBVIOUS
  <2> QED BY <2>2, <2>3 DEF Kind
<1> QED BY <1>1, <1>2

LEMMA SwallowTyped ==
  ASSUME NEW q \in Seq(Token)
  PROVE  Swallow(q) \in Seq(Token) /\ Len(Swallow(q)) <= Len(q) /\ EndOf(Swallow(q), q)
<1>1. Kind(q) = "bad" => q # <<>>
  BY KindTyped
<1> QED BY <1>1, TailTyped, TailIsEnd, AfterIsEnd DEF Swallow

LEMMA SpacesTyped ==
  ASSUME NEW q \in Seq(Token)
  PROVE  /\ skip_spaces(q) \in Seq(Token) /\ Len(skip_spaces(q)) <= Len(q)
         /\ EndOf(skip_spaces(q), q)
<1> DEFINE n == Run(q, {"sp"})
<1>1. n \in 0 .. Len(q)
  BY RunEnds
<1>2. After(q, n) \in Seq(Token) /\ Len(After(q, n)) = Len(q) - n
  BY <1>1, AfterTyped
<1>3. Swallow(After(q, n)) \in Seq(Token) /\ Len(Swallow(After(q, n))) <= Len(After(q, n))
  BY <1>2, SwallowTyped
<1>4. skip_spaces(q) = Swallow(After(q, n))
  BY DEF skip_spaces
<1> HIDE DEF n
<1>5. EndOf(After(q, n), q) /\ EndOf(Swallow(After(q, n)), After(q, n))
  BY <1>1, <1>2, AfterIsEnd, SwallowTyped
<1>6. EndOf(Swallow(After(q, n)), q)
  BY <1>5, EndOfEnd
<1> QED BY <1>1, <1>2, <1>3, <1>4, <1>6

LEMMA NextSpacesTyped ==
  ASSUME NEW q \in Seq(Token), q # <<>>
  PROVE  /\ skip_spaces(Tail(q)) \in Seq(Token) /\ Len(skip_spaces(Tail(q))) < Len(q)
         /\ EndOf(skip_spaces(Tail(q)), q)
<1> DEFINE t == Tail(q)
<1>1. t \in Seq(Token) /\ Len(t) = Len(q) - 1 /\ EndOf(t, q)
  BY TailTyped, TailIsEnd
<1> HIDE DEF t
<1>2. /\ skip_spaces(t) \in Seq(Token) /\ Len(skip_spaces(t)) <= Len(t)
      /\ EndOf(skip_spaces(t), t)
  BY <1>1, SpacesTyped
<1>3. Len(skip_spaces(t)) \in Nat /\ Len(q) \in Nat
  BY <1>2
<1>4. Len(skip_spaces(t)) < Len(q)
  BY <1>1, <1>2, <1>3
<1>5. EndOf(skip_spaces(t), q)
  BY <1>1, <1>2, EndOfEnd
<1> QED BY <1>2, <1>4, <1>5 DEF t

LEMMA NewlinesTyped ==
  ASSUME NEW q \in Seq(Token)
  PROVE  /\ eat_newlines(q).rest \in Seq(Token)
         /\ Len(eat_newlines(q).rest) <= Len(q)
         /\ Kind(q) \in Newline => Len(eat_newlines(q).rest) < Len(q)
         /\ EndOf(eat_newlines(q).rest, q)
         /\ eat_newlines(q).line \in [indented : BOOLEAN, found : BOOLEAN]
<1> DEFINE n == Run(q, Newline)
<1>1. n \in 0 .. Len(q) /\ (Kind(q) \in Newline => n \in 1 .. Len(q))
  BY EofIsNoKind, RunEnds, RunStarts
<1>2. After(q, n) \in Seq(Token) /\ Len(After(q, n)) = Len(q) - n
  BY <1>1, AfterTyped
<1>3. Swallow(After(q, n)) \in Seq(Token) /\ Len(Swallow(After(q, n))) <= Len(After(q, n))
  BY <1>2, SwallowTyped
<1>4. eat_newlines(q).rest = Swallow(After(q, n))
  BY DEF eat_newlines
<1>5. eat_newlines(q).line \in [indented : BOOLEAN, found : BOOLEAN]
  BY DEF eat_newlines
<1> HIDE DEF n
<1>6. EndOf(After(q, n), q) /\ EndOf(Swallow(After(q, n)), After(q, n))
  BY <1>1, <1>2, AfterIsEnd, SwallowTyped
<1>7. EndOf(Swallow(After(q, n)), q)
  BY <1>6, EndOfEnd
<1> QED BY <1>1, <1>2, <1>3, <1>4, <1>5, <1>7

LEMMA AssignmentTyped ==
  ASSUME NEW q \in Seq(Token), NEW a \in Assignment(q)
  PROVE  a.rest \in Seq(Token) /\ Len(a.rest) < Len(q) /\ EndOf(a.rest, q)
<1>1. PICK v \in ValueTokens(q) : a.rest = After(v, Run(v, InValue))
  BY DEF Assignment
<1>2. Kind(q) = "word" /\ v = skip_spaces(Tail(skip_spaces(Tail(q))))
      /\ Kind(skip_spaces(Tail(q))) = "="
  BY DEF ValueTokens
<1>3. q # <<>> /\ Len(q) >= 1
  BY <1>2, KindTyped
<1> DEFINE r == Tail(q)
           e == skip_spaces(r)
           t == Tail(e)
<1>4. r \in Seq(Token) /\ Len(r) = Len(q) - 1 /\ EndOf(r, q)
  BY <1>3, TailTyped, TailIsEnd
<1> HIDE DEF r
<1>5. e \in Seq(Token) /\ Len(e) <= Len(r) /\ EndOf(e, r)
  BY <1>4, SpacesTyped
<1>6. e # <<>>
  BY <1>2, <1>5, KindTyped DEF r
<1> HIDE DEF e
<1>7. t \in Seq(Token) /\ Len(t) = Len(e) - 1 /\ EndOf(t, e)
  BY <1>5, <1>6, TailTyped, TailIsEnd
<1>8. v = skip_spaces(t)
  BY <1>2 DEF e, r
<1> HIDE DEF t
<1>9. v \in Seq(Token) /\ Len(v) <= Len(t) /\ EndOf(v, t)
  BY <1>7, <1>8, SpacesTyped
<1>10. Run(v, InValue) \in 0 .. Len(v)
  BY <1>9, EofIsNoKind, RunEnds
<1>11. a.rest \in Seq(Token) /\ Len(a.rest) = Len(v) - Run(v, InValue)
  BY <1>1, <1>9, <1>10, AfterTyped
<1>12. EndOf(a.rest, v)
  BY <1>1, <1>9, <1>10, AfterIsEnd
<1>13. EndOf(a.rest, q)
  BY <1>4, <1>5, <1>7, <1>9, <1>12, EndOfEnd
<1> QED BY <1>4, <1>5, <1>7, <1>9, <1>10, <1>11, <1>13

-----------------------------------------------------------------------------
(* Steps.                                                                  *)

\* Where the parser may be without having read on: what comes next takes a
\* token, or goes to a place with a smaller rank.
Rank(p) == IF p = "statement" THEN 0 ELSE IF p = "top" THEN 1 ELSE 2

\* The innermost call reads on, with q left to read.
ReadsOn(q) ==
  /\ lexers' = <<q>> \o Tail(lexers) /\ EndOf(q, toks)
  /\ \/ Len(q) < Len(toks)
     \/ Len(q) = Len(toks) /\ Rank(pc') < Rank(pc)
  /\ pc' \in Places \ {"end"} /\ UNCHANGED outcome

\* It includes a file with the tokens f, and will read on with q.
Includes(f, q) ==
  /\ Len(lexers) < MaxDepth
  /\ lexers' = <<f, q>> \o Tail(lexers) /\ EndOf(q, toks)
  /\ \E p \in DOMAIN Included : f = Tokens(Included[p])
  /\ Len(q) <= Len(toks)
  /\ pc = "include" /\ pc' = "top" /\ UNCHANGED outcome

\* It has read its file.
Leaves ==
  /\ Len(lexers) > 1 /\ lexers' = Tail(lexers) /\ toks = <<>>
  /\ pc = "statement" /\ pc' = "top" /\ UNCHANGED outcome

\* parse returns, or dies.
Stops ==
  /\ pc' = "end" /\ outcome' \in {"Ok", "Err", "Panic", "Overflow"} /\ UNCHANGED lexers
  /\ outcome' = "Ok" => Len(lexers) = 1 /\ toks = <<>>

Moves ==
  \/ \E q \in Seq(Token) : ReadsOn(q)
  \/ \E f, q \in Seq(Token) : Includes(f, q)
  \/ Leaves
  \/ Stops

\* Rules are only added, and one that is defined again ends the parsing.
RulesAdded ==
  \A r \in DOMAIN file.rules :
    /\ r \in DOMAIN file.rules'
    /\ pc' # "end" => file.rules'[r] = file.rules[r]

InUse == EndOfHead \cup {"build vars"}
RuleInUse == pc \in InUse => stmt.rule \in DOMAIN file.rules \cup {"phony"}

\* Updates of the statement and of the file are updates of these fields.
Shapes == "rule" \in DOMAIN stmt /\ "rules" \in DOMAIN file

ParserInv == TypeOK /\ RuleInUse /\ Shapes

Keeps ==
  /\ Moves
  /\ line' \in [indented : BOOLEAN, found : BOOLEAN]
  /\ RuleInUse' /\ Shapes' /\ RulesAdded

LEMMA Facts ==
  ASSUME TypeOK
  PROVE  /\ lexers \in Seq(Seq(Token)) /\ Len(lexers) \in Nat
         /\ Len(lexers) >= 1 /\ Len(lexers) <= MaxDepth
         /\ toks \in Seq(Token) /\ Len(toks) \in Nat
         /\ line \in [indented : BOOLEAN, found : BOOLEAN]
<1> DEFINE V == Seq(Token)
<1>1. lexers \in Seq(V) /\ Len(lexers) \in 1 .. MaxDepth
  BY DEF TypeOK, Token
<1>2. toks \in V
  <2> HIDE DEF V
  <2> QED BY <1>1 DEF toks
<1>3. Len(toks) \in Nat
  BY <1>2
<1>4. line \in [indented : BOOLEAN, found : BOOLEAN]
  BY DEF TypeOK
<1> HIDE DEF V
<1>5. Len(lexers) \in Nat /\ Len(lexers) >= 1 /\ Len(lexers) <= MaxDepth
  BY <1>1, MaxDepthAssumption
<1> QED BY <1>1, <1>2, <1>3, <1>4, <1>5 DEF V

LEMMA GotoMoves ==
  ASSUME NEW q \in Seq(Token), NEW p \in Places \ {"end"}, Goto(q, p), EndOf(q, toks),
         Len(q) < Len(toks) \/ (Len(q) = Len(toks) /\ Rank(p) < Rank(pc))
  PROVE  Moves
BY DEF Goto, ReadsOn, Moves

LEMMA EndMoves ==
  ASSUME NEW r \in {"Ok", "Err", "Panic", "Overflow"}, End(r),
         r = "Ok" => Len(lexers) = 1 /\ toks = <<>>
  PROVE  Moves /\ pc' = "end"
BY DEF End, Moves, Stops

LEMMA NextLineMoves ==
  ASSUME TypeOK, NEW q \in Seq(Token), EndOf(q, toks),
         NEW p \in Places \ {"end"}, GotoNextLine(q, p),
         \/ Len(q) < Len(toks)
         \/ Len(q) = Len(toks) /\ (Rank(p) < Rank(pc) \/ Kind(q) \in Newline)
  PROVE  Moves /\ pc' = p /\ line' \in [indented : BOOLEAN, found : BOOLEAN]
<1>1. Goto(eat_newlines(q).rest, p) /\ line' = eat_newlines(q).line
  BY DEF GotoNextLine
<1> DEFINE r == eat_newlines(q).rest
<1>2. /\ r \in Seq(Token) /\ Len(r) <= Len(q) /\ (Kind(q) \in Newline => Len(r) < Len(q))
      /\ EndOf(r, q)
      /\ line' \in [indented : BOOLEAN, found : BOOLEAN]
  BY <1>1, NewlinesTyped
<1>3. Goto(r, p)
  BY <1>1
<1> HIDE DEF r
<1>4. Len(r) \in Nat /\ Len(q) \in Nat /\ Len(toks) \in Nat
  BY <1>2, Facts
<1>5. Len(r) < Len(toks) \/ (Len(r) = Len(toks) /\ Rank(p) < Rank(pc))
  BY <1>2, <1>4
<1>6. Moves
  <2>1. EndOf(r, toks)
    BY <1>2, Facts, EndOfEnd
  <2> QED BY <1>2, <1>3, <1>5, <2>1, GotoMoves
<1> QED BY <1>2, <1>3, <1>6 DEF Goto

\* Where statement and file stay as they are, so does the rule in use.
LEMMA SameStatement ==
  ASSUME RuleInUse, Shapes, UNCHANGED <<file, stmt>>, pc' \in InUse => pc \in InUse
  PROVE  RuleInUse' /\ Shapes' /\ RulesAdded
BY DEF RuleInUse, Shapes, RulesAdded

LEMMA StopKeeps ==
  ASSUME ParserInv, NEW r \in {"Ok", "Err", "Panic", "Overflow"}, End(r),
         r = "Ok" => Len(lexers) = 1 /\ toks = <<>>,
         UNCHANGED <<file, stmt, line>>
  PROVE  Keeps
<1>1. Moves /\ pc' = "end"
  BY EndMoves
<1>2. pc' \notin InUse
  BY <1>1 DEF InUse, EndOfHead
<1> QED BY <1>1, <1>2, SameStatement DEF ParserInv, TypeOK, Keeps

-----------------------------------------------------------------------------

LEMMA TopKeeps ==
  ASSUME ParserInv, Top PROVE Keeps
<1>1. toks \in Seq(Token) /\ Rank("statement") < Rank(pc) /\ "statement" \in Places \ {"end"}
  BY Facts DEF ParserInv, Top, Rank, Places
<1>2. GotoNextLine(toks, "statement") /\ UNCHANGED <<file, stmt>>
  BY DEF Top
<1>3. Moves /\ pc' = "statement" /\ line' \in [indented : BOOLEAN, found : BOOLEAN]
  BY <1>1, <1>2, NextLineMoves, AfterIsEnd DEF ParserInv
<1>4. pc' \notin InUse
  BY <1>3 DEF InUse, EndOfHead
<1> QED BY <1>2, <1>3, <1>4, SameStatement DEF ParserInv, Keeps

LEMMA EndOfFileKeeps ==
  ASSUME ParserInv, EndOfFile PROVE Keeps
<1>0. toks = <<>>
  <2>1. toks \in Seq(Token) /\ Kind(toks) = "eof"
    BY Facts DEF ParserInv, EndOfFile
  <2>2. toks # <<>> => toks[1] \in Token /\ Kind(toks) = toks[1].k
    BY <2>1 DEF Kind
  <2>3. toks[1] \in Token => toks[1].k # "eof"
    BY EofIsNoKind DEF Token
  <2> QED BY <2>1, <2>2, <2>3
<1>1. CASE Len(lexers) = 1
  BY <1>0, <1>1, StopKeeps DEF EndOfFile
<1>2. CASE Len(lexers) # 1
  <2>1. /\ pc = "statement" /\ lexers' = Tail(lexers) /\ pc' = "top" /\ UNCHANGED outcome
        /\ UNCHANGED <<file, stmt, line>>
    BY <1>2 DEF EndOfFile, Includers
  <2>2. Len(lexers) > 1
    <3>1. Len(lexers) \in Nat /\ Len(lexers) >= 1
      BY Facts DEF ParserInv
    <3> QED BY <1>2, <3>1
  <2>3. Moves
    BY <1>0, <2>1, <2>2 DEF Moves, Leaves
  <2>4. pc' \notin InUse
    BY <2>1 DEF InUse, EndOfHead
  <2> QED BY <2>1, <2>3, <2>4, SameStatement DEF ParserInv, TypeOK, Keeps
<1> QED BY <1>1, <1>2

LEMMA KeywordKeeps ==
  ASSUME ParserInv, Keyword PROVE Keeps
<1>1. /\ toks # <<>> /\ toks \in Seq(Token) /\ toks[1].w \in DOMAIN Keywords
      /\ UNCHANGED <<file, line>> /\ stmt' = NoStatement
  BY Facts, KindTyped DEF ParserInv, Keyword, At
<1> DEFINE q == skip_spaces(Tail(toks))
           p == Keywords[toks[1].w]
<1>2. Goto(q, p)
  BY DEF Keyword
<1>3. p \in {"outputs", "rule", "include", "default"}
  BY <1>1 DEF Keywords
<1>4. q \in Seq(Token) /\ Len(q) < Len(toks) /\ EndOf(q, toks)
  BY <1>1, NextSpacesTyped
<1>5. p \in Places \ {"end"} /\ p \notin InUse
  BY <1>3 DEF Places, Lists, EndOfHead, InUse
<1> HIDE DEF q, p
<1>6. Moves /\ pc' = p
  BY <1>2, <1>4, <1>5, GotoMoves DEF Goto
<1> QED BY <1>1, <1>5, <1>6, Facts
        DEF ParserInv, Keeps, RuleInUse, Shapes, RulesAdded, NoStatement

LEMMA GlobalAssignmentKeeps ==
  ASSUME ParserInv, GlobalAssignment PROVE Keeps
<1>1. CASE End("Err") /\ UNCHANGED file
  BY <1>1, StopKeeps DEF GlobalAssignment
<1>2. ASSUME NEW a \in Assignment(toks), Goto(a.rest, "top"),
             file' = [file EXCEPT !.global_scope = Bind(@, a.name, Expanded(a.value))]
      PROVE  Keeps
  <2>1. a.rest \in Seq(Token) /\ Len(a.rest) < Len(toks) /\ EndOf(a.rest, toks)
    BY Facts, AssignmentTyped DEF ParserInv
  <2>2. "top" \in Places \ {"end"} /\ "top" \notin InUse
    BY DEF Places, InUse, EndOfHead
  <2>3. Moves /\ pc' = "top"
    BY <1>2, <2>1, <2>2, GotoMoves DEF Goto
  <2>4. file'.rules = file.rules /\ "rules" \in DOMAIN file'
    BY <1>2 DEF ParserInv, Shapes
  <2>5. UNCHANGED <<stmt, line>>
    BY DEF GlobalAssignment
  <2> QED BY <2>2, <2>3, <2>4, <2>5, Facts
          DEF ParserInv, Keeps, RuleInUse, Shapes, RulesAdded
<1> QED BY <1>1, <1>2 DEF GlobalAssignment

LEMMA RuleNameKeeps ==
  ASSUME ParserInv, RuleName PROVE Keeps
<1> DEFINE r == skip_spaces(Tail(toks))
<1>1. CASE Kind(toks) = "word" /\ Kind(r) \in Newline
  <2>1. /\ GotoNextLine(r, "rule vars") /\ stmt' = [stmt EXCEPT !.name = toks[1].w]
        /\ UNCHANGED file
    BY <1>1 DEF RuleName
  <2>2. toks # <<>> /\ toks \in Seq(Token)
    BY <1>1, Facts, KindTyped DEF ParserInv
  <2>3. r \in Seq(Token) /\ Len(r) < Len(toks) /\ EndOf(r, toks)
    BY <2>2, NextSpacesTyped
  <2>4. "rule vars" \in Places \ {"end"} /\ "rule vars" \notin InUse
    BY DEF Places, InUse, EndOfHead
  <2> HIDE DEF r
  <2>5. Moves /\ pc' = "rule vars" /\ line' \in [indented : BOOLEAN, found : BOOLEAN]
    BY <2>1, <2>3, <2>4, NextLineMoves DEF ParserInv
  <2> QED BY <2>1, <2>4, <2>5 DEF ParserInv, Keeps, RuleInUse, Shapes, RulesAdded
<1>2. CASE ~(Kind(toks) = "word" /\ Kind(r) \in Newline)
  <2>1. End("Err") /\ UNCHANGED <<file, stmt, line>>
    BY <1>2 DEF RuleName
  <2> QED BY <2>1, StopKeeps
<1> QED BY <1>1, <1>2

LEMMA VariableKeeps ==
  ASSUME ParserInv, Variable PROVE Keeps
<1>1. CASE \E r \in {"Err", "Overflow"} : End(r) /\ UNCHANGED <<stmt, line>>
  BY <1>1, StopKeeps DEF Variable
<1>2. ASSUME NEW a \in Assignment(toks), NEW value, GotoNextLine(a.rest, pc),
             stmt' = [stmt EXCEPT !.vars = Bind(@, a.name, value)]
      PROVE  Keeps
  <2>1. a.rest \in Seq(Token) /\ Len(a.rest) < Len(toks) /\ EndOf(a.rest, toks)
    BY Facts, AssignmentTyped DEF ParserInv
  <2>2. pc \in Places \ {"end"} /\ UNCHANGED file
    BY DEF Variable, Places
  <2>3. Moves /\ pc' = pc /\ line' \in [indented : BOOLEAN, found : BOOLEAN]
    BY <1>2, <2>1, <2>2, NextLineMoves DEF ParserInv
  <2>4. stmt'.rule = stmt.rule /\ "rule" \in DOMAIN stmt'
    BY <1>2 DEF ParserInv, Shapes
  <2> QED BY <2>2, <2>3, <2>4 DEF ParserInv, Keeps, RuleInUse, Shapes, RulesAdded
<1> QED BY <1>1, <1>2 DEF Variable

LEMMA RuleDoneKeeps ==
  ASSUME ParserInv, RuleDone PROVE Keeps
<1>0. /\ pc = "rule vars" /\ UNCHANGED <<stmt, line>>
      /\ file' = [file EXCEPT !.rules = Bind(@, stmt.name, stmt.vars)]
  BY DEF RuleDone
<1>1. /\ "rules" \in DOMAIN file' /\ file'.rules = Bind(file.rules, stmt.name, stmt.vars)
  BY <1>0 DEF ParserInv, Shapes
<1>2. \A r \in DOMAIN file.rules :
        /\ r \in DOMAIN file'.rules
        /\ r # stmt.name => file'.rules[r] = file.rules[r]
  BY <1>1 DEF Bind
<1>3. Shapes'
  BY <1>0, <1>1 DEF ParserInv, Shapes
<1>4. line' \in [indented : BOOLEAN, found : BOOLEAN]
  BY <1>0, Facts DEF ParserInv
<1>5. CASE stmt.name \in DOMAIN file.rules
  <2>1. \E r \in {"Err", "Panic"} : End(r)
    BY <1>5 DEF RuleDone
  <2>2. Moves /\ pc' = "end"
    BY <2>1, EndMoves
  <2>3. "end" \notin InUse
    BY DEF InUse, EndOfHead
  <2> QED BY <1>2, <1>3, <1>4, <2>2, <2>3 DEF Keeps, RuleInUse, RulesAdded
<1>6. CASE stmt.name \notin DOMAIN file.rules
  <2>1. Goto(toks, "top")
    BY <1>6 DEF RuleDone
  <2>2. "top" \in Places \ {"end"} /\ "top" \notin InUse
    BY DEF Places, InUse, EndOfHead
  <2>5. Rank("top") < Rank(pc)
    <3>1. pc # "statement" /\ pc # "top"
      BY <1>0
    <3>2. Rank("top") = 1 /\ Rank(pc) = 2
      BY ONLY <3>1 DEF Rank
    <3> QED BY ONLY <3>2
  <2>3. Moves /\ pc' = "top"
    BY <2>1, <2>2, <2>5, Facts, AfterIsEnd, GotoMoves DEF Goto, ParserInv
  <2>4. \A r \in DOMAIN file.rules : r # stmt.name
    BY <1>6
  <2> QED BY <1>2, <1>3, <1>4, <2>2, <2>3, <2>4 DEF Keeps, RuleInUse, RulesAdded
<1> QED BY <1>5, <1>6

LEMMA UnexpectedKeeps ==
  ASSUME ParserInv, UnexpectedStatement \/ NotImplemented \/ UnexpectedInList
  PROVE  Keeps
<1>1. \E r \in {"Err", "Panic"} : End(r)
  BY DEF UnexpectedStatement, NotImplemented, UnexpectedInList
<1>2. UNCHANGED <<file, stmt, line>>
  BY DEF UnexpectedStatement, NotImplemented, UnexpectedInList
<1> QED BY <1>1, <1>2, StopKeeps

\* A path has at least one token.
LEMMA PathKeeps ==
  ASSUME ParserInv, Path PROVE Keeps
<1> DEFINE n == Run(toks, CanStartWord)
           word == SubSeq(toks, 1, n)
           rest == After(toks, n)
           q == skip_spaces(rest)
<1>1. CASE End("Err") /\ UNCHANGED <<file, stmt>>
  BY <1>1, StopKeeps DEF Path
<1>2. CASE /\ Goto(q, pc)
           /\ IF pc = "default"
              THEN /\ file' = [file EXCEPT !.defaults = Append(@, Expanded(word))]
                   /\ UNCHANGED stmt
              ELSE /\ stmt' = [stmt EXCEPT ![pc] = Append(@, Expanded(word))]
                   /\ UNCHANGED file
  <2>1. /\ toks \in Seq(Token) /\ Len(toks) \in Nat /\ Kind(toks) \in CanStartWord
        /\ pc \in Lists /\ UNCHANGED line
    BY Facts DEF ParserInv, Path
  <2>2. n \in 0 .. Len(toks) /\ n > 0
    BY <2>1, EofIsNoKind, RunEnds, RunStarts
  <2>3. rest \in Seq(Token) /\ Len(rest) = Len(toks) - n /\ EndOf(rest, toks)
    BY <2>1, <2>2, AfterTyped, AfterIsEnd
  <2> HIDE DEF n, word, rest
  <2>4. q \in Seq(Token) /\ Len(q) <= Len(rest) /\ EndOf(q, rest)
    BY <2>3, SpacesTyped
  <2>5. pc \in Places \ {"end"} /\ pc # "rule"
    BY <2>1 DEF Places, Lists, EndOfHead
  <2> HIDE DEF q
  <2>6. Len(q) \in Nat
    BY <2>4
  <2>7. Len(q) < Len(toks)
    BY <2>1, <2>2, <2>3, <2>4, <2>6
  <2>8. Moves /\ pc' = pc
    <3>1. EndOf(q, toks)
      BY <2>1, <2>3, <2>4, EndOfEnd
    <3> QED BY <1>2, <2>4, <2>5, <2>7, <3>1, GotoMoves DEF Goto
  <2>9. CASE pc = "default"
    <3>1. file'.rules = file.rules /\ "rules" \in DOMAIN file' /\ UNCHANGED stmt
      BY <1>2, <2>9 DEF ParserInv, Shapes
    <3> QED BY <2>1, <2>8, <3>1, Facts
            DEF ParserInv, Keeps, RuleInUse, Shapes, RulesAdded
  <2>10. CASE pc # "default"
    <3>1. stmt'.rule = stmt.rule /\ "rule" \in DOMAIN stmt' /\ UNCHANGED file
      <4>1. pc # "rule"
        BY <2>5
      <4> QED BY <1>2, <2>10, <4>1, <2>1 DEF ParserInv, Shapes, Lists, EndOfHead
    <3> QED BY <2>1, <2>8, <3>1, Facts
            DEF ParserInv, Keeps, RuleInUse, Shapes, RulesAdded
  <2> QED BY <2>9, <2>10
<1> QED BY <1>1, <1>2 DEF Path

LEMMA MarksLead ==
  ASSUME NEW m \in Marks
  PROVE  /\ m[1] \in Lists /\ m[2] \in {"|", "||", ":"}
         /\ m[3] \in {"implicit_outputs", "build rule", "implicit_inputs", "order_only_inputs"}
         /\ m[3] \in {"implicit_inputs", "order_only_inputs"}
              => m[1] \in {"inputs", "implicit_inputs"}
<1> USE DEF Lists, EndOfHead
<1>1. CASE m = <<"outputs", "|", "implicit_outputs">>  BY <1>1
<1>2. CASE m = <<"outputs", ":", "build rule">>  BY <1>2
<1>3. CASE m = <<"implicit_outputs", ":", "build rule">>  BY <1>3
<1>4. CASE m = <<"inputs", "|", "implicit_inputs">>  BY <1>4
<1>5. CASE m = <<"inputs", "||", "order_only_inputs">>  BY <1>5
<1>6. CASE m = <<"implicit_inputs", "||", "order_only_inputs">>  BY <1>6
<1> QED BY <1>1, <1>2, <1>3, <1>4, <1>5, <1>6 DEF Marks

LEMMA MarkKeeps ==
  ASSUME ParserInv, Mark PROVE Keeps
<1>1. PICK m \in Marks :
        pc = m[1] /\ Kind(toks) = m[2] /\ Goto(skip_spaces(Tail(toks)), m[3])
  BY DEF Mark
<1>2. /\ m[2] \in {"|", "||", ":"}
      /\ m[3] \in {"implicit_outputs", "build rule", "implicit_inputs", "order_only_inputs"}
      /\ m[3] \in {"implicit_inputs", "order_only_inputs"}
           => m[1] \in {"inputs", "implicit_inputs"}
  BY MarksLead
<1> DEFINE q == skip_spaces(Tail(toks))
           p == m[3]
<1>3. toks # <<>> /\ toks \in Seq(Token)
  BY <1>1, <1>2, Facts, KindTyped DEF ParserInv
<1>4. q \in Seq(Token) /\ Len(q) < Len(toks) /\ EndOf(q, toks)
  BY <1>3, NextSpacesTyped
<1>5. p \in Places \ {"end"} /\ (p \in InUse => pc \in InUse)
  BY <1>1, <1>2 DEF Places, Lists, EndOfHead, InUse
<1>6. Goto(q, p) /\ UNCHANGED <<file, stmt, line>>
  BY <1>1 DEF Mark
<1> HIDE DEF q, p
<1>7. Moves /\ pc' = p
  BY <1>4, <1>5, <1>6, GotoMoves DEF Goto
<1> QED BY <1>5, <1>6, <1>7, SameStatement, Facts DEF ParserInv, Keeps

LEMMA HeadDoneKeeps ==
  ASSUME ParserInv, HeadDone PROVE Keeps
<1>1. /\ pc \in EndOfHead /\ Kind(toks) \in Newline /\ toks \in Seq(Token)
      /\ GotoNextLine(toks, "build vars") /\ UNCHANGED <<file, stmt>>
  BY Facts DEF ParserInv, HeadDone
<1>2. "build vars" \in Places \ {"end"} /\ pc \in InUse
  BY <1>1 DEF Places, InUse
<1>3. Moves /\ line' \in [indented : BOOLEAN, found : BOOLEAN]
  BY <1>1, <1>2, NextLineMoves, AfterIsEnd DEF ParserInv
<1> QED BY <1>1, <1>2, <1>3, SameStatement DEF ParserInv, Keeps

LEMMA DefaultDoneKeeps ==
  ASSUME ParserInv, DefaultDone PROVE Keeps
<1>1. pc = "default" /\ Goto(toks, "top") /\ UNCHANGED <<file, stmt, line>>
  BY DEF DefaultDone
<1>2. "top" \in Places \ {"end"} /\ "top" \notin InUse
  BY DEF Places, InUse, EndOfHead
<1>3. Rank("top") = 1 /\ Rank("default") = 2
  BY DEF Rank
<1>4. toks \in Seq(Token)
  BY Facts DEF ParserInv
<1>5. Moves /\ pc' = "top"
  BY <1>1, <1>2, <1>3, <1>4, AfterIsEnd, GotoMoves DEF Goto
<1> QED BY <1>1, <1>2, <1>5, SameStatement, Facts DEF ParserInv, Keeps

LEMMA BuildRuleKeeps ==
  ASSUME ParserInv, BuildRule PROVE Keeps
<1>1. CASE Kind(toks) = "word" /\ toks[1].w \in KnownRules
  <2> DEFINE q == skip_spaces(Tail(toks))
  <2>1. /\ Goto(q, "inputs") /\ stmt' = [stmt EXCEPT !.rule = toks[1].w]
        /\ UNCHANGED <<file, line>>
    BY <1>1 DEF BuildRule
  <2>2. toks # <<>> /\ toks \in Seq(Token)
    BY <1>1, Facts, KindTyped DEF ParserInv
  <2>3. q \in Seq(Token) /\ Len(q) < Len(toks) /\ EndOf(q, toks)
    BY <2>2, NextSpacesTyped
  <2>4. "inputs" \in Places \ {"end"}
    BY DEF Places, Lists, EndOfHead
  <2> HIDE DEF q
  <2>5. Moves /\ pc' = "inputs"
    BY <2>1, <2>3, <2>4, GotoMoves DEF Goto
  <2>6. stmt'.rule \in DOMAIN file.rules \cup {"phony"} /\ "rule" \in DOMAIN stmt'
    BY <1>1, <2>1 DEF ParserInv, Shapes, KnownRules
  <2> QED BY <2>1, <2>5, <2>6, Facts
          DEF ParserInv, Keeps, RuleInUse, Shapes, RulesAdded
<1>2. CASE ~(Kind(toks) = "word" /\ toks[1].w \in KnownRules)
  <2>1. End("Err") /\ UNCHANGED <<file, stmt, line>>
    BY <1>2 DEF BuildRule
  <2> QED BY <2>1, StopKeeps
<1> QED BY <1>1, <1>2

\* After a build statement the lexer is where it was.
LEMMA StatementRead ==
  ASSUME ParserInv, pc = "build vars", Goto(toks, "top"), UNCHANGED <<stmt, line>>,
         "rules" \in DOMAIN file', file'.rules = file.rules
  PROVE  Keeps
<1>1. "top" \in Places \ {"end"} /\ "top" \notin InUse
  BY DEF Places, InUse, EndOfHead
<1>2. Rank("top") < Rank(pc)
  <2>1. pc # "statement" /\ pc # "top"
    OBVIOUS
  <2>2. Rank("top") = 1 /\ Rank(pc) = 2
    BY ONLY <2>1 DEF Rank
  <2> QED BY ONLY <2>2
<1>3. toks \in Seq(Token) /\ Goto(toks, "top")
  BY Facts DEF ParserInv
<1>4. Moves
  BY <1>1, <1>2, <1>3, AfterIsEnd, GotoMoves
<1>5. pc' = "top"
  BY <1>3 DEF Goto
<1> QED BY <1>1, <1>4, <1>5, Facts DEF ParserInv, Keeps, RuleInUse, Shapes, RulesAdded

LEMMA BuildDoneKeeps ==
  ASSUME ParserInv, BuildDone PROVE Keeps
<1>1. pc = "build vars" /\ UNCHANGED <<stmt, line>>
  BY DEF BuildDone
<1>2. CASE \E r \in {"Err", "Overflow"} : End(r) /\ UNCHANGED file
  BY <1>1, <1>2, StopKeeps
<1>3. ASSUME NEW b, Goto(toks, "top"), file' = [file EXCEPT !.builds = Append(@, b)]
      PROVE  Keeps
  <2>1. "rules" \in DOMAIN file' /\ file'.rules = file.rules
    BY <1>3 DEF ParserInv, Shapes
  <2> QED BY <1>1, <1>3, <2>1, StatementRead
<1>4. \/ \E r \in {"Err", "Overflow"} : End(r) /\ UNCHANGED file
      \/ \E b : Goto(toks, "top") /\ file' = [file EXCEPT !.builds = Append(@, b)]
  BY DEF BuildDone
<1> QED BY <1>2, <1>3, <1>4

LEMMA PhonyDoneKeeps ==
  ASSUME ParserInv, PhonyDone PROVE Keeps
<1>1. /\ pc = "build vars" /\ Goto(toks, "top") /\ UNCHANGED <<stmt, line>>
      /\ \E f : file' = [file EXCEPT !.phony = f]
  BY DEF PhonyDone
<1>2. "rules" \in DOMAIN file' /\ file'.rules = file.rules
  BY <1>1 DEF ParserInv, Shapes
<1> QED BY <1>1, <1>2, StatementRead

LEMMA IncludeKeeps ==
  ASSUME ParserInv, Include PROVE Keeps
<1> DEFINE n == Run(toks, CanStartWord)
           rest == After(toks, n)
           path == Expanded(SubSeq(toks, 1, n))
           f == Tokens(Included[path])
           q == skip_spaces(rest)
<1>1. CASE \E r \in {"Err", "Panic", "Overflow"} : End(r)
  BY <1>1, StopKeeps DEF Include
<1>2. CASE /\ path \in DOMAIN Included /\ Len(lexers) # MaxDepth
           /\ lexers' = <<f, q>> \o Tail(lexers)
           /\ pc' = "top" /\ UNCHANGED outcome
  <2>1. /\ toks \in Seq(Token) /\ Len(toks) \in Nat
        /\ Len(lexers) \in Nat /\ Len(lexers) <= MaxDepth
        /\ pc = "include" /\ UNCHANGED <<file, stmt, line>>
    BY Facts DEF ParserInv, Include
  <2>2. f \in Seq(Token)
    BY <1>2, IncludedAssumption, TokensTyped
  <2>3. n \in 0 .. Len(toks)
    BY <2>1, EofIsNoKind, RunEnds
  <2>4. rest \in Seq(Token) /\ Len(rest) = Len(toks) - n /\ EndOf(rest, toks)
    BY <2>1, <2>3, AfterTyped, AfterIsEnd
  <2>11. \E p \in DOMAIN Included : f = Tokens(Included[p])
    BY <1>2
  <2> HIDE DEF n, rest, path, f
  <2>5. q \in Seq(Token) /\ Len(q) <= Len(rest) /\ EndOf(q, rest)
    BY <2>4, SpacesTyped
  <2> HIDE DEF q
  <2>6. Len(q) \in Nat
    BY <2>5
  <2>7. Len(q) <= Len(toks)
    BY <2>1, <2>3, <2>4, <2>5, <2>6
  <2>8. Len(lexers) < MaxDepth
    BY <1>2, <2>1, MaxDepthAssumption
  <2>12. EndOf(q, toks)
    BY <2>1, <2>4, <2>5, EndOfEnd
  <2>9. Moves
    BY <1>2, <2>1, <2>2, <2>5, <2>7, <2>8, <2>11, <2>12 DEF Moves, Includes
  <2>10. pc' \notin InUse
    BY <1>2 DEF InUse, EndOfHead
  <2> QED BY <2>1, <2>9, <2>10, SameStatement, Facts DEF ParserInv, Keeps
<1> QED BY <1>1, <1>2 DEF Include

-----------------------------------------------------------------------------
(* All steps.                                                              *)

LEMMA KeepsIsEnough ==
  ASSUME ParserInv, pc # "end", Keeps PROVE ParserInv'
<1> DEFINE V == Seq(Token)
<1>1. /\ lexers \in Seq(V) /\ Len(lexers) \in Nat
      /\ Len(lexers) >= 1 /\ Len(lexers) <= MaxDepth /\ MaxDepth \in Nat
  BY Facts, MaxDepthAssumption DEF ParserInv
<1>2. /\ pc \in Places /\ outcome = "none"
      /\ "top" \in Places \ {"end"} /\ "end" \in Places
  BY DEF ParserInv, TypeOK, Places
<1> DEFINE Good == /\ lexers' \in Seq(V) /\ Len(lexers') \in 1 .. MaxDepth
                   /\ pc' \in Places
                   /\ outcome' \in {"none", "Ok", "Err", "Panic", "Overflow"}
                   /\ outcome' # "none" <=> pc' = "end"
<1>3. ASSUME NEW q \in V, ReadsOn(q) PROVE Good
  <2>1. /\ lexers' = <<q>> \o Tail(lexers) /\ pc' \in Places \ {"end"}
        /\ outcome' = outcome
    BY <1>3 DEF ReadsOn
  <2> HIDE DEF V
  <2> QED BY <1>1, <1>2, <2>1
<1>4. ASSUME NEW f \in V, NEW q \in V, Includes(f, q) PROVE Good
  <2>1. /\ lexers' = <<f, q>> \o Tail(lexers) /\ pc' = "top"
        /\ outcome' = outcome /\ Len(lexers) < MaxDepth
    BY <1>4 DEF Includes
  <2> HIDE DEF V
  <2> QED BY <1>1, <1>2, <2>1
<1>5. ASSUME Leaves PROVE Good
  <2>1. /\ lexers' = Tail(lexers) /\ pc' = "top"
        /\ outcome' = outcome /\ Len(lexers) > 1
    BY <1>5 DEF Leaves
  <2> HIDE DEF V
  <2> QED BY <1>1, <1>2, <2>1
<1>6. ASSUME Stops PROVE Good
  <2>1. /\ lexers' = lexers /\ pc' = "end"
        /\ outcome' \in {"Ok", "Err", "Panic", "Overflow"}
    BY <1>6 DEF Stops
  <2> HIDE DEF V
  <2> QED BY <1>1, <1>2, <2>1
<1>7. Good
  BY <1>3, <1>4, <1>5, <1>6 DEF Keeps, Moves
<1>8. pc' = "build vars" => stmt'.rule \in DOMAIN file'.rules \cup {"phony"}
  BY DEF Keeps, RuleInUse, InUse
<1>9. line' \in [indented : BOOLEAN, found : BOOLEAN] /\ RuleInUse' /\ Shapes'
  BY DEF Keeps
<1> HIDE DEF Good
<1>10. TypeOK'
  <2>1. V = Seq([k : TokenKinds, w : STRING, ind : BOOLEAN])
    BY DEF Token
  <2> HIDE DEF V
  <2> QED BY <1>7, <1>8, <1>9, <2>1 DEF Good, TypeOK
<1> QED BY <1>9, <1>10 DEF ParserInv

LEMMA NextKeeps ==
  ASSUME ParserInv, Next PROVE pc # "end" /\ Keeps
<1>1. Keeps
  BY TopKeeps, EndOfFileKeeps, UnexpectedKeeps, KeywordKeeps, GlobalAssignmentKeeps,
     RuleNameKeeps, VariableKeeps, RuleDoneKeeps, PathKeeps, MarkKeeps, HeadDoneKeeps,
     DefaultDoneKeeps, BuildRuleKeeps, BuildDoneKeeps, PhonyDoneKeeps, IncludeKeeps
     DEF Next
<1>2. pc # "end"
  <2>1. \A m \in Marks : m[1] # "end"
    BY MarksLead DEF Lists, EndOfHead
  <2> QED BY <2>1 DEF Next, Top, EndOfFile, UnexpectedStatement, Keyword, At,
          NotImplemented, GlobalAssignment, RuleName, Variable, RuleDone, Path, Mark,
          HeadDone, DefaultDone, UnexpectedInList, BuildRule, BuildDone, PhonyDone,
          Include, Lists, EndOfHead
<1> QED BY <1>1, <1>2

LEMMA InitTyped ==
  ASSUME Init PROVE ParserInv
<1> DEFINE V == Seq(Token)
           t == Tokens(main)
<1>1. t \in V
  BY MainsAssumption, TokensTyped DEF Init
<1>2. lexers = <<t>>
  BY DEF Init
<1>3. lexers \in Seq(V) /\ Len(lexers) \in 1 .. MaxDepth
  <2> HIDE DEF V, t
  <2> QED BY <1>1, <1>2, MaxDepthAssumption
<1>4. /\ pc = "top" /\ outcome = "none"
      /\ line = [indented |-> FALSE, found |-> FALSE]
      /\ Shapes
  BY DEF Init, Shapes, NoStatement
<1>5. "top" \in Places /\ "top" \notin InUse
  BY DEF Places, InUse, EndOfHead
<1>6. TypeOK
  <2>1. V = Seq([k : TokenKinds, w : STRING, ind : BOOLEAN])
    BY DEF Token
  <2> HIDE DEF V
  <2> QED BY <1>3, <1>4, <1>5, <2>1 DEF TypeOK
<1> QED BY <1>4, <1>5, <1>6 DEF ParserInv, RuleInUse

\* For every ninja file, whatever it includes, with includes nested up to every
\* depth: the parser is at one of its places, each call's lexer has a sequence
\* of tokens left, the parser has an outcome exactly when it is at its end, and
\* from the name of the rule on, the rule of a build statement is one that is
\* defined, so that expand_build finds its variables.
THEOREM ParserInvariance == Spec => []ParserInv
<1>1. Init => ParserInv
  BY InitTyped
<1>2. ParserInv /\ [Next]_vars => ParserInv'
  <2>1. ASSUME ParserInv, Next PROVE ParserInv'
    BY <2>1, NextKeeps, KeepsIsEnough
  <2>2. ASSUME ParserInv, UNCHANGED vars PROVE ParserInv'
    <3>1. /\ pc' = pc /\ outcome' = outcome /\ lexers' = lexers /\ line' = line
          /\ stmt' = stmt /\ file' = file
      BY <2>2 DEF vars
    <3>2. TypeOK' /\ RuleInUse' /\ Shapes'
      BY <2>2, <3>1 DEF ParserInv, TypeOK, RuleInUse, Shapes
    <3> QED BY <3>2 DEF ParserInv
  <2> QED BY <2>1, <2>2
<1> QED BY <1>1, <1>2, PTL DEF Spec

\* In particular the types the runs check, for files and includes of every size.
THEOREM ParserTypes == Spec => []TypeOK
<1>1. ParserInv => TypeOK
  BY DEF ParserInv
<1> QED BY <1>1, ParserInvariance, PTL

-----------------------------------------------------------------------------
(* What the steps do.                                                      *)

\* No rule that has been read is lost or changed, whatever follows it and from
\* whichever file: one that is defined a second time ends the parsing, with
\* "Rule ... is already defined" or, at the end of the file, with a panic.
THEOREM RulesStay == Spec => [][RulesAdded]_vars
<1>1. ParserInv /\ [Next]_vars => [RulesAdded]_vars
  BY NextKeeps DEF Keeps
<1> QED BY <1>1, ParserInvariance, PTL DEF Spec

\* How much the call of parse_inner at depth d, the outermost being at 1, has
\* still to do.  One that waits for a file it includes will go on at "top".
Left(d) ==
  LET n == Len(lexers)
  IN IF d > n THEN 0
     ELSE 1 + 3 * Len(lexers[n + 1 - d]) + (IF d = n THEN Rank(pc) ELSE 1)

\* It is less for some call, and the calls further out are where they were.
Less ==
  \E d \in 1 .. MaxDepth :
    Left(d)' < Left(d) /\ \A e \in 1 .. d - 1 : Left(e)' = Left(e)

LEMMA MovesLessen ==
  ASSUME ParserInv, Moves PROVE pc' = "end" \/ Less
<1> DEFINE V == Seq(Token)
           L(d) == Len(lexers[d])
<1> PICK n \in Nat : n = Len(lexers)
  BY Facts DEF ParserInv
<1>0. \A p : Rank(p) \in 0 .. 2
  BY DEF Rank
<1>1. /\ lexers \in Seq(V) /\ n = Len(lexers) /\ n >= 1 /\ n <= MaxDepth /\ MaxDepth \in Nat
      /\ L(1) \in Nat
  BY Facts, MaxDepthAssumption DEF ParserInv, toks
<1>2. n \in 1 .. MaxDepth
  BY <1>1
<1>3. ASSUME NEW q \in V, ReadsOn(q) PROVE Less
  <2>1. /\ lexers' = <<q>> \o Tail(lexers)
        /\ \/ Len(q) < L(1)
           \/ Len(q) = L(1) /\ Rank(pc') < Rank(pc)
        /\ Len(q) \in Nat
    BY <1>3 DEF ReadsOn, toks
  <2> HIDE DEF V
  <2>2. Len(lexers') = n /\ lexers'[1] = q
    BY <1>1, <2>1
  <2>3. \A i \in 2 .. n : lexers'[i] = lexers[i]
    BY <1>1, <2>1
  <2>4. Left(n) = 1 + 3 * L(1) + Rank(pc)
    BY <1>1 DEF Left
  <2>5. Left(n)' = 1 + 3 * Len(q) + Rank(pc')
    BY <1>1, <2>2 DEF Left
  <2>6. Left(n)' < Left(n)
    BY <1>0, <1>1, <2>1, <2>4, <2>5
  <2>7. ASSUME NEW e \in 1 .. n - 1 PROVE Left(e)' = Left(e)
    <3>1. e \in Nat /\ e <= n /\ e # n /\ n + 1 - e \in 2 .. n
      BY <1>1
    <3> QED BY <1>1, <2>2, <2>3, <3>1 DEF Left
  <2> QED BY <1>2, <2>6, <2>7 DEF Less
<1>4. ASSUME NEW f \in V, NEW q \in V, Includes(f, q) PROVE Less
  <2>1. /\ lexers' = <<f, q>> \o Tail(lexers)
        /\ Len(q) <= L(1) /\ pc = "include"
        /\ Len(q) \in Nat
    BY <1>4 DEF Includes, toks
  <2> HIDE DEF V
  <2>2. Len(lexers') = n + 1 /\ lexers'[2] = q
    BY <1>1, <2>1
  <2>3. \A i \in 2 .. n : lexers'[i + 1] = lexers[i]
    BY <1>1, <2>1
  <2>4. Left(n) = 1 + 3 * L(1) + 2
    <3>1. Rank(pc) = 2
      BY <2>1 DEF Rank
    <3> QED BY <1>1, <3>1 DEF Left
  <2>5. Left(n)' = 1 + 3 * Len(q) + 1
    BY <1>1, <2>2 DEF Left
  <2>6. Left(n)' < Left(n)
    BY <1>1, <2>1, <2>4, <2>5
  <2>7. ASSUME NEW e \in 1 .. n - 1 PROVE Left(e)' = Left(e)
    <3>1. e \in Nat /\ e <= n /\ e # n /\ n + 1 - e \in 2 .. n
      BY <1>1
    <3>2. lexers'[(n + 1) + 1 - e] = lexers[n + 1 - e]
      <4>1. (n + 1) + 1 - e = (n + 1 - e) + 1
        BY <1>1
      <4> QED BY <2>3, <3>1, <4>1
    <3> QED BY <1>1, <2>2, <3>1, <3>2 DEF Left
  <2> QED BY <1>2, <2>6, <2>7 DEF Less
<1>5. ASSUME Leaves PROVE Less
  <2>1. lexers' = Tail(lexers) /\ n > 1 /\ pc' = "top"
    BY <1>5 DEF Leaves
  <2> HIDE DEF V
  <2>2. Len(lexers') = n - 1
    BY <1>1, <2>1
  <2>3. \A i \in 2 .. n : lexers'[i - 1] = lexers[i]
    BY <1>1, <2>1
  <2>4. Left(n) > 0
    BY <1>0, <1>1 DEF Left
  <2>5. Left(n)' = 0
    BY <1>1, <2>2 DEF Left
  <2>6. Left(n)' < Left(n)
    BY <2>4, <2>5
  <2>7. ASSUME NEW e \in 1 .. n - 1 PROVE Left(e)' = Left(e)
    <3>1. e \in Nat /\ e <= n /\ e # n /\ n + 1 - e \in 2 .. n
      BY <1>1
    <3>2. lexers'[(n - 1) + 1 - e] = lexers[n + 1 - e]
      <4>1. (n - 1) + 1 - e = (n + 1 - e) - 1
        BY <1>1
      <4> QED BY <2>3, <3>1, <4>1
    <3>3. Rank(pc') = 1
      BY <2>1 DEF Rank
    <3> QED BY <1>1, <2>2, <3>1, <3>2, <3>3 DEF Left
  <2> QED BY <1>2, <2>6, <2>7 DEF Less
<1> QED BY <1>3, <1>4, <1>5 DEF Moves, Stops

\* The safety core of ParserEnds, for includes of every depth: each step ends
\* the parsing or leaves one call of parse_inner less to do, with nothing more
\* for the calls around it.  In MaxDepth natural numbers, compared from the
\* outermost call on, that cannot be repeated for ever: no statement, error or
\* blank line is ever read again, though some steps do not consume a token.
THEOREM ParserGoesOn == Spec => [][pc # "end" /\ (pc' = "end" \/ Less)]_vars
<1>1. ParserInv /\ [Next]_vars => [pc # "end" /\ (pc' = "end" \/ Less)]_vars
  BY NextKeeps, MovesLessen DEF Keeps
<1> QED BY <1>1, ParserInvariance, PTL DEF Spec
-----------------------------------------------------------------------------
(* What has been read.                                                     *)

\* What is left to the outermost call is an end of the file given to parse;
\* what is left to another is an end of a file that is included.
Origins ==
  /\ EndOf(lexers[Len(lexers)], Tokens(main))
  /\ \A i \in 1 .. Len(lexers) - 1 :
       \E p \in DOMAIN Included : EndOf(lexers[i], Tokens(Included[p]))

AllRead == outcome = "Ok" => Len(lexers) = 1 /\ toks = <<>>

ReadingInv == ParserInv /\ main \in Mains /\ Origins /\ AllRead

LEMMA MainStays ==
  ASSUME Next PROVE UNCHANGED main
BY DEF Next, Top, EndOfFile, UnexpectedStatement, Keyword,
       NotImplemented, GlobalAssignment, RuleName, Variable, RuleDone, Path, Mark,
       HeadDone, DefaultDone, UnexpectedInList, BuildRule, BuildDone, PhonyDone, Include

LEMMA FilesTyped ==
  ASSUME ParserInv
  PROVE  \A p \in DOMAIN Included : Tokens(Included[p]) \in Seq(Token)
BY IncludedAssumption, TokensTyped

LEMMA NextReads ==
  ASSUME ReadingInv, Tokens(main) \in Seq(Token), pc # "end", Keeps, UNCHANGED main
  PROVE  Origins' /\ AllRead'
<1> DEFINE V == Seq(Token)
           M == Tokens(main)
           Of(r) == \E p \in DOMAIN Included : EndOf(r, Tokens(Included[p]))
<1> PICK n \in Nat : n = Len(lexers)
  BY Facts DEF ReadingInv, ParserInv
<1>1. /\ lexers \in Seq(V) /\ n = Len(lexers) /\ n >= 1
      /\ toks \in V /\ toks = lexers[1]
  BY Facts DEF ReadingInv, ParserInv, toks
<1>2. EndOf(lexers[n], M) /\ \A i \in 1 .. n - 1 : Of(lexers[i])
  BY <1>1 DEF ReadingInv, Origins
<1>3. ASSUME NEW q, EndOf(q, toks)
      PROVE  (n = 1 => EndOf(q, M)) /\ (n # 1 => Of(q))
  <2>1. CASE n = 1
    BY <1>1, <1>2, <1>3, <2>1, EndOfEnd
  <2>2. CASE n # 1
    <3>1. Of(toks)
      BY <1>1, <1>2, <2>2
    <3>2. PICK p \in DOMAIN Included : EndOf(toks, Tokens(Included[p]))
      BY <3>1
    <3>3. EndOf(q, Tokens(Included[p]))
      BY <1>3, <3>2, FilesTyped, EndOfEnd DEF ReadingInv
    <3> QED BY <2>2, <3>3
  <2> QED BY <2>1, <2>2
<1>4. pc # "end" => outcome = "none"
  BY DEF ReadingInv, ParserInv, TypeOK
<1>5. main' = main
  OBVIOUS
<1> HIDE DEF M, Of
<1>6. ASSUME NEW q \in V, ReadsOn(q) PROVE Origins' /\ AllRead'
  <2>1. lexers' = <<q>> \o Tail(lexers) /\ EndOf(q, toks) /\ outcome' = outcome
    BY <1>6 DEF ReadsOn
  <2> HIDE DEF V
  <2>2. Len(lexers') = n /\ lexers'[1] = q /\ \A i \in 2 .. n : lexers'[i] = lexers[i]
    BY <1>1, <2>1
  <2>3. EndOf(lexers'[n], M)
    BY <1>1, <1>2, <1>3, <2>1, <2>2
  <2>4. \A i \in 1 .. n - 1 : Of(lexers'[i])
    BY <1>1, <1>2, <1>3, <2>1, <2>2
  <2> QED BY <1>4, <1>5, <2>1, <2>2, <2>3, <2>4 DEF Origins, AllRead, M, Of
<1>7. ASSUME NEW f \in V, NEW q \in V, Includes(f, q) PROVE Origins' /\ AllRead'
  <2>1. /\ lexers' = <<f, q>> \o Tail(lexers) /\ EndOf(q, toks) /\ outcome' = outcome
        /\ Of(f)
    BY <1>7, AfterIsEnd DEF Includes, Of
  <2> HIDE DEF V
  <2>2. /\ Len(lexers') = n + 1 /\ lexers'[1] = f /\ lexers'[2] = q
        /\ \A i \in 2 .. n : lexers'[i + 1] = lexers[i]
    BY <1>1, <2>1
  <2>3. EndOf(lexers'[n + 1], M)
    BY <1>1, <1>2, <1>3, <2>1, <2>2
  <2>4. ASSUME NEW i \in 1 .. n PROVE Of(lexers'[i])
    <3>1. CASE i = 1 BY <2>1, <2>2, <3>1
    <3>2. CASE i = 2 BY <1>1, <1>3, <2>1, <2>2, <3>2
    <3>3. CASE i > 2
      <4>1. i - 1 \in 2 .. n - 1 /\ i = (i - 1) + 1
        BY <1>1, <3>3
      <4>2. lexers'[i] = lexers[i - 1] /\ Of(lexers[i - 1])
        BY <1>1, <1>2, <2>2, <4>1
      <4> QED BY <4>2
    <3> QED BY <3>1, <3>2, <3>3
  <2>5. Origins'
    <3>1. Len(lexers') - 1 = n
      BY <2>2
    <3> QED BY <1>5, <2>2, <2>3, <2>4, <3>1 DEF Origins, M, Of
  <2>6. AllRead'
    BY <1>4, <2>1 DEF AllRead, Keeps, Includes
  <2> QED BY <2>5, <2>6
<1>8. ASSUME Leaves PROVE Origins' /\ AllRead'
  <2>1. n > 1 /\ lexers' = Tail(lexers) /\ outcome' = outcome
    BY <1>1, <1>8 DEF Leaves
  <2> HIDE DEF V
  <2>2. Len(lexers') = n - 1 /\ \A i \in 2 .. n : lexers'[i - 1] = lexers[i]
    BY <1>1, <2>1
  <2>3. EndOf(lexers'[n - 1], M)
    BY <1>1, <1>2, <2>1, <2>2
  <2>4. ASSUME NEW i \in 1 .. (n - 1) - 1 PROVE Of(lexers'[i])
    <3>1. i + 1 \in 2 .. n - 1 /\ i = (i + 1) - 1
      BY <1>1
    <3>2. lexers'[i] = lexers[i + 1] /\ Of(lexers[i + 1])
      BY <1>1, <1>2, <2>2, <3>1
    <3> QED BY <3>2
  <2> QED BY <1>1, <1>4, <1>5, <2>1, <2>2, <2>3, <2>4 DEF Origins, AllRead, M, Of
<1>9. ASSUME Stops PROVE Origins' /\ AllRead'
  <2>1. lexers' = lexers /\ (outcome' = "Ok" => Len(lexers) = 1 /\ toks = <<>>)
    BY <1>9 DEF Stops
  <2> QED BY <1>5, <2>1 DEF ReadingInv, Origins, AllRead, toks
<1> QED BY <1>6, <1>7, <1>8, <1>9 DEF Keeps, Moves

\* Whatever the files and however they include each other: what parse reports as
\* the end of the file is its end.  The outermost call reads the file it was
\* given and each other one an included file, each of them from its beginning
\* towards its end, and parse only succeeds when nothing is left of any: no
\* include, and no error that is taken for the end, cuts a file short.
THEOREM NothingLeft == Spec => [](Origins /\ AllRead)
<1>1. Init => ReadingInv
  <2> SUFFICES ASSUME Init PROVE ReadingInv
    OBVIOUS
  <2>1. /\ Tokens(main) \in Seq(Token) /\ main \in Mains
        /\ lexers = <<Tokens(main)>> /\ outcome = "none"
    BY MainsAssumption, TokensTyped DEF Init
  <2>2. Len(lexers) = 1 /\ lexers[1] = Tokens(main)
    BY <2>1
  <2>3. EndOf(Tokens(main), Tokens(main))
    BY <2>1, AfterIsEnd
  <2> QED BY <2>1, <2>2, <2>3, InitTyped DEF ReadingInv, Origins, AllRead
<1>2. ReadingInv /\ [Next]_vars => ReadingInv'
  <2>1. ASSUME ReadingInv, Next PROVE ReadingInv'
    <3>1. Tokens(main) \in Seq(Token)
      BY <2>1, MainsAssumption, TokensTyped DEF ReadingInv
    <3>2. pc # "end" /\ Keeps /\ UNCHANGED main
      BY <2>1, NextKeeps, MainStays DEF ReadingInv
    <3> QED BY <2>1, <3>1, <3>2, KeepsIsEnough, NextReads DEF ReadingInv
  <2>2. ASSUME ReadingInv, UNCHANGED vars PROVE ReadingInv'
    <3>1. /\ main' = main /\ pc' = pc /\ outcome' = outcome /\ lexers' = lexers
          /\ line' = line /\ stmt' = stmt /\ file' = file
      BY <2>2 DEF vars
    <3> QED BY <2>2, <3>1 DEF ReadingInv, Origins, AllRead, toks,
            ParserInv, TypeOK, RuleInUse, Shapes
  <2> QED BY <2>1, <2>2
<1>3. ReadingInv => Origins /\ AllRead
  BY DEF ReadingInv
<1> QED BY <1>1, <1>2, <1>3, PTL DEF Spec

\* How the lexers of the calls of parse_inner, innermost first, may change: the
\* innermost one goes on, a file is included in front of what is left, or one
\* of which nothing is left is dropped.
InOrder ==
  \/ \E q \in Seq(Token) : EndOf(q, toks) /\ lexers' = <<q>> \o Tail(lexers)
  \/ \E p \in DOMAIN Included, q \in Seq(Token) :
       /\ EndOf(q, toks)
       /\ lexers' = <<Tokens(Included[p]), q>> \o Tail(lexers)
  \/ toks = <<>> /\ lexers' = Tail(lexers)

\* Tokens are taken in the order they are written in: no step of any statement
\* gives one back, changes one, or takes one of a file around the one that is
\* being read, and an included file is left only when it has been read.
THEOREM TokensInOrder == Spec => [][InOrder]_vars
<1>1. ASSUME ParserInv, Next PROVE InOrder
  <2>1. lexers \in Seq(Seq(Token)) /\ Len(lexers) >= 1 /\ toks \in Seq(Token)
    BY <1>1, Facts DEF ParserInv
  <2>2. lexers = <<toks>> \o Tail(lexers)
    <3> DEFINE V == Seq(Token)
    <3>1. lexers \in Seq(V) /\ Len(lexers) >= 1 /\ toks = lexers[1]
      BY <2>1 DEF toks
    <3> HIDE DEF V
    <3> QED BY <3>1
  <2>3. EndOf(toks, toks)
    BY <2>1, AfterIsEnd
  <2>4. Moves
    BY <1>1, NextKeeps DEF Keeps
  <2> QED BY <2>1, <2>2, <2>3, <2>4 DEF InOrder, Moves, ReadsOn, Includes, Leaves, Stops
<1>2. ParserInv /\ [Next]_vars => [InOrder]_vars
  BY <1>1
<1> QED BY <1>2, ParserInvariance, PTL DEF Spec

-----------------------------------------------------------------------------
(* Assignments: what parse_variable_assignment takes from a line is what   *)
(* NinjaFormat says of the line.                                           *)

LEMMA SameTokens ==
  ASSUME NEW q \in Seq(Token), NEW r \in Seq(Token), Len(q) = Len(r),
         \A i \in 1 .. Len(q) : q[i] = r[i]
  PROVE  q = r
<1>1. PICK k \in Nat : k = Len(q)
  <2>1. Len(q) \in Nat
    OBVIOUS
  <2> QED BY ONLY <2>1
<1>2. Len(r) = k /\ \A i \in 1 .. k : q[i] = r[i]
  BY <1>1
<1> QED BY ONLY <1>1, <1>2, q \in Seq(Token), r \in Seq(Token)

\* There is one place where the tokens of these kinds end.
LEMMA RunIs ==
  ASSUME NEW q \in Seq(Token), NEW kinds, "eof" \notin kinds, NEW n \in 0 .. Len(q),
         \A i \in 1 .. n : q[i].k \in kinds,
         Kind(After(q, n)) \notin kinds
  PROVE  Run(q, kinds) = n
<1> DEFINE r == Run(q, kinds)
<1>1. /\ r \in 0 .. Len(q)
      /\ \A i \in 1 .. r : q[i].k \in kinds
      /\ Kind(After(q, r)) \notin kinds
  BY RunEnds
<1> HIDE DEF r
<1>2. CASE r < n
  <2>1. r + 1 \in 1 .. n /\ r # Len(q)
    BY <1>1, <1>2
  <2>2. Kind(After(q, r)) = q[r + 1].k
    BY <1>1, <2>1, AfterTyped
  <2> QED BY <1>1, <2>1, <2>2
<1>3. CASE n < r
  <2>1. n + 1 \in 1 .. r /\ n # Len(q)
    BY <1>1, <1>3
  <2>2. Kind(After(q, n)) = q[n + 1].k
    BY <2>1, AfterTyped
  <2> QED BY <1>1, <2>1, <2>2
<1> QED BY <1>1, <1>2, <1>3 DEF r

\* The first k is behind the tokens of all other kinds.
LEMMA PositionTyped ==
  ASSUME NEW q \in Seq(Token), NEW k
  PROVE  /\ Format!PositionOf(q, k) \in 1 .. Len(q) + 1
         /\ \A j \in 1 .. Format!PositionOf(q, k) - 1 : q[j].k # k
         /\ Format!PositionOf(q, k) <= Len(q) => q[Format!PositionOf(q, k)].k = k
<1> DEFINE others == TokenKinds \ {k}
           n == Run(q, others)
           P(i) == /\ \A j \in 1 .. i - 1 : q[j].k # k
                   /\ i <= Len(q) => q[i].k = k
<1>1. /\ n \in 0 .. Len(q)
      /\ \A i \in 1 .. n : q[i].k \in others
      /\ Kind(After(q, n)) \notin others
  <2>1. "eof" \notin others
    BY EofIsNoKind
  <2> HIDE DEF others
  <2> QED BY <2>1, RunEnds
<1>2. n # Len(q) => Kind(After(q, n)) = q[n + 1].k /\ q[n + 1] \in Token
  BY <1>1, AfterTyped
<1> HIDE DEF n
<1>3. n + 1 \in 1 .. Len(q) + 1 /\ P(n + 1)
  <2>1. \A j \in 1 .. (n + 1) - 1 : q[j].k # k
    BY <1>1
  <2>2. n + 1 <= Len(q) => q[n + 1].k = k
    BY <1>1, <1>2 DEF Token
  <2> QED BY <1>1, <2>1, <2>2
<1>4. Format!PositionOf(q, k) = CHOOSE i \in 1 .. Len(q) + 1 : P(i)
  BY DEF Format!PositionOf
<1> HIDE DEF P
<1>5. Format!PositionOf(q, k) \in 1 .. Len(q) + 1 /\ P(Format!PositionOf(q, k))
  BY <1>3, <1>4
<1> QED BY <1>5 DEF P

LEMMA PositionIs ==
  ASSUME NEW q \in Seq(Token), NEW k, NEW i \in 1 .. Len(q) + 1,
         \A j \in 1 .. i - 1 : q[j].k # k,
         i <= Len(q) => q[i].k = k
  PROVE  Format!PositionOf(q, k) = i
<1> DEFINE p == Format!PositionOf(q, k)
<1>1. /\ p \in 1 .. Len(q) + 1
      /\ \A j \in 1 .. p - 1 : q[j].k # k
      /\ p <= Len(q) => q[p].k = k
  BY PositionTyped
<1> HIDE DEF p
<1>2. ~(p < i) /\ ~(i < p)
  BY <1>1
<1> QED BY <1>1, <1>2 DEF p

LEMMA TrimIs ==
  ASSUME NEW q \in Seq(Token)
  PROVE  Format!Trim(q) = After(q, Run(q, {"sp"}))
<1> DEFINE P(n) == /\ \A i \in 1 .. n : q[i].k = "sp"
                   /\ n < Len(q) => q[n + 1].k # "sp"
           r == Run(q, {"sp"})
           c == CHOOSE n \in 0 .. Len(q) : P(n)
<1>1. /\ r \in 0 .. Len(q)
      /\ \A i \in 1 .. r : q[i].k \in {"sp"}
      /\ Kind(After(q, r)) \notin {"sp"}
  BY RunEnds
<1>2. r # Len(q) => Kind(After(q, r)) = q[r + 1].k
  BY <1>1, AfterTyped
<1>3. Format!Trim(q) = SubSeq(q, c + 1, Len(q))
  BY DEF Format!Trim
<1> HIDE DEF r
<1>4. P(r)
  BY <1>1, <1>2
<1>5. \A n \in 0 .. Len(q) : P(n) => n = r
  <2> SUFFICES ASSUME NEW n \in 0 .. Len(q), P(n) PROVE n = r
    OBVIOUS
  <2>1. ~(n < r) /\ ~(r < n)
    BY <1>1, <1>4
  <2> QED BY <1>1, <2>1
<1> HIDE DEF P
<1>6. c = r
  BY <1>1, <1>4, <1>5
<1> HIDE DEF c
<1> QED BY <1>3, <1>6 DEF After, r

LEMMA CountTyped ==
  ASSUME NEW q \in Seq(Token), NEW k
  PROVE  /\ Format!Count(q, k) > 0 <=> \E i \in 1 .. Len(q) : q[i].k = k
         /\ Format!Count(q, k) = Len(q) <=> \A i \in 1 .. Len(q) : q[i].k = k
<1> DEFINE S == {i \in DOMAIN q : q[i].k = k}
           D == 1 .. Len(q)
<1>1. DOMAIN q = D /\ Len(q) \in Nat
  OBVIOUS
<1>2. IsFiniteSet(D) /\ Cardinality(D) = Len(q)
  BY <1>1, FS_Interval
<1>3. S \in SUBSET D /\ S = {i \in D : q[i].k = k}
  BY <1>1
<1>4. Format!Count(q, k) = Cardinality(S)
  BY DEF Format!Count, Format!Cardinality, Cardinality
<1> HIDE DEF S, D
<1>5. IsFiniteSet(S) /\ (Cardinality(S) = Cardinality(D) => S = D)
  BY <1>2, <1>3, FS_Subset
<1>6. Cardinality(S) \in Nat /\ (Cardinality(S) = 0 <=> S = {})
  BY <1>5, FS_CardinalityType, FS_EmptySet
<1>7. Cardinality(S) > 0 <=> \E i \in D : q[i].k = k
  BY <1>3, <1>6
<1>8. Cardinality(S) = Len(q) <=> \A i \in D : q[i].k = k
  <2>1. Cardinality(S) = Len(q) => S = D
    BY <1>2, <1>5
  <2>2. S = D => Cardinality(S) = Len(q)
    BY <1>2
  <2>3. S = D <=> \A i \in D : q[i].k = k
    BY <1>3
  <2> QED BY <2>1, <2>2, <2>3
<1> QED BY <1>4, <1>7, <1>8 DEF D

\* What is left of the line that is read; it is clean if no bad token ends it.
LineOf(q) == SubSeq(q, 1, Run(q, InValue))
Clean(q) == Kind(After(q, Run(q, InValue))) # "bad"

LEMMA LineTyped ==
  ASSUME NEW q \in Seq(Token), Clean(q), NEW n, n = Run(q, InValue)
  PROVE  /\ n \in 0 .. Len(q) /\ \A i \in 1 .. n : q[i].k \in InValue
         /\ Kind(After(q, n)) \notin InValue \cup {"bad"}
         /\ LineOf(q) \in Seq(Token) /\ Len(LineOf(q)) = n
         /\ \A i \in 1 .. n : LineOf(q)[i] = q[i]
<1>1. /\ n \in 0 .. Len(q) /\ \A i \in 1 .. n : q[i].k \in InValue
      /\ Kind(After(q, n)) \notin InValue
  BY EofIsNoKind, RunEnds
<1>2. Kind(After(q, n)) # "bad"
  BY DEF Clean
<1>3. LineOf(q) = SubSeq(q, 1, n)
  BY DEF LineOf
<1>4. /\ SubSeq(q, 1, n) \in Seq(Token) /\ Len(SubSeq(q, 1, n)) = n
      /\ \A i \in 1 .. n : SubSeq(q, 1, n)[i] = q[i]
  BY <1>1
<1> QED BY <1>1, <1>2, <1>3, <1>4

\* Spaces of a clean line end in the line, and what is behind them is not taken
\* for the end of the file.
LEMMA SpacesInLine ==
  ASSUME NEW q \in Seq(Token), Clean(q), NEW n, n = Run(q, InValue), NEW a \in 0 .. n
  PROVE  \E s \in 0 .. n - a :
           /\ \A i \in a + 1 .. a + s : q[i].k = "sp"
           /\ Kind(After(q, a + s)) # "sp"
           /\ skip_spaces(After(q, a)) = After(q, a + s)
<1> DEFINE t == After(q, a)
           s == Run(t, {"sp"})
<1>1. /\ n \in 0 .. Len(q) /\ \A i \in 1 .. n : q[i].k \in InValue
      /\ Kind(After(q, n)) \notin InValue \cup {"bad"}
  BY LineTyped
<1>2. a \in 0 .. Len(q) /\ Len(q) \in Nat /\ n \in Nat /\ a \in Nat
  BY <1>1
<1>3. /\ t \in Seq(Token) /\ Len(t) = Len(q) - a
      /\ \A i \in 1 .. Len(q) - a : t[i] = q[a + i]
  BY <1>2 DEF After
<1> HIDE DEF t
<1>4. /\ s \in 0 .. Len(t)
      /\ \A i \in 1 .. s : t[i].k \in {"sp"}
      /\ Kind(After(t, s)) \notin {"sp"}
  BY <1>3, RunEnds
<1>5. skip_spaces(t) = Swallow(After(t, s))
  BY DEF skip_spaces
<1> HIDE DEF s
<1>6. s \in Nat /\ s \in 0 .. Len(q) - a /\ a + s \in 0 .. Len(q)
  BY <1>2, <1>3, <1>4
<1>7. After(t, s) = After(q, a + s)
  BY <1>2, <1>6, AfterAfter DEF t
<1>8. \A i \in a + 1 .. a + s : q[i].k = "sp"
  <2> SUFFICES ASSUME NEW i \in a + 1 .. a + s PROVE q[i].k = "sp"
    OBVIOUS
  <2>1. i - a \in 1 .. s /\ i - a \in 1 .. Len(q) - a /\ a + (i - a) = i
    BY <1>2, <1>6
  <2>2. t[i - a] = q[i]
    BY <1>3, <2>1
  <2> QED BY <1>4, <2>1, <2>2
<1>9. a + s <= n
  <2> SUFFICES ASSUME n < a + s PROVE FALSE
    BY <1>2, <1>6
  <2>1. n + 1 \in a + 1 .. a + s /\ n # Len(q)
    BY <1>2, <1>6
  <2>2. Kind(After(q, n)) = q[n + 1].k
    BY <1>1, <2>1, AfterTyped
  <2> QED BY <1>1, <1>8, <2>1, <2>2 DEF InValue
<1>10. Kind(After(q, a + s)) # "bad"
  <2>1. CASE a + s = n
    BY <1>1, <2>1
  <2>2. CASE a + s # n
    <3>1. a + s # Len(q) /\ (a + s) + 1 \in 1 .. n
      BY <1>1, <1>2, <1>6, <1>9, <2>2
    <3>2. Kind(After(q, a + s)) = q[(a + s) + 1].k
      BY <1>6, <3>1, AfterTyped
    <3> QED BY <1>1, <3>1, <3>2 DEF InValue, CanStartWord, Punctuation
  <2> QED BY <2>1, <2>2
<1>11. skip_spaces(t) = After(q, a + s)
  BY <1>5, <1>7, <1>10 DEF Swallow
<1>12. s \in 0 .. n - a
  BY <1>2, <1>6, <1>9
<1> QED BY <1>4, <1>7, <1>8, <1>11, <1>12 DEF t

\* The first word has a text, as all words have.
Worded(q) == q # <<>> /\ q[1].k = "word" => q[1].w # ""

\* A line is an assignment if `=` follows the first word, spaces apart.
LEMMA AssignmentShape ==
  ASSUME NEW L \in Seq(Token), NEW n \in Nat, n = Len(L), n > 0,
         L[1].k = "word", Worded(L),
         NEW s \in Nat, s < n, \A i \in 2 .. 1 + s : L[i].k = "sp",
         s + 2 <= n => L[s + 2].k # "sp"
  PROVE  /\ Format!IsAssignment(L) <=> s + 2 <= n /\ L[s + 2].k = "="
         /\ Format!IsAssignment(L) => Format!PositionOf(L, "=") = s + 2
<1> DEFINE t == Tail(L)
           p == Format!PositionOf(t, "=")
           b == Format!Before(t, "=")
<1>1. /\ t \in Seq(Token) /\ Len(t) = n - 1
      /\ \A i \in 1 .. n - 1 : t[i] = L[i + 1]
  BY ONLY L \in Seq(Token), n = Len(L), n \in Nat, n > 0
<1>0. L # <<>>
  OBVIOUS
<1>2. Format!Keyword(L) # ""
  BY <1>0, Zenon DEF Format!Keyword, Worded
<1>3. b = SubSeq(t, 1, p - 1)
  BY DEF Format!Before
<1> HIDE DEF t
<1>4. /\ p \in 1 .. Len(t) + 1
      /\ \A j \in 1 .. p - 1 : t[j].k # "="
      /\ p <= Len(t) => t[p].k = "="
  BY <1>1, PositionTyped
<1> HIDE DEF p
<1>5. b \in Seq(Token) /\ Len(b) = p - 1 /\ \A i \in 1 .. p - 1 : b[i] = t[i]
  <2> DEFINE k == p - 1
  <2>1. k \in 0 .. Len(t)
    BY <1>1, <1>4
  <2> HIDE DEF k
  <2>2. /\ SubSeq(t, 1, k) \in Seq(Token) /\ Len(SubSeq(t, 1, k)) = k
        /\ \A i \in 1 .. k : SubSeq(t, 1, k)[i] = t[i]
    BY <1>1, <2>1
  <2> HIDE DEF b
  <2> QED BY <1>3, <2>2 DEF k
<1>6. Format!IsAssignment(L) <=>
        Format!Count(L, "=") > 0 /\ Format!Count(b, "sp") = p - 1
  BY <1>2, Zenon DEF Format!IsAssignment, t, p, b
<1> HIDE DEF b
<1>7. Format!Count(b, "sp") = p - 1 <=> \A i \in 1 .. p - 1 : t[i].k = "sp"
  BY <1>4, <1>5, CountTyped
<1>8. Format!Count(L, "=") > 0 <=> \E i \in 1 .. n : L[i].k = "="
  BY CountTyped
<1>9. ASSUME s + 2 <= n, L[s + 2].k = "="
      PROVE  Format!IsAssignment(L) /\ Format!PositionOf(L, "=") = s + 2
  <2>1. s + 2 \in 1 .. n /\ s + 1 \in 1 .. Len(t) /\ s \in Nat /\ t[s + 1].k = "="
    BY <1>1, <1>9
  <2>2. \A i \in 1 .. s : t[i].k = "sp"
    BY <1>1, <2>1
  <2>3. p = s + 1
    <3>1. s + 1 \in 1 .. Len(t) + 1 /\ \A j \in 1 .. (s + 1) - 1 : t[j].k # "="
      BY <1>1, <2>1, <2>2
    <3> QED BY <1>1, <2>1, <3>1, PositionIs DEF p
  <2>4. Format!IsAssignment(L)
    BY <1>6, <1>7, <1>8, <1>9, <2>1, <2>2, <2>3
  <2>5. s + 2 \in 1 .. n + 1 /\ \A j \in 1 .. (s + 2) - 1 : L[j].k # "="
    BY <1>1, <2>1
  <2>6. Format!PositionOf(L, "=") = s + 2
    BY <1>9, <2>5, PositionIs
  <2> QED BY <2>4, <2>6
<1>10. ASSUME Format!IsAssignment(L)
       PROVE  s + 2 <= n /\ L[s + 2].k = "="
  <2>1. PICK i \in 1 .. n : L[i].k = "="
    BY <1>6, <1>8, <1>10
  <2>2. i \in s + 2 .. n /\ s \in Nat
    BY <1>1, <2>1
  <2>3. s + 1 \in 1 .. Len(t) /\ t[s + 1] = L[s + 2] /\ t[s + 1].k # "sp"
    BY <1>1, <2>2
  <2>4. \A j \in 1 .. p - 1 : t[j].k = "sp"
    BY <1>6, <1>7, <1>10
  <2>5. p <= s + 1
    BY <1>4, <2>2, <2>3, <2>4
  <2>6. p <= Len(t) /\ t[p].k = "="
    BY <1>1, <1>4, <2>2, <2>5
  <2>7. ~(p < s + 1)
    <3> SUFFICES ASSUME p < s + 1 PROVE FALSE
      OBVIOUS
    <3>1. p + 1 \in 2 .. 1 + s /\ t[p] = L[p + 1]
      BY <1>1, <1>4, <2>2, <2>6
    <3> QED BY <2>6, <3>1
  <2>8. p = s + 1
    BY <1>4, <2>2, <2>5, <2>7
  <2> QED BY <2>2, <2>3, <2>6, <2>8
<1> QED BY <1>9, <1>10

\* Behind the `=` at place m: the value is the rest of the line without the
\* spaces it begins with.
LEMMA ValueIs ==
  ASSUME NEW q \in Seq(Token), Clean(q), NEW n \in Nat, n = Run(q, InValue),
         NEW m \in 1 .. n, Format!PositionOf(LineOf(q), "=") = m,
         NEW v, v = skip_spaces(After(q, m))
  PROVE  /\ v \in Seq(Token)
         /\ SubSeq(v, 1, Run(v, InValue)) = Format!Assigned(LineOf(q))
         /\ After(v, Run(v, InValue)) = After(q, n)
<1> DEFINE L == LineOf(q)
           B == SubSeq(L, m + 1, n)
<1>1. /\ n \in 0 .. Len(q) /\ \A i \in 1 .. n : q[i].k \in InValue
      /\ Kind(After(q, n)) \notin InValue \cup {"bad"}
      /\ L \in Seq(Token) /\ Len(L) = n
      /\ \A i \in 1 .. n : L[i] = q[i]
  BY LineTyped
<1>2. PICK t \in 0 .. n - m :
        /\ \A i \in m + 1 .. m + t : q[i].k = "sp"
        /\ Kind(After(q, m + t)) # "sp"
        /\ skip_spaces(After(q, m)) = After(q, m + t)
  BY SpacesInLine, m \in 0 .. n
<1>3. Format!Assigned(L) = Format!Trim(B)
  BY <1>1 DEF Format!Assigned, Format!Behind
<1> HIDE DEF L
<1>4. /\ B \in Seq(Token) /\ Len(B) = n - m
      /\ \A i \in 1 .. n - m : B[i] = q[m + i]
  <2>1. /\ B \in Seq(Token) /\ Len(B) = n - m
        /\ \A i \in 1 .. n - m : B[i] = L[m + i]
    BY <1>1
  <2>2. \A i \in 1 .. n - m : m + i \in 1 .. n
    OBVIOUS
  <2> HIDE DEF B
  <2> QED BY <1>1, <2>1, <2>2
<1> HIDE DEF B
<1> DEFINE w == m + t
<1>5. w \in 0 .. Len(q) /\ w \in 0 .. n /\ w \in Nat /\ n - w \in 0 .. Len(q) - w /\ t \in 0 .. Len(B)
  BY <1>1, <1>2, <1>4
<1>6. v = After(q, w)
  BY <1>2
<1>7. /\ v \in Seq(Token) /\ Len(v) = Len(q) - w
      /\ \A i \in 1 .. Len(q) - w : v[i] = q[w + i]
  <2> HIDE DEF w
  <2> QED BY <1>5, <1>6, AfterElements
<1>8. w # n => Kind(After(q, w)) = q[w + 1].k
  <2> HIDE DEF w
  <2>1. w # n => w # Len(q)
    BY <1>1, <1>5
  <2> QED BY <1>5, <2>1, AfterTyped
<1>9. B[t + 1] = q[w + 1] \/ t = n - m
  <2>1. t # n - m => t + 1 \in 1 .. n - m /\ m + (t + 1) = w + 1
    BY <1>2
  <2> QED BY <1>4, <2>1
<1>10. \A i \in 1 .. t : m + i \in m + 1 .. m + t /\ i \in 1 .. n - m
  BY <1>2
<1>11. \A i \in 1 .. n - w : t + i \in 1 .. n - m /\ m + (t + i) = w + i
                             /\ w + i \in 1 .. n /\ i \in 1 .. Len(q) - w
  BY <1>1, <1>2, <1>5
<1>12. t = n - m <=> w = n
  BY <1>2, <1>5
<1> HIDE DEF w
<1>13. After(v, n - w) = After(q, n)
  <2>1. After(After(q, w), n - w) = After(q, w + (n - w))
    BY <1>5, AfterAfter
  <2>2. w + (n - w) = n
    BY <1>5
  <2> QED BY <1>6, <2>1, <2>2
<1>14. Run(v, InValue) = n - w
  <2>1. "eof" \notin InValue
    BY EofIsNoKind
  <2>2. \A i \in 1 .. n - w : v[i].k \in InValue
    BY <1>1, <1>7, <1>11
  <2>3. Kind(After(v, n - w)) \notin InValue
    BY <1>1, <1>13
  <2>4. n - w \in 0 .. Len(v)
    BY <1>5, <1>7
  <2> QED BY <1>7, <2>1, <2>2, <2>3, <2>4, RunIs
<1>15. Run(B, {"sp"}) = t
  <2>1. \A i \in 1 .. t : B[i].k \in {"sp"}
    BY <1>2, <1>4, <1>10
  <2>2. Kind(After(B, t)) = IF t = Len(B) THEN "eof" ELSE B[t + 1].k
    BY <1>4, <1>5, AfterTyped
  <2>3. Kind(After(B, t)) \notin {"sp"}
    <3>1. CASE t = n - m
      BY <1>4, <2>2, <3>1
    <3>2. CASE t # n - m
      <4>1. Kind(After(q, w)) # "sp"
        BY <1>2 DEF w
      <4> QED BY <1>4, <1>8, <1>9, <1>12, <2>2, <3>2, <4>1
    <3> QED BY <3>1, <3>2
  <2> QED BY <1>4, <1>5, <2>1, <2>3, RunIs
<1>16. Format!Assigned(L) = After(B, t)
  BY <1>3, <1>4, <1>15, TrimIs
<1>17. /\ After(B, t) \in Seq(Token) /\ Len(After(B, t)) = n - w
       /\ \A i \in 1 .. n - w : After(B, t)[i] = q[w + i]
  <2>1. /\ After(B, t) \in Seq(Token) /\ Len(After(B, t)) = (n - m) - t
        /\ \A i \in 1 .. (n - m) - t : After(B, t)[i] = B[t + i]
    BY <1>4, <1>5, AfterElements
  <2>2. (n - m) - t = n - w
    BY <1>2 DEF w
  <2> QED BY <1>4, <1>11, <2>1, <2>2
<1>18. /\ SubSeq(v, 1, n - w) \in Seq(Token) /\ Len(SubSeq(v, 1, n - w)) = n - w
       /\ \A i \in 1 .. n - w : SubSeq(v, 1, n - w)[i] = q[w + i]
  <2>1. n - w \in 0 .. Len(v)
    BY <1>5, <1>7
  <2>2. /\ SubSeq(v, 1, n - w) \in Seq(Token) /\ Len(SubSeq(v, 1, n - w)) = n - w
        /\ \A i \in 1 .. n - w : SubSeq(v, 1, n - w)[i] = v[i]
    BY <1>7, <2>1
  <2> QED BY <1>7, <1>11, <2>2
<1>19. SubSeq(v, 1, n - w) = After(B, t)
  BY <1>17, <1>18, SameTokens
<1> QED BY <1>7, <1>13, <1>14, <1>16, <1>19 DEF L

\* What parse_variable_assignment finds in a line is what the line says.
LEMMA AssignmentIs ==
  ASSUME NEW q \in Seq(Token), Clean(q), Worded(q), Kind(q) = "word"
  PROVE  IF Format!IsAssignment(LineOf(q))
         THEN Assignment(q) =
                {[name |-> LineOf(q)[1].w, value |-> Format!Assigned(LineOf(q)),
                  rest |-> After(q, Run(q, InValue))]}
         ELSE Assignment(q) = {}
<1> DEFINE L == LineOf(q)
<1>1. q # <<>> /\ Len(q) >= 1 /\ q[1].k = "word"
  BY KindTyped
<1>2. PICK n \in Nat : n = Run(q, InValue) /\ n > 0
  <2>1. "eof" \notin InValue /\ "word" \in InValue
    BY EofIsNoKind DEF InValue, CanStartWord
  <2>2. Run(q, InValue) \in 1 .. Len(q)
    BY <2>1, RunStarts
  <2> QED BY <2>2
<1>3. /\ n \in 0 .. Len(q)
      /\ Kind(After(q, n)) \notin InValue \cup {"bad"}
      /\ L \in Seq(Token) /\ Len(L) = n
      /\ \A i \in 1 .. n : L[i] = q[i]
  BY <1>2, LineTyped
<1> HIDE DEF L
<1>4. PICK s \in 0 .. n - 1 :
        /\ \A i \in 1 + 1 .. 1 + s : q[i].k = "sp"
        /\ Kind(After(q, 1 + s)) # "sp"
        /\ skip_spaces(After(q, 1)) = After(q, 1 + s)
  <2>1. 1 \in 0 .. n /\ n = Run(q, InValue)
    BY <1>2
  <2> QED BY ONLY q \in Seq(Token), Clean(q), <2>1, SpacesInLine
<1> DEFINE e == After(q, 1 + s)
<1>5. 1 + s \in 0 .. Len(q) /\ s \in Nat /\ s < n
  BY <1>2, <1>3, <1>4
<1>6. e \in Seq(Token) /\ skip_spaces(Tail(q)) = e
  BY <1>1, <1>4, <1>5, AfterTyped, TailIsEnd
<1>7. 1 + s # n => Kind(e) = L[s + 2].k
  <2>1. 1 + s # n => 1 + s # Len(q) /\ (1 + s) + 1 \in 1 .. n /\ (1 + s) + 1 = s + 2
    BY <1>3, <1>5
  <2>2. 1 + s # Len(q) => Kind(e) = q[(1 + s) + 1].k
    BY <1>5, AfterTyped
  <2> QED BY <1>3, <2>1, <2>2
<1>8. Kind(e) # "sp"
  BY <1>4
<1>9. Kind(e) = "=" <=> s + 2 <= n /\ L[s + 2].k = "="
  <2>1. CASE 1 + s = n
    <3>1. Kind(e) # "="
      BY <1>3, <2>1 DEF InValue, Punctuation
    <3> QED BY <1>5, <2>1, <3>1
  <2>2. CASE 1 + s # n
    BY <1>5, <1>7, <2>2
  <2> QED BY <2>1, <2>2
<1>10. /\ Format!IsAssignment(L) <=> Kind(e) = "="
       /\ Format!IsAssignment(L) => Format!PositionOf(L, "=") = s + 2
  <2>1. L[1].k = "word" /\ L[1] = q[1]
    BY <1>1, <1>2, <1>3
  <2>2. Worded(L)
    BY <1>1, <2>1, Zenon DEF Worded
  <2>3. \A i \in 2 .. 1 + s : L[i].k = "sp"
    BY <1>3, <1>4, <1>5
  <2>4. s + 2 <= n => L[s + 2].k # "sp"
    BY <1>5, <1>7, <1>8
  <2> HIDE DEF e
  <2> QED BY <1>2, <1>3, <1>5, <1>9, <2>1, <2>2, <2>3, <2>4, AssignmentShape
<1>11. CASE ~Format!IsAssignment(L)
  <2>1. ValueTokens(q) = {}
    BY <1>6, <1>10, <1>11 DEF ValueTokens
  <2> QED BY <1>11, <2>1 DEF Assignment, L
<1>12. CASE Format!IsAssignment(L)
  <2> DEFINE m == s + 2
             v == skip_spaces(After(q, m))
  <2>1. m \in 1 .. n /\ m = (1 + s) + 1 /\ 1 \in 0 .. Len(q) - (1 + s)
    BY <1>3, <1>5, <1>9, <1>10, <1>12
  <2>2. Tail(e) = After(q, m)
    <3>1. e # <<>> /\ Tail(e) = After(e, 1)
      BY <1>6, <1>10, <1>12, KindTyped, TailIsEnd
    <3>2. After(e, 1) = After(q, (1 + s) + 1)
      BY <1>5, <2>1, AfterAfter
    <3> QED BY <2>1, <3>1, <3>2
  <2>3. ValueTokens(q) = {v}
    BY <1>6, <1>10, <1>12, <2>2 DEF ValueTokens
  <2>4. /\ SubSeq(v, 1, Run(v, InValue)) = Format!Assigned(L)
        /\ After(v, Run(v, InValue)) = After(q, n)
    <3>1. Format!PositionOf(LineOf(q), "=") = m
      BY <1>10, <1>12 DEF L
    <3> HIDE DEF v, m
    <3>2. v = skip_spaces(After(q, m))
      BY DEF v
    <3> QED BY <1>2, <2>1, <3>1, <3>2, ValueIs DEF L
  <2>5. L[1] = q[1] /\ Kind(After(q, n)) # "bad"
    BY <1>2, <1>3
  <2> HIDE DEF v
  <2>6. Assignment(q) = {[name |-> L[1].w, value |-> Format!Assigned(L),
                          rest |-> After(q, n)]}
    BY <2>3, <2>4, <2>5 DEF Assignment
  <2> QED BY <1>2, <1>12, <2>6 DEF L
<1> QED BY <1>11, <1>12

\* Without a word there is no assignment.
LEMMA NotAssigned ==
  ASSUME NEW q \in Seq(Token), Clean(q), Kind(q) # "word"
  PROVE  Assignment(q) = {} /\ ~Format!IsAssignment(LineOf(q))
<1> DEFINE L == LineOf(q)
<1>1. Assignment(q) = {}
  <2>1. ValueTokens(q) = {}
    BY DEF ValueTokens
  <2> QED BY <2>1 DEF Assignment
<1>2. L # <<>> => L[1].k # "word"
  <2>1. PICK n \in Nat : n = Run(q, InValue)
    <3>1. Run(q, InValue) \in Nat
      BY EofIsNoKind, RunEnds
    <3> QED BY <3>1
  <2>2. /\ n \in 0 .. Len(q) /\ L \in Seq(Token) /\ Len(L) = n
        /\ \A i \in 1 .. n : L[i] = q[i]
    BY <2>1, LineTyped
  <2> HIDE DEF L
  <2>3. L # <<>> => 1 \in 1 .. n /\ q # <<>>
    BY <2>1, <2>2
  <2> QED BY <2>2, <2>3 DEF Kind
<1>3. Format!Keyword(L) = ""
  BY <1>2, Zenon DEF Format!Keyword
<1> QED BY <1>1, <1>3, Zenon DEF Format!IsAssignment

LEMMA TheOnly ==
  ASSUME NEW S, NEW x, NEW y, NEW z, S = {[name |-> x, value |-> y, rest |-> z]}
  PROVE  /\ \E a \in S : a.value = y
         /\ \A a \in S : a.name = x /\ a.value = y /\ a.rest = z
<1> DEFINE r == [name |-> x, value |-> y, rest |-> z]
<1>1. r.name = x /\ r.value = y /\ r.rest = z
  OBVIOUS
<1>2. S = {r}
  OBVIOUS
<1> HIDE DEF r
<1> QED BY <1>1, <1>2

LEMMA SameScopes ==
  ASSUME NEW value, NEW scope, NEW name
  PROVE  /\ Bind(scope, name, value) = Format!Set(scope, name, value)
         /\ Expandable(value) = Format!Late(value)
         /\ Unknown(value) <=> ~Format!Known(value, file.global_scope)
         /\ Expanded(value) = Format!Value(value, file.global_scope)
<1>1. Bind(scope, name, value) = Format!Set(scope, name, value)
  BY DEF Bind, Format!Set
<1>2. Expandable(value) = Format!Late(value)
  BY DEF Expandable, Format!Late
<1>3. Unknown(value) <=> ~Format!Known(value, file.global_scope)
  BY DEF Unknown, Format!Known
<1>4. Expanded(value) = Format!Value(value, file.global_scope)
  BY DEF Expanded, Format!Value, FlattenSeq, Format!FlattenSeq
<1> QED BY <1>1, <1>2, <1>3, <1>4

\* A line outside of any statement adds to the file what NinjaFormat says, and
\* is an error if it says nothing; what is left is behind the line.
GlobalAsWritten ==
  GlobalAssignment /\ Clean(toks) /\ Worded(toks) =>
    LET said == Format!AsGlobal([head |-> LineOf(toks), body |-> <<>>], file)
    IN IF said = {} THEN outcome' = "Err" /\ UNCHANGED file
       ELSE /\ said = {file'}
            /\ lexers' = <<After(toks, Run(toks, InValue))>> \o Tail(lexers)

\* A line under a rule or a build sets the variable it says to the value it
\* says: late for a rule, at once for a build, if the expansion ends.
VariableAsWritten ==
  Variable /\ Clean(toks) /\ Worded(toks) =>
    LET l == LineOf(toks)
        value == IF pc = "rule vars" THEN Format!Late(Format!Assigned(l))
                 ELSE Expand(Format!Assigned(l), stmt)
    IN IF ~Format!IsAssignment(l) THEN outcome' = "Err" /\ UNCHANGED stmt
       ELSE IF pc = "build vars" /\ ~Ends(value) THEN outcome' = "Overflow"
       ELSE /\ stmt' = [stmt EXCEPT !.vars = Format!Set(@, l[1].w, value)]
            /\ lexers' = <<eat_newlines(After(toks, Run(toks, InValue))).rest>> \o Tail(lexers)

LEMMA GlobalIsAsWritten ==
  ASSUME ParserInv, GlobalAssignment PROVE GlobalAsWritten
<1> SUFFICES ASSUME Clean(toks), Worded(toks) PROVE GlobalAsWritten
  BY DEF GlobalAsWritten
<1> DEFINE l == LineOf(toks)
           scope == file.global_scope
           value == Format!Assigned(l)
           s == [head |-> l, body |-> <<>>]
           rest == After(toks, Run(toks, InValue))
           new == [file EXCEPT !.global_scope =
                     Format!Set(@, l[1].w, Format!Value(value, @))]
           said == Format!AsGlobal(s, file)
<1>1. toks \in Seq(Token) /\ Kind(toks) = "word"
  BY Facts DEF ParserInv, GlobalAssignment
<1>2. IF Format!IsAssignment(l)
      THEN Assignment(toks) = {[name |-> l[1].w, value |-> value, rest |-> rest]}
      ELSE Assignment(toks) = {}
  BY <1>1, AssignmentIs
<1>3. said = IF Format!IsAssignment(l) /\ Format!Known(value, scope) THEN {new} ELSE {}
  BY DEF Format!AsGlobal
<1> HIDE DEF l, value, rest, said
<1>4. CASE Format!IsAssignment(l) /\ Format!Known(value, scope)
  <2>1. PICK a \in Assignment(toks) :
          /\ Goto(a.rest, "top")
          /\ file' = [file EXCEPT !.global_scope = Bind(@, a.name, Expanded(a.value))]
    <3>1. Unknown(value) <=> ~Format!Known(value, file.global_scope)
      BY SameScopes
    <3>2. ~Unknown(value)
      BY <1>4, <3>1
    <3>3. Assignment(toks) = {[name |-> l[1].w, value |-> value, rest |-> rest]}
      BY <1>2, <1>4
    <3>4. PICK b \in Assignment(toks) : b.value = value
      BY ONLY <3>3, TheOnly
    <3>5. ~(\A a \in Assignment(toks) : Unknown(a.value))
      BY <3>2, <3>4
    <3> QED BY <3>5 DEF GlobalAssignment
  <2>2. a.name = l[1].w /\ a.value = value /\ a.rest = rest
    BY <1>2, <1>4, <2>1
  <2>3. Bind(scope, a.name, Expanded(a.value))
          = Format!Set(scope, l[1].w, Format!Value(value, scope))
    BY <2>2, SameScopes
  <2>4. file' = new
    BY <2>1, <2>3
  <2>5. lexers' = <<rest>> \o Tail(lexers)
    BY <2>1, <2>2 DEF Goto
  <2>6. said = {file'}
    BY <1>3, <1>4, <2>4
  <2> QED BY <2>5, <2>6 DEF GlobalAsWritten, said, rest, l
<1>5. CASE ~(Format!IsAssignment(l) /\ Format!Known(value, scope))
  <2>1. \A a \in Assignment(toks) : Unknown(a.value)
    BY <1>2, <1>5, SameScopes
  <2>2. End("Err") /\ UNCHANGED file
    BY <2>1 DEF GlobalAssignment
  <2>3. said = {}
    BY <1>3, <1>5
  <2> QED BY <2>2, <2>3 DEF GlobalAsWritten, End, said, l
<1> QED BY <1>4, <1>5

LEMMA VariableIsAsWritten ==
  ASSUME ParserInv, Variable PROVE VariableAsWritten
<1> SUFFICES ASSUME Clean(toks), Worded(toks) PROVE VariableAsWritten
  BY DEF VariableAsWritten
<1> DEFINE l == LineOf(toks)
           assigned == Format!Assigned(l)
           rest == After(toks, Run(toks, InValue))
           value == IF pc = "rule vars" THEN Format!Late(assigned)
                    ELSE Expand(assigned, stmt)
<1>1. toks \in Seq(Token)
  BY Facts DEF ParserInv
<1>2. IF Format!IsAssignment(l)
      THEN Assignment(toks) = {[name |-> l[1].w, value |-> assigned, rest |-> rest]}
      ELSE Assignment(toks) = {}
  BY <1>1, AssignmentIs, NotAssigned
<1>3. /\ pc \in {"rule vars", "build vars"}
      /\ \/ \E a \in Assignment(toks) :
              LET v == IF pc = "rule vars" THEN Expandable(a.value)
                       ELSE Expand(a.value, stmt)
              IN IF pc = "rule vars" \/ Ends(v)
                 THEN /\ GotoNextLine(a.rest, pc)
                      /\ stmt' = [stmt EXCEPT !.vars = Bind(@, a.name, v)]
                 ELSE End("Overflow") /\ UNCHANGED <<stmt, line>>
         \/ Assignment(toks) = {} /\ End("Err") /\ UNCHANGED <<stmt, line>>
  BY DEF Variable
<1> HIDE DEF l, assigned, rest
<1>4. CASE ~Format!IsAssignment(l)
  <2>1. End("Err") /\ UNCHANGED stmt
    BY <1>2, <1>3, <1>4
  <2> QED BY <1>4, <2>1 DEF VariableAsWritten, End, l
<1>5. CASE Format!IsAssignment(l)
  <2>1. Expandable(assigned) = Format!Late(assigned)
    BY SameScopes
  <2>2. IF pc = "rule vars" \/ Ends(value)
        THEN /\ GotoNextLine(rest, pc)
             /\ stmt' = [stmt EXCEPT !.vars = Bind(@, l[1].w, value)]
        ELSE End("Overflow")
    <3>1. Assignment(toks) = {[name |-> l[1].w, value |-> assigned, rest |-> rest]}
      BY <1>2, <1>5
    <3>2. PICK a \in Assignment(toks) :
            LET v == IF pc = "rule vars" THEN Expandable(a.value)
                     ELSE Expand(a.value, stmt)
            IN IF pc = "rule vars" \/ Ends(v)
               THEN /\ GotoNextLine(a.rest, pc)
                    /\ stmt' = [stmt EXCEPT !.vars = Bind(@, a.name, v)]
               ELSE End("Overflow") /\ UNCHANGED <<stmt, line>>
      BY <1>3, <3>1
    <3>3. a.name = l[1].w /\ a.value = assigned /\ a.rest = rest
      BY <3>1, TheOnly
    <3>4. value = IF pc = "rule vars" THEN Expandable(a.value)
                  ELSE Expand(a.value, stmt)
      BY <2>1, <3>3
    <3> HIDE DEF value
    <3> QED BY <3>2, <3>3, <3>4
  <2> HIDE DEF value
  <2>3. CASE pc = "rule vars" \/ Ends(value)
    <3>1. stmt' = [stmt EXCEPT !.vars = Format!Set(@, l[1].w, value)]
      <4>1. Bind(stmt.vars, l[1].w, value) = Format!Set(stmt.vars, l[1].w, value)
        BY SameScopes
      <4> QED BY <2>2, <2>3, <4>1
    <3>2. lexers' = <<eat_newlines(rest).rest>> \o Tail(lexers)
      BY <2>2, <2>3 DEF GotoNextLine, Goto
    <3>3. ~(pc = "build vars" /\ ~Ends(value))
      BY <2>3
    <3> QED BY <1>5, <3>1, <3>2, <3>3 DEF VariableAsWritten, l, value, assigned, rest
  <2>4. CASE ~(pc = "rule vars" \/ Ends(value))
    <3>1. outcome' = "Overflow" /\ pc = "build vars" /\ ~Ends(value)
      BY <1>3, <2>2, <2>4 DEF End
    <3> QED BY <1>5, <3>1 DEF VariableAsWritten, l, value, assigned
  <2> QED BY <2>3, <2>4
<1> QED BY <1>4, <1>5

\* A part of ParsedAsWritten for files, lines and values of every length: each
\* `name = value` that parse_variable_assignment takes, outside of a statement or
\* under a rule or a build, is the assignment NinjaFormat finds in the line, to
\* the last token, and is refused exactly if there is none or if it uses a
\* variable that is not known.  That the line has no bad token in it and that its
\* first word has a text is all that is asked for.
THEOREM AssignmentsAsWritten == Spec => [][GlobalAsWritten /\ VariableAsWritten]_vars
<1>1. ASSUME ParserInv, Next PROVE GlobalAsWritten /\ VariableAsWritten
  <2>1. GlobalAssignment => GlobalAsWritten
    BY <1>1, GlobalIsAsWritten
  <2>2. ~GlobalAssignment => GlobalAsWritten
    BY DEF GlobalAsWritten
  <2>3. Variable => VariableAsWritten
    BY <1>1, VariableIsAsWritten
  <2>4. ~Variable => VariableAsWritten
    BY DEF VariableAsWritten
  <2> QED BY <2>1, <2>2, <2>3, <2>4
<1>2. ParserInv /\ [Next]_vars => [GlobalAsWritten /\ VariableAsWritten]_vars
  BY <1>1
<1> QED BY <1>2, ParserInvariance, PTL DEF Spec
-----------------------------------------------------------------------------
(* What a value means.  ExpansionScope::get looks variables up inside each *)
(* other, to a depth; NinjaFormat rewrites the value from left to right,   *)
(* again and again.                                                        *)

\* The parts of an Expandable, and what one can be expanded to.
Text == STRING
Piece == [k : {"var", "text"}, w : Text]
Marked == Text \cup {Endless}

\* A part with h for the variables, and one with the definition of a variable
\* from rule, if it is one of R, and with its text otherwise.
Filled(h) == [t \in Piece |-> IF t.k = "var" THEN h[t.w] ELSE <<t.w>>]
Pieces(v) == [i \in DOMAIN v |-> [k |-> "text", w |-> v[i]]]
Defined(R, rule, text) ==
  [t \in Piece |-> IF t.k # "var" THEN <<t>>
                   ELSE IF t.w \in R THEN rule[t.w] ELSE Pieces(text[t.w])]
Words(q) == [i \in DOMAIN q |-> q[i].w]
Word == [t \in Piece |-> <<t.w>>]

LEMMA PieceFunctions ==
  /\ Word \in [Piece -> Seq(Text)]
  /\ \A h \in [Text -> Seq(Marked)] : Filled(h) \in [Piece -> Seq(Marked)]
  /\ \A v \in Seq(Text) : Pieces(v) \in Seq(Piece)
  /\ \A R \in SUBSET Text, text \in [Text -> Seq(Text)] :
       \A rule \in [R -> Seq(Piece)] :
         Defined(R, rule, text) \in [Piece -> Seq(Piece)]
<1>1. \A t \in Piece : t.w \in Text /\ t.w \in Marked
  BY DEF Piece, Marked
<1>2. \A x \in Text : <<x>> \in Seq(Text)
  OBVIOUS
<1>3. \A x \in Marked : <<x>> \in Seq(Marked)
  OBVIOUS
<1>4. \A t \in Piece : <<t>> \in Seq(Piece)
  OBVIOUS
<1>5. Word \in [Piece -> Seq(Text)]
  BY <1>1, <1>2 DEF Word
<1>6. ASSUME NEW h \in [Text -> Seq(Marked)] PROVE Filled(h) \in [Piece -> Seq(Marked)]
  BY <1>1, <1>3 DEF Filled
<1>7. ASSUME NEW v \in Seq(Text) PROVE Pieces(v) \in Seq(Piece)
  <2>1. \A x \in Text : [k |-> "text", w |-> x] \in Piece
    BY DEF Piece
  <2> QED BY <2>1 DEF Pieces
<1>8. ASSUME NEW R \in SUBSET Text, NEW rule \in [R -> Seq(Piece)],
             NEW text \in [Text -> Seq(Text)]
      PROVE  Defined(R, rule, text) \in [Piece -> Seq(Piece)]
  <2>1. \A x \in Text : Pieces(text[x]) \in Seq(Piece)
    BY <1>7
  <2> HIDE DEF Pieces
  <2> QED BY <1>1, <1>4, <2>1 DEF Defined
<1> QED BY <1>5, <1>6, <1>7, <1>8

LEMMA PiecesFilled ==
  ASSUME NEW h \in [Text -> Seq(Marked)], NEW v \in Seq(Text)
  PROVE  Spread(Filled(h), Pieces(v)) = v
<1> DEFINE F == Filled(h)
           T == {u \in Seq(Text) : Spread(F, Pieces(u)) = u}
<1>1. F \in [Piece -> Seq(Marked)]
  BY PieceFunctions
<1> HIDE DEF F
<1>2. /\ Spread(F, <<>>) = <<>>
      /\ \A q \in Seq(Piece), a \in Piece : Spread(F, Append(q, a)) = Spread(F, q) \o F[a]
  BY ONLY <1>1, SpreadSteps
<1>3. <<>> \in T
  <2>1. Pieces(<<>>) = <<>> /\ <<>> \in Seq(Text)
    BY DEF Pieces
  <2> QED BY <1>2, <2>1
<1>4. ASSUME NEW u \in T, NEW a \in Text PROVE Append(u, a) \in T
  <2> DEFINE t == [k |-> "text", w |-> a]
  <2>1. u \in Seq(Text) /\ Spread(F, Pieces(u)) = u
    OBVIOUS
  <2>2. t \in Piece /\ F[t] = <<a>>
    BY DEF Piece, F, Filled
  <2>3. Pieces(Append(u, a)) = Append(Pieces(u), t)
    BY <2>1 DEF Pieces
  <2>4. Pieces(u) \in Seq(Piece)
    BY <2>1, PieceFunctions
  <2> HIDE DEF T, t
  <2>5. Spread(F, Append(Pieces(u), t)) = u \o <<a>>
    BY <1>2, <2>1, <2>2, <2>4
  <2>6. u \o <<a>> = Append(u, a) /\ Append(u, a) \in Seq(Text)
    BY <2>1
  <2> QED BY <2>3, <2>5, <2>6 DEF T
<1>5. T = Seq(Text)
  <2> HIDE DEF T
  <2>1. T \in SUBSET Seq(Text)
    BY DEF T
  <2> QED BY <1>3, <1>4, <2>1, SeqSetInduction
<1> QED BY <1>5 DEF F

LEMMA WordsSpread ==
  ASSUME NEW q \in Seq(Piece)
  PROVE  Spread(Word, q) = Words(q)
<1> DEFINE T == {u \in Seq(Piece) : Spread(Word, u) = Words(u)}
<1>1. Word \in [Piece -> Seq(Text)]
  BY PieceFunctions
<1>2. /\ Spread(Word, <<>>) = <<>>
      /\ \A u \in Seq(Piece), a \in Piece : Spread(Word, Append(u, a)) = Spread(Word, u) \o Word[a]
  BY ONLY <1>1, SpreadSteps
<1>3. <<>> \in T
  <2>1. Words(<<>>) = <<>> /\ <<>> \in Seq(Piece)
    BY DEF Words
  <2> QED BY <1>2, <2>1
<1>4. ASSUME NEW u \in T, NEW a \in Piece PROVE Append(u, a) \in T
  <2>1. u \in Seq(Piece) /\ Spread(Word, u) = Words(u)
    OBVIOUS
  <2>2. Word[a] = <<a.w>> /\ a.w \in Text
    BY DEF Word, Piece
  <2>3. Words(Append(u, a)) = Append(Words(u), a.w)
    <3> HIDE DEF T
    <3> QED BY <2>1 DEF Words
  <2>4. Words(u) \in Seq(Text)
    <3>0. \A b \in Piece : b.w \in Text
      BY DEF Piece
    <3>1. \A i \in 1 .. Len(u) : u[i].w \in Text
      BY <2>1, <3>0
    <3> HIDE DEF T
    <3> QED BY <2>1, <3>1 DEF Words
  <2> HIDE DEF T
  <2>5. Spread(Word, Append(u, a)) = Words(u) \o <<a.w>>
    BY <1>2, <2>1, <2>2
  <2>6. Words(u) \o <<a.w>> = Append(Words(u), a.w)
    BY <2>2, <2>4
  <2>7. Append(u, a) \in Seq(Piece)
    BY <2>1
  <2> QED BY <2>3, <2>5, <2>6, <2>7 DEF T
<1>5. T = Seq(Piece)
  <2> HIDE DEF T
  <2>1. T \in SUBSET Seq(Piece)
    BY DEF T
  <2> QED BY <1>3, <1>4, <2>1, SeqSetInduction
<1> QED BY <1>5


\* R are the variables looked up in rule, N at least as many; text has what all
\* others are.  g[n] looks variables up to depth n, r[n] is a value rewritten n
\* times.
Expands(R, N, rule, text, g, r) ==
  /\ R \in SUBSET Text /\ IsFiniteSet(R) /\ N \in Nat /\ Cardinality(R) <= N
  /\ rule \in [R -> Seq(Piece)] /\ text \in [Text -> Seq(Text)]
  /\ g \in [Nat -> [Text -> Seq(Marked)]]
  /\ \A x \in Text \ R, n \in Nat : g[n][x] = text[x]
  /\ \A x \in R : g[0][x] = <<Endless>>
  /\ \A x \in R, n \in Nat : g[n + 1][x] = Spread(Filled(g[n]), rule[x])
  /\ r \in [Nat -> Seq(Piece)]
  /\ \A n \in Nat : r[n + 1] = Spread(Defined(R, rule, text), r[n])

\* Looking up to depth N ends exactly if N + 1 rewritings leave no variable, and
\* then both say the same: a definition that needs more than N others needs
\* itself.
LEMMA ExpansionsAgree ==
  ASSUME NEW R, NEW N, NEW rule, NEW text, NEW g, NEW r,
         Expands(R, N, rule, text, g, r)
  PROVE  LET e == Spread(Filled(g[N]), r[0])
             f == r[N + 1]
         IN /\ Endless \notin ToSet(e) <=> \A i \in 1 .. Len(f) : f[i].k # "var"
            /\ Endless \notin ToSet(e) => e = Words(f)
<1>. /\ R \in SUBSET Text /\ IsFiniteSet(R) /\ N \in Nat /\ Cardinality(R) <= N
     /\ rule \in [R -> Seq(Piece)] /\ text \in [Text -> Seq(Text)]
     /\ g \in [Nat -> [Text -> Seq(Marked)]]
     /\ \A x \in Text \ R, n \in Nat : g[n][x] = text[x]
     /\ \A x \in R : g[0][x] = <<Endless>>
     /\ \A x \in R, n \in Nat : g[n + 1][x] = Spread(Filled(g[n]), rule[x])
     /\ r \in [Nat -> Seq(Piece)]
     /\ \A n \in Nat : r[n + 1] = Spread(Defined(R, rule, text), r[n])
  BY DEF Expands
<1> DEFINE D == Defined(R, rule, text)
           F(n) == Filled(g[n])
           InRule(t) == t.k = "var" /\ t.w \in R
           Free(q) == \A i \in 1 .. Len(q) : ~InRule(q[i])
           Done(q) == \A i \in 1 .. Len(q) : q[i].k # "var"
           Finds(n, q) == Spread(F(n), q)
           V == [n \in Nat |-> {x \in R : Endless \notin ToSet(g[n][x])}]
           P == [S \in SUBSET R |->
                   {x \in R : \A i \in 1 .. Len(rule[x]) :
                      InRule(rule[x][i]) => rule[x][i].w \in S}]
<1>1. D \in [Piece -> Seq(Piece)] /\ Word \in [Piece -> Seq(Text)]
      /\ \A n \in Nat : F(n) \in [Piece -> Seq(Marked)]
  BY PieceFunctions
<1>2. \A t \in Piece : t.k \in {"var", "text"} /\ t.w \in Text
  BY DEF Piece
<1>3. /\ \A t \in Piece, n \in Nat : F(n)[t] = IF t.k = "var" THEN g[n][t.w] ELSE <<t.w>>
      /\ \A t \in Piece : D[t] = IF t.k # "var" THEN <<t>>
                                 ELSE IF t.w \in R THEN rule[t.w] ELSE Pieces(text[t.w])
      /\ \A t \in Piece : Word[t] = <<t.w>>
  BY DEF Filled, Defined, Word
<1>4. /\ \A t \in Piece, n \in Nat : Spread(F(n), <<t>>) = F(n)[t]
      /\ \A t \in Piece : Spread(Word, <<t>>) = Word[t]
      /\ \A q \in Seq(Piece) : Spread(D, q) \in Seq(Piece)
  <2> HIDE DEF D, F
  <2>1. ASSUME NEW n \in Nat PROVE \A t \in Piece : Spread(F(n), <<t>>) = F(n)[t]
    <3>1. F(n) \in [Piece -> Seq(Marked)]
      BY <1>1
    <3> QED BY ONLY <3>1, SpreadSteps
  <2>2. \A t \in Piece : Spread(Word, <<t>>) = Word[t]
    BY ONLY <1>1, SpreadSteps
  <2>3. \A q \in Seq(Piece) : Spread(D, q) \in Seq(Piece)
    BY ONLY <1>1, SpreadSteps
  <2> QED BY <2>1, <2>2, <2>3
<1>5. \A x \in Text, n \in Nat : Spread(F(n), Pieces(text[x])) = text[x]
  BY ZenonT(30), PiecesFilled
<1>6. \A x \in Text : Spread(Word, Pieces(text[x])) = text[x]
  <2> TAKE x \in Text
  <2>1. Pieces(text[x]) \in Seq(Piece) /\ text[x] \in Seq(Text)
    BY PieceFunctions
  <2>2. Words(Pieces(text[x])) = text[x]
    BY <2>1 DEF Words, Pieces
  <2> QED BY <2>1, <2>2, WordsSpread
<1> HIDE DEF D, F
\* One rewriting more is one lookup less.
<1>7. ASSUME NEW n \in Nat, NEW q \in Seq(Piece)
      PROVE  Finds(n, Spread(D, q)) = Finds(n + 1, q)
  <2>1. ASSUME NEW t \in Piece PROVE F(n + 1)[t] = Spread(F(n), D[t])
    <3>1. n + 1 \in Nat
      OBVIOUS
    <3>2. CASE t.k # "var"
      <4>1. F(n + 1)[t] = <<t.w>> /\ F(n)[t] = <<t.w>> /\ D[t] = <<t>>
        BY <1>3, <3>1, <3>2
      <4>2. Spread(F(n), <<t>>) = F(n)[t]
        BY <1>4
      <4> QED BY <4>1, <4>2
    <3>3. CASE t.k = "var" /\ t.w \in R
      <4>1. F(n + 1)[t] = g[n + 1][t.w] /\ D[t] = rule[t.w]
        BY <1>3, <3>1, <3>3
      <4>2. g[n + 1][t.w] = Spread(F(n), rule[t.w])
        BY <3>3 DEF F
      <4> QED BY <4>1, <4>2
    <3>4. CASE t.k = "var" /\ t.w \notin R
      <4>1. F(n + 1)[t] = g[n + 1][t.w] /\ D[t] = Pieces(text[t.w]) /\ t.w \in Text
        BY <1>2, <1>3, <3>1, <3>4
      <4>2. g[n + 1][t.w] = text[t.w]
        BY <3>1, <3>4, <4>1
      <4> QED BY ZenonT(30), <1>5, <4>1, <4>2
    <3> QED BY <3>2, <3>3, <3>4
  <2>2. /\ D \in [Piece -> Seq(Piece)] /\ F(n) \in [Piece -> Seq(Marked)]
        /\ F(n + 1) \in [Piece -> Seq(Marked)]
    <3>1. n + 1 \in Nat
      OBVIOUS
    <3> QED BY <1>1, <3>1
  <2> DEFINE X == F(n)
             Y == F(n + 1)
  <2>3. \A t \in Piece : Y[t] = Spread(X, D[t])
    BY <2>1
  <2>4. D \in [Piece -> Seq(Piece)] /\ X \in [Piece -> Seq(Marked)] /\ Y \in [Piece -> Seq(Marked)]
    BY <2>2
  <2> HIDE DEF X, Y
  <2>5. Spread(X, Spread(D, q)) = Spread(Twice(Piece, D, X), q)
    <3>1. D \in Spreads(Piece, Piece) /\ X \in Spreads(Piece, Marked)
      BY <2>4 DEF Spreads
    <3> QED BY ONLY <3>1, q \in Seq(Piece), SpreadTwice
  <2>6. Y = Twice(Piece, D, X)
    BY ONLY <2>3, <2>4 DEF Twice
  <2> QED BY <2>5, <2>6 DEF X, Y
<1>8. \A m \in Nat : Finds(m, r[0]) = Finds(0, r[m])
  <2> DEFINE T == {m \in Nat : \A n \in Nat : Finds(n + m, r[0]) = Finds(n, r[m])}
  <2>1. 0 \in T
    OBVIOUS
  <2>2. ASSUME NEW m \in T PROVE m + 1 \in T
    <3>1. m \in Nat /\ \A n \in Nat : Finds(n + m, r[0]) = Finds(n, r[m])
      OBVIOUS
    <3> SUFFICES ASSUME NEW n \in Nat PROVE Finds(n + (m + 1), r[0]) = Finds(n, r[m + 1])
      BY <3>1
    <3> HIDE DEF T, Finds
    <3>2. n + (m + 1) = (n + 1) + m /\ n + 1 \in Nat
      BY <3>1
    <3>3. Finds((n + 1) + m, r[0]) = Finds(n + 1, r[m])
      BY <3>1, <3>2
    <3>4. r[m + 1] = Spread(D, r[m]) /\ r[m] \in Seq(Piece)
      BY <3>1 DEF D
    <3> QED BY <1>7, <3>2, <3>3, <3>4
  <2>3. T = Nat
    <3> HIDE DEF T
    <3>1. T \in SUBSET Nat
      BY DEF T
    <3> QED BY <2>1, <2>2, <3>1, NatSetInduction
  <2> HIDE DEF Finds
  <2>4. \A m \in Nat : Finds(0 + m, r[0]) = Finds(0, r[m])
    BY <2>3
  <2>5. \A m \in Nat : 0 + m = m
    OBVIOUS
  <2> QED BY <2>4, <2>5
\* Looking up finds the mark for the variables that need themselves.
<1>9. ASSUME NEW n \in Nat, NEW q \in Seq(Piece)
      PROVE  Endless \notin ToSet(Finds(n, q)) <=>
               \A i \in 1 .. Len(q) : InRule(q[i]) => q[i].w \in V[n]
  <2>1. Endless \in ToSet(Finds(n, q)) <=>
          \E i \in 1 .. Len(q) : Endless \in ToSet(F(n)[q[i]])
    <3>1. F(n) \in [Piece -> Seq(Marked)]
      BY <1>1
    <3> QED BY ONLY <3>1, q \in Seq(Piece), SpreadElements
  <2>2. \A v \in Seq(Text) : Endless \notin ToSet(v)
    BY EndlessAssumption DEF ToSet, Text
  <2>3. ASSUME NEW t \in Piece
        PROVE  Endless \notin ToSet(F(n)[t]) <=> (InRule(t) => t.w \in V[n])
    <3>1. CASE t.k # "var"
      <4>0. t.w \in Text
        BY <1>2
      <4>1. F(n)[t] = <<t.w>> /\ <<t.w>> \in Seq(Text)
        <5>1. F(n)[t] = <<t.w>>
          BY <1>3, <3>1
        <5> HIDE DEF InRule, V, Finds, P
        <5> QED BY <4>0, <5>1
      <4> QED BY <2>2, <3>1, <4>1
    <3>2. CASE t.k = "var" /\ t.w \in R
      BY <1>3, <3>2
    <3>3. CASE t.k = "var" /\ t.w \notin R
      <4>0. t.w \in Text
        BY <1>2
      <4>1. F(n)[t] = text[t.w] /\ text[t.w] \in Seq(Text)
        <5>1. F(n)[t] = g[n][t.w]
          BY <1>3, <3>3
        <5>2. g[n][t.w] = text[t.w] /\ text[t.w] \in Seq(Text)
          BY <3>3, <4>0
        <5> QED BY <5>1, <5>2
      <4> QED BY <2>2, <3>3, <4>1
    <3> QED BY <3>1, <3>2, <3>3
  <2> HIDE DEF Finds, InRule, V
  <2>4. \A i \in 1 .. Len(q) : q[i] \in Piece
    OBVIOUS
  <2> QED BY <2>1, <2>3, <2>4
<1>10. V[N + 1] = V[N]
  <2>1. V \in [Nat -> SUBSET R] /\ P \in [SUBSET R -> SUBSET R]
    OBVIOUS
  <2>2. V[0] = {}
    <3>1. \A x \in R : Endless \in ToSet(g[0][x])
      BY ToSetElements
    <3> QED BY <3>1
  <2>3. \A S, U \in SUBSET R : S \subseteq U => P[S] \subseteq P[U]
    OBVIOUS
  <2>4. ASSUME NEW n \in Nat PROVE V[n + 1] = P[V[n]]
    <3>1. ASSUME NEW x \in R
          PROVE  Endless \notin ToSet(g[n + 1][x]) <=>
                   \A i \in 1 .. Len(rule[x]) : InRule(rule[x][i]) => rule[x][i].w \in V[n]
      <4>1. g[n + 1][x] = Finds(n, rule[x]) /\ rule[x] \in Seq(Piece)
        BY DEF F
      <4> HIDE DEF Finds, V, InRule
      <4> QED BY <1>9, <4>1
    <3>2. V[n + 1] = {x \in R : Endless \notin ToSet(g[n + 1][x])}
      <4>1. n + 1 \in Nat
        OBVIOUS
      <4> QED BY <4>1
    <3>3. P[V[n]] = {x \in R : \A i \in 1 .. Len(rule[x]) :
                       InRule(rule[x][i]) => rule[x][i].w \in V[n]}
      BY <2>1
    <3> HIDE DEF V, P, InRule
    <3> QED BY <3>1, <3>2, <3>3
  <2> HIDE DEF V, P
  <2>5. Grows(R, V, P)
    BY <2>1, <2>2, <2>3, <2>4 DEF Grows
  <2> QED BY ONLY <2>5, N \in Nat, Cardinality(R) <= N, GrowthEnds
\* Without a variable of the rule, looking up and rewriting end at once.
<1>11. ASSUME NEW q \in Seq(Piece), Free(q)
       PROVE  Done(Spread(D, q)) /\ Words(Spread(D, q)) = Finds(0, q)
  <2>1. ASSUME NEW t \in Piece, ~InRule(t)
        PROVE  /\ Spread(Word, D[t]) = F(0)[t]
               /\ \A b \in ToSet(D[t]) : b.k # "var"
    <3>1. CASE t.k # "var"
      <4>1. D[t] = <<t>> /\ Spread(Word, <<t>>) = <<t.w>> /\ F(0)[t] = <<t.w>>
        BY <1>3, <1>4, <3>1
      <4>2. ToSet(<<t>>) = {t}
        BY DEF ToSet
      <4> QED BY <3>1, <4>1, <4>2
    <3>2. CASE t.k = "var"
      <4>1. t.w \notin R /\ t.w \in Text
        BY <1>2, <2>1, <3>2
      <4>2. D[t] = Pieces(text[t.w])
        BY <1>3, <3>2, <4>1
      <4>3. F(0)[t] = text[t.w]
        <5>1. 0 \in Nat /\ g[0][t.w] = text[t.w]
          <6>1. \A x \in Text \ R : g[0][x] = text[x]
            OBVIOUS
          <6> QED BY <4>1, <6>1
        <5> QED BY <1>3, <3>2, <5>1
      <4>4. ASSUME NEW b \in ToSet(Pieces(text[t.w])) PROVE b.k # "var"
        <5> DEFINE v == text[t.w]
        <5>1. PICK i \in DOMAIN Pieces(v) : b = Pieces(v)[i]
          BY ToSetElements
        <5> HIDE DEF v
        <5> QED BY <5>1 DEF Pieces
      <4> QED BY <1>6, <4>1, <4>2, <4>3, <4>4
    <3> QED BY <3>1, <3>2
  <2>2. \A i \in 1 .. Len(q) : q[i] \in Piece /\ ~InRule(q[i])
    <3>1. \A i \in 1 .. Len(q) : q[i] \in Piece
      OBVIOUS
    <3>2. \A i \in 1 .. Len(q) : ~InRule(q[i])
      <4> HIDE DEF InRule
      <4> QED BY <1>11
    <3> HIDE DEF InRule
    <3> QED BY <3>1, <3>2
  <2> DEFINE G == Twice(Piece, D, Word)
             f == Spread(D, q)
  <2>3. G \in [Piece -> Seq(Text)] /\ f \in Seq(Piece)
    <3>1. \A t \in Piece : D[t] \in Seq(Piece)
      BY <1>1
    <3>2. \A u \in Seq(Piece) : Spread(Word, u) \in Seq(Text)
      BY ONLY <1>1, SpreadSteps
    <3> QED BY <1>4, <3>1, <3>2 DEF Twice
  <2>4. Words(f) = Spread(G, q)
    <3>1. Spread(Word, f) = Spread(G, q)
      <4>1. D \in Spreads(Piece, Piece) /\ Word \in Spreads(Piece, Text)
        BY <1>1 DEF Spreads
      <4> QED BY ONLY <4>1, q \in Seq(Piece), SpreadTwice DEF f, G
    <3> HIDE DEF f
    <3> QED BY <2>3, <3>1, WordsSpread
  <2>5. Spread(G, q) = Finds(0, q)
    <3>1. ASSUME NEW i \in DOMAIN q PROVE G[q[i]] = F(0)[q[i]]
      <4>1. q[i] \in Piece /\ ~InRule(q[i])
        <5> HIDE DEF InRule, G, f, V, P
        <5>1. i \in 1 .. Len(q)
          BY ONLY q \in Seq(Piece), i \in DOMAIN q
        <5> QED BY <2>2, <5>1
      <4>2. G[q[i]] = Spread(Word, D[q[i]])
        BY <4>1 DEF Twice
      <4> HIDE DEF InRule, G
      <4> QED BY <2>1, <4>1, <4>2
    <3> HIDE DEF G
    <3>2. [i \in DOMAIN q |-> G[q[i]]] = [i \in DOMAIN q |-> F(0)[q[i]]]
      BY <3>1
    <3> QED BY <3>2 DEF Spread
  <2>6. ASSUME NEW i \in 1 .. Len(f) PROVE f[i].k # "var"
    <3>1. f[i] \in ToSet(f)
      <4> HIDE DEF f
      <4>1. i \in DOMAIN f
        BY <2>3
      <4> QED BY <4>1, ToSetElements
    <3>2. \A b : b \in ToSet(f) => \E j \in 1 .. Len(q) : b \in ToSet(D[q[j]])
      BY ONLY <1>1, q \in Seq(Piece), SpreadElements DEF f
    <3>3. PICK j \in 1 .. Len(q) : f[i] \in ToSet(D[q[j]])
      BY <3>1, <3>2
    <3> HIDE DEF f, InRule
    <3> QED BY <2>1, <2>2, <3>3
  <2> HIDE DEF f, Finds
  <2> QED BY <2>4, <2>5, <2>6 DEF f
<1> DEFINE e == Finds(N, r[0])
           f == r[N + 1]
<1>12. /\ r[N] \in Seq(Piece) /\ f \in Seq(Piece) /\ r[0] \in Seq(Piece) /\ N + 1 \in Nat
       /\ f = Spread(D, r[N])
  BY DEF D
<1>13. e = Finds(0, r[N]) /\ Finds(N + 1, r[0]) = Finds(0, f)
  <2> HIDE DEF Finds
  <2> QED BY <1>8, <1>12
<1>14. V[0] = {}
  <2>1. \A x \in R : Endless \in ToSet(g[0][x])
    BY ToSetElements
  <2> QED BY <2>1
<1>15. ASSUME Endless \notin ToSet(e) PROVE Done(f) /\ e = Words(f)
  <2> HIDE DEF V, Finds, e, f
  <2>1. \A i \in 1 .. Len(r[N]) : InRule(r[N][i]) => r[N][i].w \in V[0]
    BY <1>9, <1>12, <1>13, <1>15
  <2>2. Free(r[N])
    BY <1>14, <2>1
  <2> HIDE DEF Free, Done
  <2> QED BY <1>11, <1>12, <1>13, <2>2
<1>16. ASSUME Done(f) PROVE Endless \notin ToSet(e)
  <2> HIDE DEF V, Finds, e, f
  <2>1. \A i \in 1 .. Len(f) : ~InRule(f[i])
    BY <1>16
  <2> HIDE DEF InRule
  <2>2. Endless \notin ToSet(Finds(0, f))
    BY <1>9, <1>12, <2>1
  <2>3. \A i \in 1 .. Len(r[0]) : InRule(r[0][i]) => r[0][i].w \in V[N + 1]
    BY <1>9, <1>12, <1>13, <2>2
  <2> QED BY <1>9, <1>10, <1>12, <2>3 DEF e
<1> QED BY <1>15, <1>16 DEF F


\* A Scope with names for values of S.
IsScope(f, S) ==
  DOMAIN f \in SUBSET Text /\ IsFiniteSet(DOMAIN f) /\ \A x \in DOMAIN f : f[x] \in S

Paths == Seq(Seq(Text))

\* What is known of a build statement when its variables are looked up.
Readable(s) ==
  /\ s.inputs \in Paths /\ s.outputs \in Paths /\ IsScope(s.vars, Seq(Text))
  /\ IsScope(RuleVars(s), Seq(Piece)) /\ IsScope(file.global_scope, Seq(Text))
  /\ \A p \in DOMAIN file.phony : file.phony[p].targets \in Paths

\* The variables that are looked up in the rule, their values, and those of all
\* others, which hold no variable.
FromRule(s) == DOMAIN RuleVars(s) \ ({"in", "out"} \cup DOMAIN s.vars)
RuleOf(s) == [x \in FromRule(s) |-> RuleVars(s)[x]]
TextOf(s) ==
  [x \in Text |->
     IF x = "in" THEN Joined(InFiles(s.inputs))
     ELSE IF x = "out" THEN Joined(s.outputs)
     ELSE IF x \in DOMAIN s.vars THEN s.vars[x]
     ELSE IF x \in DOMAIN file.global_scope THEN file.global_scope[x]
     ELSE <<>>]

LEMMA JoinedTyped ==
  ASSUME NEW paths \in Paths PROVE Joined(paths) \in Seq(Text)
<1> DEFINE V == Seq(Text)
           space == " "
           all == [i \in DOMAIN paths |-> IF i = 1 THEN paths[i] ELSE <<space>> \o paths[i]]
<1>1. space \in Text
  BY LiteralsAssumption DEF Text
<1>2. Joined(paths) = FlattenSeq(all)
  BY DEF Joined
<1> HIDE DEF V, space
<1>3. \A i \in DOMAIN paths : paths[i] \in V
  BY DEF Paths, V
<1>4. \A v \in V : <<space>> \o v \in V
  BY <1>1 DEF V
<1>5. DOMAIN paths = 1 .. Len(paths) /\ Len(paths) \in Nat
  BY DEF Paths
<1>6. all \in Seq(V)
  BY <1>3, <1>4, <1>5
<1>7. all \in Seq(Seq(Text))
  BY <1>6 DEF V
<1> HIDE DEF all
<1> QED BY <1>2, <1>7, FlattenSeqType

LEMMA InFilesTyped ==
  ASSUME NEW ins \in Paths, \A p \in DOMAIN file.phony : file.phony[p].targets \in Paths
  PROVE  InFiles(ins) \in Paths
<1> DEFINE V == Seq(Text)
           all == [i \in DOMAIN ins |->
                     IF ins[i] \in DOMAIN file.phony THEN file.phony[ins[i]].targets
                     ELSE <<ins[i]>>]
<1> HIDE DEF V
<1>1. DOMAIN ins = 1 .. Len(ins) /\ Len(ins) \in Nat /\ \A i \in DOMAIN ins : ins[i] \in V
  BY DEF Paths, V
<1> DEFINE P == Seq(V)
<1>2. \A i \in DOMAIN ins : <<ins[i]>> \in P
  BY <1>1
<1>3. \A p \in DOMAIN file.phony : file.phony[p].targets \in P
  BY DEF Paths, V
<1> HIDE DEF P
<1>4. all \in Seq(P)
  BY <1>1, <1>2, <1>3
<1>5. all \in Seq(Seq(V))
  BY <1>4 DEF P
<1> HIDE DEF all
<1>6. FlattenSeq(all) \in Seq(V)
  BY <1>5, FlattenSeqType
<1> QED BY <1>6 DEF InFiles, all, Paths, V

LEMMA ReadableParts ==
  ASSUME NEW s, Readable(s)
  PROVE  /\ FromRule(s) \in SUBSET Text /\ IsFiniteSet(FromRule(s))
         /\ Cardinality(DOMAIN RuleVars(s)) \in Nat
         /\ Cardinality(FromRule(s)) <= Cardinality(DOMAIN RuleVars(s))
         /\ RuleOf(s) \in [FromRule(s) -> Seq(Piece)]
         /\ TextOf(s) \in [Text -> Seq(Text)]
<1>1. /\ DOMAIN RuleVars(s) \in SUBSET Text /\ IsFiniteSet(DOMAIN RuleVars(s))
      /\ FromRule(s) \in SUBSET DOMAIN RuleVars(s)
  BY DEF Readable, IsScope, FromRule
<1>2. /\ IsFiniteSet(FromRule(s)) /\ Cardinality(DOMAIN RuleVars(s)) \in Nat
      /\ Cardinality(FromRule(s)) <= Cardinality(DOMAIN RuleVars(s))
  BY <1>1, FS_Subset, FS_CardinalityType
<1>3. RuleOf(s) \in [FromRule(s) -> Seq(Piece)]
  BY <1>1 DEF Readable, IsScope, RuleOf
<1>4. TextOf(s) \in [Text -> Seq(Text)]
  <2>1. Joined(InFiles(s.inputs)) \in Seq(Text) /\ Joined(s.outputs) \in Seq(Text)
    BY InFilesTyped, JoinedTyped DEF Readable
  <2>2. <<>> \in Seq(Text)
    OBVIOUS
  <2>3. /\ \A x \in DOMAIN s.vars : s.vars[x] \in Seq(Text)
        /\ \A x \in DOMAIN file.global_scope : file.global_scope[x] \in Seq(Text)
    BY DEF Readable, IsScope
  <2> DEFINE V == Seq(Text)
             a == Joined(InFiles(s.inputs))
             b == Joined(s.outputs)
  <2>4. /\ a \in V /\ b \in V /\ <<>> \in V
        /\ \A x \in DOMAIN s.vars : s.vars[x] \in V
        /\ \A x \in DOMAIN file.global_scope : file.global_scope[x] \in V
    BY <2>1, <2>2, <2>3
  <2>5. TextOf(s) = [x \in Text |-> IF x = "in" THEN a ELSE IF x = "out" THEN b
                                    ELSE IF x \in DOMAIN s.vars THEN s.vars[x]
                                    ELSE IF x \in DOMAIN file.global_scope
                                    THEN file.global_scope[x] ELSE <<>>]
    BY DEF TextOf
  <2> HIDE DEF V, a, b
  <2>6. TextOf(s) \in [Text -> V]
    BY <2>4, <2>5
  <2> QED BY <2>6 DEF V
<1> QED BY <1>1, <1>2, <1>3, <1>4

\* The variables that get looks up, as a function of those a level deeper.
Level(s, n, deeper) ==
  [x \in STRING |->
     IF x = "in" THEN Joined(InFiles(s.inputs))
     ELSE IF x = "out" THEN Joined(s.outputs)
     ELSE IF x \in DOMAIN s.vars THEN s.vars[x]
     ELSE IF x \in DOMAIN RuleVars(s)
     THEN IF n = 0 THEN <<Endless>>
          ELSE FlattenSeq([i \in DOMAIN RuleVars(s)[x] |->
                 IF RuleVars(s)[x][i].k = "var" THEN deeper[RuleVars(s)[x][i].w]
                 ELSE <<RuleVars(s)[x][i].w>>])
     ELSE IF x \in DOMAIN file.global_scope THEN file.global_scope[x]
     ELSE <<>>]
Levels(s) == CHOOSE g : g = [n \in Nat |-> Level(s, n, g[n - 1])]

LEMMA GetIs ==
  ASSUME NEW v, NEW s
  PROVE  Get(v, s) = Levels(s)[Cardinality(DOMAIN RuleVars(s))][v]
BY DEF Get, Levels, Level

LEMMA SpreadIs ==
  ASSUME NEW q \in Seq(Piece), NEW h
  PROVE  FlattenSeq([i \in DOMAIN q |-> IF q[i].k = "var" THEN h[q[i].w] ELSE <<q[i].w>>])
           = Spread(Filled(h), q)
<1>1. \A i \in DOMAIN q : Filled(h)[q[i]] = IF q[i].k = "var" THEN h[q[i].w] ELSE <<q[i].w>>
  BY DEF Filled
<1>2. [i \in DOMAIN q |-> IF q[i].k = "var" THEN h[q[i].w] ELSE <<q[i].w>>]
        = [i \in DOMAIN q |-> Filled(h)[q[i]]]
  BY <1>1
<1> QED BY <1>2 DEF Spread

LEMMA LevelIs ==
  ASSUME NEW s, Readable(s), NEW n, NEW h
  PROVE  /\ Level(s, n, h) =
              [x \in Text |-> IF x \notin FromRule(s) THEN TextOf(s)[x]
                              ELSE IF n = 0 THEN <<Endless>>
                              ELSE Spread(Filled(h), RuleOf(s)[x])]
         /\ n = 0 \/ h \in [Text -> Seq(Marked)] => Level(s, n, h) \in [Text -> Seq(Marked)]
<1> DEFINE new(x) == IF x \notin FromRule(s) THEN TextOf(s)[x]
                     ELSE IF n = 0 THEN <<Endless>>
                     ELSE Spread(Filled(h), RuleOf(s)[x])
<1>1. ASSUME NEW x \in FromRule(s), n # 0
      PROVE  Level(s, n, h)[x] = Spread(Filled(h), RuleOf(s)[x])
  <2>1. x \in Text /\ RuleOf(s)[x] \in Seq(Piece) /\ RuleOf(s)[x] = RuleVars(s)[x]
    BY ReadableParts DEF RuleOf
  <2>2. x \in DOMAIN RuleVars(s) /\ x # "in" /\ x # "out" /\ x \notin DOMAIN s.vars
    BY DEF FromRule
  <2>3. Level(s, n, h)[x] =
          FlattenSeq([i \in DOMAIN RuleVars(s)[x] |->
                 IF RuleVars(s)[x][i].k = "var" THEN h[RuleVars(s)[x][i].w]
                 ELSE <<RuleVars(s)[x][i].w>>])
    BY <1>1, <2>1, <2>2 DEF Level, Text
  <2> QED BY <2>1, <2>3, SpreadIs
<1>2. ASSUME NEW x \in FromRule(s), n = 0 PROVE Level(s, n, h)[x] = <<Endless>>
  <2>1. x \in Text
    BY ReadableParts
  <2>2. x \in DOMAIN RuleVars(s) /\ x # "in" /\ x # "out" /\ x \notin DOMAIN s.vars
    BY DEF FromRule
  <2> QED BY <1>2, <2>1, <2>2 DEF Level, Text
<1>3. ASSUME NEW x \in Text \ FromRule(s) PROVE Level(s, n, h)[x] = TextOf(s)[x]
  <2>1. x = "in" \/ x = "out" \/ x \in DOMAIN s.vars \/ x \notin DOMAIN RuleVars(s)
    BY DEF FromRule
  <2> QED BY <2>1 DEF Level, TextOf, Text
<1>4. \A x \in Text : Level(s, n, h)[x] = new(x)
  BY <1>1, <1>2, <1>3
<1>5. Level(s, n, h) = [x \in Text |-> Level(s, n, h)[x]]
  BY DEF Level, Text
<1>6. Level(s, n, h) = [x \in Text |-> new(x)]
  BY <1>4, <1>5
<1>7. ASSUME n = 0 \/ h \in [Text -> Seq(Marked)], NEW x \in Text
      PROVE  new(x) \in Seq(Marked)
  <2>1. CASE x \notin FromRule(s)
    <3>1. TextOf(s)[x] \in Seq(Text)
      BY ReadableParts
    <3>2. \A v \in Seq(Text) : v \in Seq(Marked)
      BY DEF Marked
    <3> QED BY <2>1, <3>1, <3>2
  <2>2. CASE x \in FromRule(s) /\ n = 0
    <3>1. <<Endless>> \in Seq(Marked)
      BY DEF Marked
    <3> QED BY <2>2, <3>1
  <2>3. CASE x \in FromRule(s) /\ n # 0
    <3>1. Filled(h) \in [Piece -> Seq(Marked)]
      BY <1>7, <2>3, PieceFunctions
    <3>2. RuleOf(s)[x] \in Seq(Piece)
      BY <2>3, ReadableParts
    <3>3. \A q \in Seq(Piece) : Spread(Filled(h), q) \in Seq(Marked)
      BY ONLY <3>1, SpreadSteps
    <3> QED BY <2>3, <3>2, <3>3
  <2> QED BY <2>1, <2>2, <2>3
<1> HIDE DEF new
<1>8. n = 0 \/ h \in [Text -> Seq(Marked)] => Level(s, n, h) \in [Text -> Seq(Marked)]
  <2> DEFINE M == Seq(Marked)
  <2> HIDE DEF M
  <2>1. n = 0 \/ h \in [Text -> M] => \A x \in Text : new(x) \in M
    BY <1>7 DEF M
  <2>2. n = 0 \/ h \in [Text -> M] => Level(s, n, h) \in [Text -> M]
    BY <1>6, <2>1
  <2> QED BY <2>2 DEF M
<1> QED BY <1>6, <1>8 DEF new

LEMMA LevelsAre ==
  ASSUME NEW s, Readable(s)
  PROVE  /\ Levels(s) \in [Nat -> [Text -> Seq(Marked)]]
         /\ \A x \in Text \ FromRule(s), n \in Nat : Levels(s)[n][x] = TextOf(s)[x]
         /\ \A x \in FromRule(s) : Levels(s)[0][x] = <<Endless>>
         /\ \A x \in FromRule(s), n \in Nat :
              Levels(s)[n + 1][x] = Spread(Filled(Levels(s)[n]), RuleOf(s)[x])
<1> DEFINE H == [Text -> Seq(Marked)]
           new(n, h) == [x \in Text |-> IF x \notin FromRule(s) THEN TextOf(s)[x]
                              ELSE IF n = 0 THEN <<Endless>>
                              ELSE Spread(Filled(h), RuleOf(s)[x])]
           W == [h \in H |-> Level(s, 1, h)]
           base == Level(s, 0, 0)
<1>1. /\ \A n, h : Level(s, n, h) = new(n, h)
      /\ \A n, h : n = 0 \/ h \in H => Level(s, n, h) \in H
  BY LevelIs
<1>2. /\ \A h : Level(s, 0, h) = base
      /\ \A n \in Nat, h \in H : n # 0 => Level(s, n, h) = W[h]
  <2>1. \A h : new(0, h) = new(0, 0)
    OBVIOUS
  <2>2. \A n \in Nat : \A h : n # 0 => new(n, h) = new(1, h)
    OBVIOUS
  <2> HIDE DEF new
  <2> QED BY <1>1, <2>1, <2>2
<1>3. base \in H /\ W \in [H -> H]
  <2> HIDE DEF H
  <2> QED BY <1>1
<1> HIDE DEF H, new, W, base
<1>4. \E g : g = [n \in Nat |-> Level(s, n, g[n - 1])]
  <2>1. PICK g \in [Nat -> H] : g[0] = base /\ \A n \in Nat : g[n + 1] = W[g[n]]
    <3>1. \E g \in [Nat -> H] : Iterates(g, base, W)
      BY ONLY <1>3, IterationExists
    <3> QED BY <3>1 DEF Iterates
  <2>2. ASSUME NEW n \in Nat PROVE g[n] = Level(s, n, g[n - 1])
    <3>1. CASE n = 0
      BY <1>2, <2>1, <3>1
    <3>2. CASE n # 0
      <4>1. n - 1 \in Nat /\ (n - 1) + 1 = n
        BY <3>2
      <4>2. g[n] = W[g[n - 1]] /\ g[n - 1] \in H
        BY <2>1, <4>1
      <4> QED BY <1>2, <3>2, <4>2
    <3> QED BY <3>1, <3>2
  <2>3. g = [n \in Nat |-> Level(s, n, g[n - 1])]
    BY <2>2
  <2> QED BY <2>3
<1> DEFINE g == Levels(s)
<1>5. g = [n \in Nat |-> Level(s, n, g[n - 1])]
  BY <1>4 DEF Levels
<1> HIDE DEF g
<1>6. \A n \in Nat : g[n] = Level(s, n, g[n - 1])
  BY <1>5
<1>7. \A n \in Nat : g[n + 1] = Level(s, n + 1, g[n])
  <2> TAKE n \in Nat
  <2>1. n + 1 \in Nat /\ (n + 1) - 1 = n
    OBVIOUS
  <2>2. g[n + 1] = Level(s, n + 1, g[(n + 1) - 1])
    BY ONLY <1>6, <2>1
  <2> QED BY <2>1, <2>2
<1> DEFINE T == {n \in Nat : g[n] \in H}
<1>8. 0 \in T
  <2>1. 0 \in Nat
    OBVIOUS
  <2>2. g[0] = Level(s, 0, g[0 - 1])
    BY ONLY <1>6, <2>1
  <2> QED BY <1>1, <2>2
<1>9. ASSUME NEW n \in T PROVE n + 1 \in T
  BY <1>1, <1>7
<1>10. T = Nat
  <2> HIDE DEF T
  <2>1. T \in SUBSET Nat
    BY DEF T
  <2> QED BY <1>8, <1>9, <2>1, NatSetInduction
<1>11. g \in [Nat -> H]
  BY <1>5, <1>10
<1>12. g[0] = new(0, g[0 - 1]) /\ \A n \in Nat : g[n] = new(n, g[n - 1]) /\ g[n + 1] = new(n + 1, g[n])
  BY <1>1, <1>6, <1>7
<1>13. FromRule(s) \in SUBSET Text
  BY ReadableParts
<1>14. ASSUME NEW x \in Text \ FromRule(s), NEW n \in Nat PROVE g[n][x] = TextOf(s)[x]
  BY <1>12 DEF new
<1>15. ASSUME NEW x \in FromRule(s) PROVE g[0][x] = <<Endless>>
  BY <1>12, <1>13 DEF new
<1>16. ASSUME NEW x \in FromRule(s), NEW n \in Nat
       PROVE  g[n + 1][x] = Spread(Filled(g[n]), RuleOf(s)[x])
  <2>1. n + 1 # 0 /\ x \in Text
    BY <1>13
  <2> QED BY ZenonT(30), <1>12, <2>1 DEF new
<1> QED BY <1>11, <1>14, <1>15, <1>16 DEF g, H

\* What is found in scopes inside each other.
LEMMA NearestIs ==
  ASSUME NEW a, NEW b, NEW c, NEW d, NEW x, NEW q, q = <<a, b, c, d>>
  PROVE  /\ Format!Has(x, q) <=> x \in DOMAIN a \cup DOMAIN b \cup DOMAIN c \cup DOMAIN d
         /\ Format!Has(x, q) =>
              Format!Definition(x, q) =
                IF x \in DOMAIN a THEN a[x] ELSE IF x \in DOMAIN b THEN b[x]
                ELSE IF x \in DOMAIN c THEN c[x] ELSE d[x]
<1>1. DOMAIN q = 1 .. 4 /\ q[1] = a /\ q[2] = b /\ q[3] = c /\ q[4] = d
  OBVIOUS
<1>2. 1 .. 4 = {1, 2, 3, 4}
  OBVIOUS
<1>3. Format!Has(x, q) <=> x \in DOMAIN a \cup DOMAIN b \cup DOMAIN c \cup DOMAIN d
  <2>1. Format!Has(x, q) <=> \E i \in {1, 2, 3, 4} : x \in DOMAIN q[i]
    BY <1>1, <1>2 DEF Format!Has
  <2> QED BY <1>1, <2>1
<1> DEFINE First(i) == x \in DOMAIN q[i] /\ \A j \in 1 .. i - 1 : x \notin DOMAIN q[j]
           n == CHOOSE i \in DOMAIN q : First(i)
<1>4. Format!Definition(x, q) = q[n][x]
  BY DEF Format!Definition
<1>5. \A i, j \in 1 .. 4 : First(i) /\ First(j) => i = j
  <2> TAKE i, j \in 1 .. 4
  <2>1. i < j => i \in 1 .. j - 1
    OBVIOUS
  <2>2. j < i => j \in 1 .. i - 1
    OBVIOUS
  <2> QED BY <2>1, <2>2
<1>6. ASSUME NEW i \in 1 .. 4, First(i) PROVE n = i
  <2>1. n \in 1 .. 4 /\ First(n)
    <3> HIDE DEF First
    <3> QED BY <1>1, <1>6
  <2> HIDE DEF n, First
  <2> QED BY <1>5, <1>6, <2>1
<1> HIDE DEF n
<1>7. /\ 1 .. 1 - 1 = {} /\ 1 .. 2 - 1 = {1} /\ 1 .. 3 - 1 = {1, 2} /\ 1 .. 4 - 1 = {1, 2, 3}
      /\ 1 \in 1 .. 4 /\ 2 \in 1 .. 4 /\ 3 \in 1 .. 4 /\ 4 \in 1 .. 4
  OBVIOUS
<1>8. CASE x \in DOMAIN a
  <2>1. First(1)
    BY <1>1, <1>7, <1>8
  <2>2. n = 1
    BY <1>6, <1>7, <2>1
  <2> QED BY <1>1, <1>3, <1>4, <1>8, <2>2
<1>9. CASE x \notin DOMAIN a /\ x \in DOMAIN b
  <2>1. First(2)
    BY <1>1, <1>7, <1>9
  <2>2. n = 2
    BY <1>6, <1>7, <2>1
  <2> QED BY <1>1, <1>3, <1>4, <1>9, <2>2
<1>10. CASE x \notin DOMAIN a /\ x \notin DOMAIN b /\ x \in DOMAIN c
  <2>1. First(3)
    BY <1>1, <1>7, <1>10
  <2>2. n = 3
    BY <1>6, <1>7, <2>1
  <2> QED BY <1>1, <1>3, <1>4, <1>10, <2>2
<1>11. CASE x \notin DOMAIN a /\ x \notin DOMAIN b /\ x \notin DOMAIN c /\ x \in DOMAIN d
  <2>1. First(4)
    BY <1>1, <1>7, <1>11
  <2>2. n = 4
    BY <1>6, <1>7, <2>1
  <2> QED BY <1>1, <1>3, <1>4, <1>11, <2>2
<1> QED BY <1>3, <1>8, <1>9, <1>10, <1>11

LEMMA ScopesAre ==
  ASSUME NEW s, Readable(s)
  PROVE  LET scopes == Format!Scopes(s, file)
         IN /\ scopes[3] = RuleVars(s)
            /\ \A x : Format!Has(x, scopes) <=> Bound(x, s)
            /\ \A x \in Text :
                 (IF Format!Has(x, scopes) THEN Format!Definition(x, scopes) ELSE <<>>)
                   = IF x \in FromRule(s) THEN RuleOf(s)[x] ELSE Pieces(TextOf(s)[x])
<1> DEFINE ins == [i \in DOMAIN s.inputs |->
                     IF s.inputs[i] \in DOMAIN file.phony
                     THEN file.phony[s.inputs[i]].targets ELSE <<s.inputs[i]>>]
           a == [v \in {"in", "out"} |->
                   Format!Text(Format!Spaced(IF v = "in" THEN Format!FlattenSeq(ins)
                                             ELSE s.outputs))]
           b == Format!Texts(s.vars)
           c == RuleVars(s)
           d == Format!Texts(file.global_scope)
           scopes == Format!Scopes(s, file)
<1>1. scopes = <<a, b, c, d>>
  BY DEF Format!Scopes, RuleVars
<1>2. \A v : Format!Text(v) = Pieces(v)
  BY DEF Format!Text, Pieces
<1>3. \A p : Format!Spaced(p) = Joined(p)
  BY DEF Format!Spaced, Joined, Format!FlattenSeq, FlattenSeq
<1>4. Format!FlattenSeq(ins) = InFiles(s.inputs)
  BY DEF InFiles, Format!FlattenSeq, FlattenSeq
<1>5. /\ DOMAIN a = {"in", "out"}
      /\ a["in"] = Pieces(Joined(InFiles(s.inputs)))
      /\ a["out"] = Pieces(Joined(s.outputs))
  <2> HIDE DEF ins
  <2> QED BY <1>2, <1>3, <1>4
<1>6. /\ DOMAIN b = DOMAIN s.vars /\ \A x \in DOMAIN b : b[x] = Pieces(s.vars[x])
      /\ DOMAIN d = DOMAIN file.global_scope
      /\ \A x \in DOMAIN d : d[x] = Pieces(file.global_scope[x])
  BY <1>2 DEF Format!Texts
<1> HIDE DEF ins, a, b, c, d, scopes
<1>7. scopes[3] = RuleVars(s)
  BY <1>1 DEF c
<1>8. \A x : Format!Has(x, scopes) <=> Bound(x, s)
  <2> TAKE x
  <2>1. Format!Has(x, scopes) <=> x \in DOMAIN a \cup DOMAIN b \cup DOMAIN c \cup DOMAIN d
    BY <1>1, NearestIs
  <2> QED BY <1>5, <1>6, <2>1 DEF Bound, c
<1>9. ASSUME NEW x \in Text
      PROVE  (IF Format!Has(x, scopes) THEN Format!Definition(x, scopes) ELSE <<>>)
               = IF x \in FromRule(s) THEN RuleOf(s)[x] ELSE Pieces(TextOf(s)[x])
  <2>1. Format!Has(x, scopes) =>
          Format!Definition(x, scopes) =
            IF x \in DOMAIN a THEN a[x] ELSE IF x \in DOMAIN b THEN b[x]
            ELSE IF x \in DOMAIN c THEN c[x] ELSE d[x]
    BY <1>1, NearestIs
  <2>2. Format!Has(x, scopes) <=> x \in DOMAIN a \cup DOMAIN b \cup DOMAIN c \cup DOMAIN d
    BY <1>1, NearestIs
  <2>3. x \in FromRule(s) <=> x \in DOMAIN c /\ x \notin DOMAIN a /\ x \notin DOMAIN b
    BY <1>5, <1>6 DEF FromRule, c
  <2>4. TextOf(s)[x] = IF x = "in" THEN Joined(InFiles(s.inputs))
                       ELSE IF x = "out" THEN Joined(s.outputs)
                       ELSE IF x \in DOMAIN s.vars THEN s.vars[x]
                       ELSE IF x \in DOMAIN file.global_scope THEN file.global_scope[x]
                       ELSE <<>>
    BY DEF TextOf
  <2>5. CASE x \in DOMAIN a
    BY <1>5, <2>1, <2>2, <2>3, <2>4, <2>5
  <2>6. CASE x \notin DOMAIN a /\ x \in DOMAIN b
    BY <1>5, <1>6, <2>1, <2>2, <2>3, <2>4, <2>6
  <2>7. CASE x \in FromRule(s)
    BY <2>1, <2>2, <2>3, <2>7 DEF RuleOf, c
  <2>8. CASE x \notin DOMAIN a /\ x \notin DOMAIN b /\ x \notin DOMAIN c /\ x \in DOMAIN d
    BY <1>5, <1>6, <2>1, <2>2, <2>3, <2>4, <2>8
  <2>9. CASE x \notin DOMAIN a /\ x \notin DOMAIN b /\ x \notin DOMAIN c /\ x \notin DOMAIN d
    <3>1. Pieces(<<>>) = <<>>
      BY DEF Pieces
    <3> QED BY <1>5, <1>6, <2>1, <2>2, <2>3, <2>4, <2>9, <3>1
  <2> QED BY <2>3, <2>5, <2>6, <2>7, <2>8, <2>9
<1> QED BY <1>7, <1>8, <1>9 DEF scopes

LEMMA RewrittenIs ==
  ASSUME NEW s, Readable(s), NEW q \in Seq(Piece)
  PROVE  Format!Rewritten(q, Format!Scopes(s, file))
           = Spread(Defined(FromRule(s), RuleOf(s), TextOf(s)), q)
<1> DEFINE D == Defined(FromRule(s), RuleOf(s), TextOf(s))
           scopes == Format!Scopes(s, file)
           by(i) == IF q[i].k # "var" THEN <<q[i]>>
                    ELSE IF Format!Has(q[i].w, scopes)
                    THEN Format!Definition(q[i].w, scopes) ELSE <<>>
<1>1. Format!Rewritten(q, scopes) = FlattenSeq([i \in DOMAIN q |-> by(i)])
  BY DEF Format!Rewritten, Format!FlattenSeq, FlattenSeq
<1>2. ASSUME NEW i \in DOMAIN q PROVE by(i) = D[q[i]]
  <2>1. q[i] \in Piece /\ q[i].w \in Text
    <3>1. q[i] \in Piece
      OBVIOUS
    <3> QED BY <3>1 DEF Piece
  <2>2. D[q[i]] = IF q[i].k # "var" THEN <<q[i]>>
                  ELSE IF q[i].w \in FromRule(s) THEN RuleOf(s)[q[i].w]
                  ELSE Pieces(TextOf(s)[q[i].w])
    BY <2>1 DEF Defined
  <2>3. (IF Format!Has(q[i].w, scopes) THEN Format!Definition(q[i].w, scopes) ELSE <<>>)
          = IF q[i].w \in FromRule(s) THEN RuleOf(s)[q[i].w] ELSE Pieces(TextOf(s)[q[i].w])
    BY <2>1, ScopesAre
  <2> HIDE DEF D, scopes
  <2> QED BY <2>2, <2>3
<1>3. [i \in DOMAIN q |-> by(i)] = [i \in DOMAIN q |-> D[q[i]]]
  <2> HIDE DEF by, D
  <2> QED BY <1>2
<1> HIDE DEF by, D
<1> QED BY <1>1, <1>3 DEF Spread, D

\* A value rewritten again and again.
Rewritings(q, scopes) ==
  CHOOSE f : f = [n \in Nat |-> IF n = 0 THEN Format!Late(q)
                                ELSE Format!Rewritten(f[n - 1], scopes)]

LEMMA FinalIs ==
  ASSUME NEW q, NEW scopes
  PROVE  Format!Final(q, scopes) = Rewritings(q, scopes)[Cardinality(DOMAIN scopes[3]) + 1]
BY DEF Format!Final, Rewritings, Format!Cardinality, Cardinality

LEMMA RewritingsAre ==
  ASSUME NEW s, Readable(s), NEW q, Format!Late(q) \in Seq(Piece)
  PROVE  LET f == Rewritings(q, Format!Scopes(s, file))
         IN /\ f \in [Nat -> Seq(Piece)] /\ f[0] = Format!Late(q)
            /\ \A n \in Nat :
                 f[n + 1] = Spread(Defined(FromRule(s), RuleOf(s), TextOf(s)), f[n])
<1> DEFINE V == Seq(Piece)
           D == Defined(FromRule(s), RuleOf(s), TextOf(s))
           scopes == Format!Scopes(s, file)
           base == Format!Late(q)
           W == [p \in V |-> Spread(D, p)]
           Goes(f, n) == IF n = 0 THEN base ELSE Format!Rewritten(f[n - 1], scopes)
           f == Rewritings(q, scopes)
<1>1. D \in [Piece -> Seq(Piece)]
  <2>1. /\ FromRule(s) \in SUBSET Text /\ RuleOf(s) \in [FromRule(s) -> Seq(Piece)]
        /\ TextOf(s) \in [Text -> Seq(Text)]
    BY ReadableParts
  <2> QED BY <2>1, PieceFunctions
<1> HIDE DEF D
<1>2. W \in [V -> V]
  <2>1. \A p \in Seq(Piece) : Spread(D, p) \in Seq(Piece)
    BY ONLY <1>1, SpreadSteps
  <2>2. \A p \in V : Spread(D, p) \in V
    BY <2>1
  <2> HIDE DEF V
  <2> QED BY <2>2
<1>3. \A p \in V : Format!Rewritten(p, scopes) = W[p]
  BY RewrittenIs DEF D
<1>4. base \in V
  OBVIOUS
<1> HIDE DEF V, W, base, scopes
<1>5. \E h : h = [n \in Nat |-> Goes(h, n)]
  <2>1. PICK h \in [Nat -> V] : h[0] = base /\ \A n \in Nat : h[n + 1] = W[h[n]]
    <3>1. \E h \in [Nat -> V] : Iterates(h, base, W)
      BY ONLY <1>2, <1>4, IterationExists
    <3> QED BY <3>1 DEF Iterates
  <2>2. ASSUME NEW n \in Nat PROVE h[n] = Goes(h, n)
    <3>1. CASE n = 0
      BY <2>1, <3>1
    <3>2. CASE n # 0
      <4>1. n - 1 \in Nat /\ (n - 1) + 1 = n
        BY <3>2
      <4>2. h[n] = W[h[n - 1]] /\ h[n - 1] \in V
        BY <2>1, <4>1
      <4> QED BY <1>3, <3>2, <4>2
    <3> QED BY <3>1, <3>2
  <2> HIDE DEF Goes
  <2>3. h = [n \in Nat |-> Goes(h, n)]
    BY <2>1, <2>2
  <2> QED BY <2>3
<1>6. f = [n \in Nat |-> Goes(f, n)]
  BY <1>5 DEF Rewritings, base
<1> HIDE DEF f
<1>7. f[0] = base
  BY <1>6
<1>8. \A n \in Nat : f[n + 1] = Format!Rewritten(f[n], scopes)
  <2> TAKE n \in Nat
  <2>1. n + 1 \in Nat /\ (n + 1) - 1 = n /\ n + 1 # 0
    OBVIOUS
  <2>2. f[n + 1] = Goes(f, n + 1)
    <3> HIDE DEF Goes
    <3> QED BY <1>6, <2>1
  <2> QED BY <2>1, <2>2
<1> DEFINE T == {n \in Nat : f[n] \in V}
<1>9. 0 \in T
  BY <1>4, <1>7
<1>10. ASSUME NEW n \in T PROVE n + 1 \in T
  <2>1. f[n] \in V /\ n \in Nat
    OBVIOUS
  <2>2. f[n + 1] = W[f[n]]
    BY <1>3, <1>8, <2>1
  <2> QED BY <1>2, <2>1, <2>2
<1>11. T = Nat
  <2> HIDE DEF T
  <2>1. T \in SUBSET Nat
    BY DEF T
  <2> QED BY <1>9, <1>10, <2>1, NatSetInduction
<1>12. f \in [Nat -> V]
  <2>1. DOMAIN f = Nat /\ f = [n \in Nat |-> f[n]]
    <3> HIDE DEF Next
    <3> QED BY <1>6
  <2> QED BY <1>11, <2>1
<1>13. \A n \in Nat : f[n + 1] = Spread(D, f[n])
  BY <1>3, <1>8, <1>12 DEF W
<1> QED BY <1>7, <1>12, <1>13 DEF f, V, D, base, scopes

LEMMA NoneCounted ==
  ASSUME NEW A, NEW q \in Seq(A), NEW k
  PROVE  Format!Count(q, k) = 0 <=> \A i \in 1 .. Len(q) : q[i].k # k
<1> DEFINE S == {i \in DOMAIN q : q[i].k = k}
           D == 1 .. Len(q)
<1>1. DOMAIN q = D /\ Len(q) \in Nat
  OBVIOUS
<1>2. IsFiniteSet(D)
  BY <1>1, FS_Interval
<1>3. S \in SUBSET D /\ S = {i \in D : q[i].k = k}
  BY <1>1
<1>4. Format!Count(q, k) = Cardinality(S)
  BY DEF Format!Count, Format!Cardinality, Cardinality
<1> HIDE DEF S, D
<1>5. IsFiniteSet(S)
  BY <1>2, <1>3, FS_Subset
<1>6. Cardinality(S) = 0 <=> S = {}
  BY <1>5, FS_EmptySet
<1> QED BY <1>3, <1>4, <1>6 DEF D

\* A value has the meaning NinjaFormat gives it, and one whose expansion does not
\* end has none.
LEMMA ExpandedAsWritten ==
  ASSUME NEW s, Readable(s), NEW q, Format!Late(q) \in Seq(Piece)
  PROVE  LET scopes == Format!Scopes(s, file)
             e == Expand(q, s)
         IN /\ Ends(e) <=> Format!Defined(q, scopes)
            /\ Ends(e) => e = Format!Meaning(q, scopes) /\ e \in Seq(Text)
<1> DEFINE scopes == Format!Scopes(s, file)
           g == Levels(s)
           r == Rewritings(q, scopes)
           R == FromRule(s)
           rule == RuleOf(s)
           text == TextOf(s)
           N == Cardinality(DOMAIN RuleVars(s))
           e == Spread(Filled(g[N]), r[0])
           f == r[N + 1]
<1>1. /\ R \in SUBSET Text /\ IsFiniteSet(R) /\ N \in Nat /\ Cardinality(R) <= N
      /\ rule \in [R -> Seq(Piece)] /\ text \in [Text -> Seq(Text)]
  BY ReadableParts
<1>2. /\ g \in [Nat -> [Text -> Seq(Marked)]]
      /\ \A x \in Text \ R, n \in Nat : g[n][x] = text[x]
      /\ \A x \in R : g[0][x] = <<Endless>>
      /\ \A x \in R, n \in Nat : g[n + 1][x] = Spread(Filled(g[n]), rule[x])
  BY LevelsAre
<1>3. /\ r \in [Nat -> Seq(Piece)] /\ r[0] = Format!Late(q)
      /\ \A n \in Nat : r[n + 1] = Spread(Defined(R, rule, text), r[n])
  BY RewritingsAre
<1>4. Expand(q, s) = e
  <2> DEFINE l == Format!Late(q)
             h == g[N]
  <2>1. \A v : Get(v, s) = h[v]
    BY GetIs
  <2> HIDE DEF h
  <2>2. DOMAIN l = DOMAIN q
        /\ \A i \in DOMAIN q : l[i].w = q[i].w /\ (l[i].k = "var" <=> q[i].k = "var")
    BY DEF Format!Late
  <2>3. \A i \in DOMAIN l :
          (IF q[i].k = "var" THEN Get(q[i].w, s) ELSE <<q[i].w>>)
            = IF l[i].k = "var" THEN h[l[i].w] ELSE <<l[i].w>>
    BY <2>1, <2>2
  <2>4. Expand(q, s) =
          FlattenSeq([i \in DOMAIN l |-> IF l[i].k = "var" THEN h[l[i].w] ELSE <<l[i].w>>])
    BY <2>2, <2>3 DEF Expand
  <2>5. l \in Seq(Piece)
    OBVIOUS
  <2> HIDE DEF l
  <2>6. Expand(q, s) = Spread(Filled(h), l)
    BY <2>4, <2>5, SpreadIs
  <2> QED BY <1>3, <2>6 DEF h, l
<1>5. Format!Final(q, scopes) = f
  <2>1. scopes[3] = RuleVars(s)
    BY ScopesAre
  <2> QED BY <2>1, FinalIs
<1> HIDE DEF scopes, g, r, R, rule, text, N
<1>. Expands(R, N, rule, text, g, r)
  BY ONLY <1>1, <1>2, <1>3 DEF Expands
<1>6. /\ Endless \notin ToSet(e) <=> \A i \in 1 .. Len(f) : f[i].k # "var"
      /\ Endless \notin ToSet(e) => e = Words(f)
  BY ExpansionsAgree
<1>7. f \in Seq(Piece)
  BY <1>1, <1>3
<1>8. Format!Defined(q, scopes) <=> \A i \in 1 .. Len(f) : f[i].k # "var"
  BY <1>5, <1>7, NoneCounted DEF Format!Defined
<1>9. Format!Meaning(q, scopes) = Words(f)
  BY <1>5 DEF Format!Meaning, Words
<1> HIDE DEF e, f
<1>10. Words(f) \in Seq(Text)
  <2>1. \A t \in Piece : t.w \in Text
    BY DEF Piece
  <2>2. \A i \in DOMAIN f : f[i].w \in Text
    BY <1>7, <2>1
  <2> QED BY <1>7, <2>2 DEF Words
<1> QED BY <1>4, <1>6, <1>8, <1>9, <1>10 DEF Ends, scopes

-----------------------------------------------------------------------------
(* What the values are.                                                    *)

\* Nothing is bound yet under a rule or a build.
Unbound == EndOfHead \cup {"outputs", "implicit_outputs", "build rule", "rule"}

FileKnown(f) ==
  /\ {"global_scope", "rules", "phony", "builds"} \subseteq DOMAIN f
  /\ IsScope(f.global_scope, Seq(Text))
  /\ \A r \in DOMAIN f.rules : IsScope(f.rules[r], Seq(Piece))
  /\ \A p \in DOMAIN f.phony : f.phony[p].targets \in Paths

StmtKnown(s, p) ==
  /\ {"rule", "vars", "inputs", "outputs"} \subseteq DOMAIN s
  /\ s.inputs \in Paths /\ s.outputs \in Paths
  /\ p \in Unbound => s.vars = <<>>
  /\ p = "rule vars" => IsScope(s.vars, Seq(Piece))
  /\ p = "build vars" => IsScope(s.vars, Seq(Text))

ValuesKnown == FileKnown(file) /\ StmtKnown(stmt, pc)

LEMMA NothingBound ==
  /\ \A S : IsScope(<<>>, S)
  /\ <<>> \in Paths
<1>1. DOMAIN <<>> = {}
  OBVIOUS
<1>2. \A S : IsScope(<<>>, S)
  BY <1>1, FS_EmptySet DEF IsScope
<1>3. <<>> \in Paths
  BY DEF Paths
<1> QED BY <1>2, <1>3

LEMMA MoreBound ==
  ASSUME NEW S, NEW f, IsScope(f, S), NEW n \in Text, NEW v \in S
  PROVE  IsScope(Bind(f, n, v), S)
<1> DEFINE b == Bind(f, n, v)
           D == DOMAIN f
<1>1. DOMAIN b = D \cup {n} /\ \A x \in DOMAIN b : b[x] = IF x = n THEN v ELSE f[x]
  BY DEF Bind
<1>2. D \in SUBSET Text /\ IsFiniteSet(D) /\ \A x \in D : f[x] \in S
  BY DEF IsScope
<1> HIDE DEF b, D
<1>3. IsFiniteSet(D \cup {n})
  BY <1>2, FS_AddElement
<1>4. D \cup {n} \in SUBSET Text
  BY <1>2
<1>5. \A x \in DOMAIN b : b[x] \in S
  BY <1>1, <1>2
<1> QED BY <1>1, <1>3, <1>4, <1>5 DEF IsScope, b

LEMMA AssignmentParts ==
  ASSUME NEW q \in Seq(Token), NEW a \in Assignment(q)
  PROVE  a.name \in Text /\ a.value \in Seq(Token)
<1>1. PICK v \in ValueTokens(q) : a.name = q[1].w /\ a.value = SubSeq(v, 1, Run(v, InValue))
  BY DEF Assignment
<1>2. Kind(q) = "word" /\ v = skip_spaces(Tail(skip_spaces(Tail(q))))
      /\ Kind(skip_spaces(Tail(q))) = "="
  BY <1>1 DEF ValueTokens
<1>3. q # <<>> /\ Len(q) >= 1 /\ q[1] \in Token
  BY <1>2, KindTyped
<1>4. q[1].w \in Text
  BY <1>3 DEF Token, Text
<1> DEFINE e == skip_spaces(Tail(q))
<1>5. e \in Seq(Token)
  BY <1>3, NextSpacesTyped
<1> HIDE DEF e
<1>6. e # <<>>
  BY <1>2, <1>5, KindTyped DEF e
<1>7. skip_spaces(Tail(e)) \in Seq(Token)
  BY <1>5, <1>6, NextSpacesTyped
<1>8. v \in Seq(Token)
  BY <1>2, <1>7 DEF e
<1>9. Run(v, InValue) \in 0 .. Len(v)
  BY <1>8, EofIsNoKind, RunEnds
<1>10. SubSeq(v, 1, Run(v, InValue)) \in Seq(Token)
  BY <1>8, <1>9
<1> QED BY <1>1, <1>4, <1>10

LEMMA LateTyped ==
  ASSUME NEW q \in Seq(Token)
  PROVE  Format!Late(q) \in Seq(Piece) /\ Expandable(q) = Format!Late(q)
<1> DEFINE at(i) == [k |-> IF q[i].k = "var" THEN "var" ELSE "text", w |-> q[i].w]
<1>1. \A i \in DOMAIN q : at(i) \in Piece
  <2> TAKE i \in DOMAIN q
  <2>1. q[i] \in Token
    OBVIOUS
  <2>2. q[i].w \in Text
    BY <2>1 DEF Token, Text
  <2> QED BY <2>2 DEF Piece
<1>2. Format!Late(q) = [i \in DOMAIN q |-> at(i)]
  BY DEF Format!Late
<1> HIDE DEF at
<1>3. Format!Late(q) \in Seq(Piece)
  BY <1>1, <1>2
<1>4. Expandable(q) = Format!Late(q)
  BY SameScopes
<1> QED BY <1>3, <1>4

LEMMA ExpandedTyped ==
  ASSUME NEW q \in Seq(Token), ~Unknown(q), IsScope(file.global_scope, Seq(Text))
  PROVE  Expanded(q) \in Seq(Text)
<1> DEFINE V == Seq(Text)
           at(i) == IF q[i].k = "var" THEN file.global_scope[q[i].w] ELSE <<q[i].w>>
           all == [i \in DOMAIN q |-> at(i)]
<1>1. ASSUME NEW i \in DOMAIN q PROVE at(i) \in V
  <2>1. q[i] \in Token
    OBVIOUS
  <2>2. q[i].w \in Text
    BY <2>1 DEF Token, Text
  <2>3. q[i].k = "var" => q[i].w \in DOMAIN file.global_scope
    BY DEF Unknown
  <2>4. q[i].k = "var" => file.global_scope[q[i].w] \in V
    BY <2>3 DEF IsScope
  <2>5. <<q[i].w>> \in V
    BY <2>2
  <2> QED BY <2>4, <2>5
<1>2. Expanded(q) = FlattenSeq(all)
  BY DEF Expanded
<1> HIDE DEF V, at
<1>3. all \in Seq(V)
  BY <1>1
<1>4. all \in Seq(Seq(Text))
  BY <1>3 DEF V
<1> HIDE DEF all
<1> QED BY <1>2, <1>4, FlattenSeqType

LEMMA NoStatementKnown ==
  ASSUME NEW p PROVE StmtKnown(NoStatement, p)
<1>1. /\ {"rule", "vars", "inputs", "outputs"} \subseteq DOMAIN NoStatement
      /\ NoStatement.vars = <<>> /\ NoStatement.inputs = <<>> /\ NoStatement.outputs = <<>>
  BY DEF NoStatement
<1> HIDE DEF NoStatement
<1> QED BY <1>1, NothingBound DEF StmtKnown

LEMMA SameKnown ==
  ASSUME StmtKnown(stmt, pc), UNCHANGED stmt,
         pc' \in Unbound => pc \in Unbound, pc' = "rule vars" => pc = "rule vars",
         pc' = "build vars" => pc \in Unbound \cup {"build vars"}
  PROVE  StmtKnown(stmt', pc')
BY NothingBound DEF StmtKnown

\* At the end of a build statement its variables can be looked up.
LEMMA StatementReadable ==
  ASSUME ParserInv, ValuesKnown, pc = "build vars" PROVE Readable(stmt)
<1>1. stmt.rule \in DOMAIN file.rules \cup {"phony"}
  BY DEF ParserInv, TypeOK
<1>2. IsScope(RuleVars(stmt), Seq(Piece))
  <2>1. \A r \in DOMAIN file.rules : IsScope(file.rules[r], Seq(Piece))
    BY DEF ValuesKnown, FileKnown
  <2>2. IsScope(<<>>, Seq(Piece))
    BY NothingBound
  <2> QED BY <1>1, <2>1, <2>2 DEF RuleVars
<1> QED BY <1>2 DEF ValuesKnown, FileKnown, StmtKnown, Readable

LEMMA RestKnows ==
  ASSUME ParserInv, ValuesKnown,
         \/ Top \/ EndOfFile \/ UnexpectedStatement \/ NotImplemented \/ Mark
         \/ HeadDone \/ DefaultDone \/ UnexpectedInList \/ Include
  PROVE  ValuesKnown'
<1>1. UNCHANGED <<file, stmt>>
  BY DEF Top, EndOfFile, UnexpectedStatement, NotImplemented, Mark, HeadDone,
         DefaultDone, UnexpectedInList, Include
<1>2. \/ pc' \in {"top", "statement", "end"}
      \/ pc \in Unbound /\ pc' \in Unbound
      \/ pc \in Unbound /\ pc' = "build vars"
  <2>1. CASE Mark
    <3>1. PICK m \in Marks : pc = m[1] /\ pc' = m[3]
      BY <2>1 DEF Mark, Goto
    <3>2. CASE m = <<"outputs", "|", "implicit_outputs">>
      BY <3>1, <3>2 DEF Unbound
    <3>3. CASE m = <<"outputs", ":", "build rule">>
      BY <3>1, <3>3 DEF Unbound
    <3>4. CASE m = <<"implicit_outputs", ":", "build rule">>
      BY <3>1, <3>4 DEF Unbound
    <3>5. CASE m = <<"inputs", "|", "implicit_inputs">>
      BY <3>1, <3>5 DEF Unbound, EndOfHead
    <3>6. CASE m = <<"inputs", "||", "order_only_inputs">>
      BY <3>1, <3>6 DEF Unbound, EndOfHead
    <3>7. CASE m = <<"implicit_inputs", "||", "order_only_inputs">>
      BY <3>1, <3>7 DEF Unbound, EndOfHead
    <3> QED BY <3>2, <3>3, <3>4, <3>5, <3>6, <3>7 DEF Marks
  <2>2. CASE HeadDone
    BY <2>2 DEF HeadDone, GotoNextLine, Goto, Unbound
  <2>3. CASE Top
    BY <2>3 DEF Top, GotoNextLine, Goto
  <2>4. CASE EndOfFile \/ UnexpectedStatement \/ NotImplemented \/ DefaultDone
             \/ UnexpectedInList \/ Include
    BY <2>4 DEF EndOfFile, UnexpectedStatement, NotImplemented, DefaultDone,
                UnexpectedInList, Include, End, Goto
  <2> QED BY <2>1, <2>2, <2>3, <2>4
<1>3. "build vars" \notin Unbound /\ "rule vars" \notin Unbound
      /\ {"top", "statement", "end"} \cap Unbound = {}
  BY DEF Unbound, EndOfHead
<1>4. StmtKnown(stmt', pc')
  BY <1>1, <1>2, <1>3, SameKnown DEF ValuesKnown
<1> QED BY <1>1, <1>4 DEF ValuesKnown

\* Where the parser ends, or is between statements, nothing is asked of what is
\* bound.
LEMMA OutsideKnown ==
  ASSUME StmtKnown(stmt, pc), UNCHANGED stmt, pc' \in {"top", "end"}
  PROVE  StmtKnown(stmt', pc')
<1>1. {"top", "end"} \cap (Unbound \cup {"rule vars", "build vars"}) = {}
  BY DEF Unbound, EndOfHead
<1> QED BY <1>1 DEF StmtKnown

LEMMA KeywordKnows ==
  ASSUME ParserInv, ValuesKnown, Keyword PROVE ValuesKnown'
<1>1. stmt' = NoStatement /\ file' = file
  BY DEF Keyword
<1>2. StmtKnown(stmt', pc')
  BY <1>1, NoStatementKnown
<1> QED BY <1>1, <1>2 DEF ValuesKnown

LEMMA GlobalAssignmentKnows ==
  ASSUME ParserInv, ValuesKnown, GlobalAssignment PROVE ValuesKnown'
<1>1. UNCHANGED stmt /\ pc' \in {"top", "end"}
  BY DEF GlobalAssignment, Goto, End
<1>2. CASE UNCHANGED file
  BY <1>1, <1>2, OutsideKnown DEF ValuesKnown
<1>3. CASE ~UNCHANGED file
  <2>1. PICK a \in Assignment(toks) :
          /\ ~Unknown(a.value)
          /\ file' = [file EXCEPT !.global_scope = Bind(@, a.name, Expanded(a.value))]
    BY <1>3 DEF GlobalAssignment
  <2>2. a.name \in Text /\ a.value \in Seq(Token)
    BY Facts, AssignmentParts DEF ParserInv
  <2>3. IsScope(file.global_scope, Seq(Text))
    BY DEF ValuesKnown, FileKnown
  <2>4. IsScope(Bind(file.global_scope, a.name, Expanded(a.value)), Seq(Text))
    BY <2>1, <2>2, <2>3, ExpandedTyped, MoreBound
  <2>5. FileKnown(file')
    <3>1. /\ file'.global_scope = Bind(file.global_scope, a.name, Expanded(a.value))
          /\ file'.rules = file.rules /\ file'.phony = file.phony /\ DOMAIN file' = DOMAIN file
      BY <2>1 DEF ValuesKnown, FileKnown
    <3> QED BY <2>4, <3>1 DEF ValuesKnown, FileKnown
  <2> QED BY <1>1, <2>5, OutsideKnown DEF ValuesKnown
<1> QED BY <1>2, <1>3

LEMMA RuleNameKnows ==
  ASSUME ParserInv, ValuesKnown, RuleName PROVE ValuesKnown'
<1>1. UNCHANGED file /\ pc = "rule"
  BY DEF RuleName
<1>2. CASE UNCHANGED stmt /\ pc' = "end"
  BY <1>1, <1>2, OutsideKnown DEF ValuesKnown
<1>3. CASE pc' = "rule vars" /\ stmt' = [stmt EXCEPT !.name = toks[1].w]
  <2>1. /\ stmt'.vars = stmt.vars /\ stmt'.inputs = stmt.inputs
        /\ stmt'.outputs = stmt.outputs /\ DOMAIN stmt' = DOMAIN stmt
    BY <1>3 DEF ValuesKnown, StmtKnown
  <2>2. stmt.vars = <<>>
    BY <1>1 DEF ValuesKnown, StmtKnown, Unbound
  <2>3. StmtKnown(stmt', pc')
    <3>1. "rule vars" \notin Unbound /\ "rule vars" # "build vars"
      BY DEF Unbound, EndOfHead
    <3> QED BY <1>3, <2>1, <2>2, <3>1, NothingBound DEF ValuesKnown, StmtKnown
  <2> QED BY <1>1, <2>3 DEF ValuesKnown
<1>4. \/ UNCHANGED stmt /\ pc' = "end"
      \/ pc' = "rule vars" /\ stmt' = [stmt EXCEPT !.name = toks[1].w]
  BY DEF RuleName, GotoNextLine, Goto, End
<1> QED BY <1>2, <1>3, <1>4

LEMMA VariableKnows ==
  ASSUME ParserInv, ValuesKnown, Variable PROVE ValuesKnown'
<1>1. UNCHANGED file /\ pc \in {"rule vars", "build vars"}
  BY DEF Variable
<1>2. CASE UNCHANGED stmt /\ pc' = "end"
  BY <1>1, <1>2, OutsideKnown DEF ValuesKnown
<1>3. ASSUME NEW a \in Assignment(toks), NEW value,
             value = IF pc = "rule vars" THEN Expandable(a.value) ELSE Expand(a.value, stmt),
             pc = "rule vars" \/ Ends(value), pc' = pc,
             stmt' = [stmt EXCEPT !.vars = Bind(@, a.name, value)]
      PROVE  ValuesKnown'
  <2>1. a.name \in Text /\ a.value \in Seq(Token)
    BY Facts, AssignmentParts DEF ParserInv
  <2>2. /\ stmt'.vars = Bind(stmt.vars, a.name, value) /\ stmt'.inputs = stmt.inputs
        /\ stmt'.outputs = stmt.outputs /\ DOMAIN stmt' = DOMAIN stmt
    BY <1>3 DEF ValuesKnown, StmtKnown
  <2>3. "rule vars" \notin Unbound /\ "build vars" \notin Unbound
    BY DEF Unbound, EndOfHead
  <2>4. CASE pc = "rule vars"
    <3>1. value \in Seq(Piece)
      BY <1>3, <2>1, <2>4, LateTyped
    <3>2. IsScope(stmt.vars, Seq(Piece))
      BY <2>4 DEF ValuesKnown, StmtKnown
    <3>3. IsScope(stmt'.vars, Seq(Piece))
      BY <2>1, <2>2, <3>1, <3>2, MoreBound
    <3> QED BY <1>1, <1>3, <2>2, <2>3, <2>4, <3>3 DEF ValuesKnown, StmtKnown
  <2>5. CASE pc = "build vars"
    <3>1. value \in Seq(Text)
      <4>1. value = Expand(a.value, stmt) /\ Ends(Expand(a.value, stmt))
        BY <1>3, <2>5
      <4>2. Readable(stmt) /\ Format!Late(a.value) \in Seq(Piece)
        BY <2>1, <2>5, StatementReadable, LateTyped
      <4> QED BY <4>1, <4>2, ExpandedAsWritten
    <3>2. IsScope(stmt.vars, Seq(Text))
      BY <2>5 DEF ValuesKnown, StmtKnown
    <3>3. IsScope(stmt'.vars, Seq(Text))
      BY <2>1, <2>2, <3>1, <3>2, MoreBound
    <3> QED BY <1>1, <1>3, <2>2, <2>3, <2>5, <3>3 DEF ValuesKnown, StmtKnown
  <2> QED BY <1>1, <2>4, <2>5
<1>4. \/ UNCHANGED stmt /\ pc' = "end"
      \/ \E a \in Assignment(toks) :
           LET value == IF pc = "rule vars" THEN Expandable(a.value)
                        ELSE Expand(a.value, stmt)
           IN /\ pc = "rule vars" \/ Ends(value)
              /\ pc' = pc /\ stmt' = [stmt EXCEPT !.vars = Bind(@, a.name, value)]
  BY DEF Variable, GotoNextLine, Goto, End
<1> QED BY <1>2, <1>3, <1>4

LEMMA RuleDoneKnows ==
  ASSUME ParserInv, ValuesKnown, RuleDone PROVE ValuesKnown'
<1>1. /\ UNCHANGED stmt /\ pc = "rule vars" /\ pc' \in {"top", "end"}
      /\ file' = [file EXCEPT !.rules = Bind(@, stmt.name, stmt.vars)]
  BY DEF RuleDone, Goto, End
<1>2. /\ file'.global_scope = file.global_scope /\ file'.phony = file.phony
      /\ file'.rules = Bind(file.rules, stmt.name, stmt.vars) /\ DOMAIN file' = DOMAIN file
  BY <1>1 DEF ValuesKnown, FileKnown
<1>3. IsScope(stmt.vars, Seq(Piece)) /\ \A r \in DOMAIN file.rules : IsScope(file.rules[r], Seq(Piece))
  BY <1>1 DEF ValuesKnown, FileKnown, StmtKnown
<1>4. \A r \in DOMAIN file'.rules :
        file'.rules[r] = stmt.vars \/ (r \in DOMAIN file.rules /\ file'.rules[r] = file.rules[r])
  BY <1>2 DEF Bind
<1>5. \A r \in DOMAIN file'.rules : IsScope(file'.rules[r], Seq(Piece))
  BY <1>3, <1>4
<1>6. FileKnown(file')
  BY <1>2, <1>5 DEF ValuesKnown, FileKnown
<1> QED BY <1>1, <1>6, OutsideKnown DEF ValuesKnown

LEMMA PathKnows ==
  ASSUME ParserInv, ValuesKnown, Path PROVE ValuesKnown'
<1> DEFINE n == Run(toks, CanStartWord)
           word == SubSeq(toks, 1, n)
           new == Expanded(word)
<1>1. CASE UNCHANGED <<file, stmt>> /\ pc' = "end"
  BY <1>1, OutsideKnown DEF ValuesKnown
<1>2. CASE /\ ~Unknown(word) /\ pc' = pc
           /\ IF pc = "default"
              THEN file' = [file EXCEPT !.defaults = Append(@, new)] /\ UNCHANGED stmt
              ELSE stmt' = [stmt EXCEPT ![pc] = Append(@, new)] /\ UNCHANGED file
  <2>1. toks \in Seq(Token) /\ pc \in Lists
    BY Facts DEF ParserInv, Path
  <2>2. n \in 0 .. Len(toks)
    BY <2>1, EofIsNoKind, RunEnds
  <2> HIDE DEF n
  <2>3. word \in Seq(Token)
    BY <2>1, <2>2
  <2> HIDE DEF word
  <2>4. new \in Seq(Text)
    BY <1>2, <2>3, ExpandedTyped DEF ValuesKnown, FileKnown
  <2> HIDE DEF new
  <2>5. CASE pc = "default"
    <3>1. /\ file' = [file EXCEPT !.defaults = Append(@, new)] /\ stmt' = stmt
      BY <1>2, <2>5
    <3>2. /\ file'.global_scope = file.global_scope /\ file'.phony = file.phony
          /\ file'.rules = file.rules /\ DOMAIN file' = DOMAIN file
      BY <3>1 DEF ValuesKnown, FileKnown
    <3>3. FileKnown(file')
      BY <3>2 DEF ValuesKnown, FileKnown
    <3> QED BY <1>2, <3>1, <3>3 DEF ValuesKnown
  <2>6. CASE pc # "default"
    <3>1. /\ stmt' = [stmt EXCEPT ![pc] = Append(@, new)] /\ UNCHANGED file
      BY <1>2, <2>6
    <3>2. pc # "vars" /\ pc # "rule" /\ pc # "rule vars" /\ pc # "build vars"
      BY <2>1 DEF Lists, EndOfHead
    <3>3. /\ stmt.inputs \in Paths /\ stmt.outputs \in Paths
          /\ {"rule", "vars", "inputs", "outputs"} \subseteq DOMAIN stmt
      BY DEF ValuesKnown, StmtKnown
    <3>4. \A p \in Paths : Append(p, new) \in Paths
      <4> DEFINE V == Seq(Text)
      <4>1. new \in V /\ Paths = Seq(V)
        BY <2>4 DEF Paths
      <4> HIDE DEF V
      <4> QED BY <4>1
    <3>5. /\ DOMAIN stmt' = DOMAIN stmt /\ stmt'.vars = stmt.vars
          /\ stmt'.inputs = IF pc = "inputs" THEN Append(stmt.inputs, new) ELSE stmt.inputs
          /\ stmt'.outputs = IF pc = "outputs" THEN Append(stmt.outputs, new) ELSE stmt.outputs
      BY <3>1, <3>2, <3>3
    <3>6. stmt'.inputs \in Paths /\ stmt'.outputs \in Paths
      BY <3>3, <3>4, <3>5
    <3>7. StmtKnown(stmt', pc')
      BY <1>2, <3>2, <3>5, <3>6 DEF ValuesKnown, StmtKnown
    <3> QED BY <3>1, <3>7 DEF ValuesKnown
  <2> QED BY <2>5, <2>6
<1>3. \/ UNCHANGED <<file, stmt>> /\ pc' = "end"
      \/ /\ ~Unknown(word) /\ pc' = pc
         /\ IF pc = "default"
            THEN file' = [file EXCEPT !.defaults = Append(@, new)] /\ UNCHANGED stmt
            ELSE stmt' = [stmt EXCEPT ![pc] = Append(@, new)] /\ UNCHANGED file
  BY DEF Path, Goto, End
<1> QED BY <1>1, <1>2, <1>3

LEMMA BuildRuleKnows ==
  ASSUME ParserInv, ValuesKnown, BuildRule PROVE ValuesKnown'
<1>1. UNCHANGED file /\ pc = "build rule"
  BY DEF BuildRule
<1>2. CASE UNCHANGED stmt /\ pc' = "end"
  BY <1>1, <1>2, OutsideKnown DEF ValuesKnown
<1>3. CASE pc' = "inputs" /\ stmt' = [stmt EXCEPT !.rule = toks[1].w]
  <2>1. /\ stmt'.vars = stmt.vars /\ stmt'.inputs = stmt.inputs
        /\ stmt'.outputs = stmt.outputs /\ DOMAIN stmt' = DOMAIN stmt
    BY <1>3 DEF ValuesKnown, StmtKnown
  <2>2. stmt.vars = <<>>
    BY <1>1 DEF ValuesKnown, StmtKnown, Unbound
  <2>3. StmtKnown(stmt', pc')
    BY <1>3, <2>1, <2>2 DEF ValuesKnown, StmtKnown
  <2> QED BY <1>1, <2>3 DEF ValuesKnown
<1>4. \/ UNCHANGED stmt /\ pc' = "end"
      \/ pc' = "inputs" /\ stmt' = [stmt EXCEPT !.rule = toks[1].w]
  BY DEF BuildRule, Goto, End
<1> QED BY <1>2, <1>3, <1>4

LEMMA BuildDoneKnows ==
  ASSUME ParserInv, ValuesKnown, BuildDone PROVE ValuesKnown'
<1>1. UNCHANGED stmt /\ pc' \in {"top", "end"}
  BY DEF BuildDone, Goto, End
<1>2. CASE UNCHANGED file
  BY <1>1, <1>2, OutsideKnown DEF ValuesKnown
<1>3. ASSUME NEW b, file' = [file EXCEPT !.builds = b] PROVE ValuesKnown'
  <2>1. /\ file'.global_scope = file.global_scope /\ file'.phony = file.phony
        /\ file'.rules = file.rules /\ DOMAIN file' = DOMAIN file
    BY <1>3 DEF ValuesKnown, FileKnown
  <2>2. FileKnown(file')
    BY <2>1 DEF ValuesKnown, FileKnown
  <2> QED BY <1>1, <2>2, OutsideKnown DEF ValuesKnown
<1>4. UNCHANGED file \/ \E b : file' = [file EXCEPT !.builds = b]
  BY DEF BuildDone
<1> QED BY <1>2, <1>3, <1>4

LEMMA PhonyDoneKnows ==
  ASSUME ParserInv, ValuesKnown, PhonyDone PROVE ValuesKnown'
<1> DEFINE T == ToSet(stmt.outputs)
           b == PhonyBuild(stmt)
<1>1. /\ UNCHANGED stmt /\ pc' = "top"
      /\ file' = [file EXCEPT !.phony =
           [p \in DOMAIN @ \cup T |-> IF p \in T THEN b ELSE @[p]]]
  BY DEF PhonyDone, Goto
<1>2. b.targets \in Paths
  BY DEF PhonyBuild, ValuesKnown, StmtKnown
<1> HIDE DEF T, b
<1>3. /\ file'.global_scope = file.global_scope
      /\ file'.phony = [p \in DOMAIN file.phony \cup T |-> IF p \in T THEN b ELSE file.phony[p]]
      /\ file'.rules = file.rules /\ DOMAIN file' = DOMAIN file
  BY <1>1 DEF ValuesKnown, FileKnown
<1>4. \A p \in DOMAIN file'.phony : file'.phony[p].targets \in Paths
  BY <1>2, <1>3 DEF ValuesKnown, FileKnown
<1>5. FileKnown(file')
  BY <1>3, <1>4 DEF ValuesKnown, FileKnown
<1> QED BY <1>1, <1>5, OutsideKnown DEF ValuesKnown

LEMMA InitKnown ==
  ASSUME Init PROVE ValuesKnown
<1>1. /\ {"global_scope", "rules", "phony", "builds"} \subseteq DOMAIN file
      /\ file.global_scope = <<>> /\ file.rules = <<>> /\ file.phony = <<>>
      /\ stmt = NoStatement
  BY DEF Init
<1>2. DOMAIN <<>> = {}
  OBVIOUS
<1>3. FileKnown(file)
  BY <1>1, <1>2, NothingBound DEF FileKnown
<1> QED BY <1>1, <1>3, NoStatementKnown DEF ValuesKnown

LEMMA ValuesInvariance == Spec => [](ParserInv /\ ValuesKnown)
<1>1. Init => ParserInv /\ ValuesKnown
  BY InitTyped, InitKnown
<1>2. (ParserInv /\ ValuesKnown) /\ [Next]_vars => (ParserInv /\ ValuesKnown)'
  <2>1. ASSUME ParserInv, ValuesKnown, Next PROVE ParserInv' /\ ValuesKnown'
    <3>1. ParserInv'
      BY <2>1, NextKeeps, KeepsIsEnough
    <3>2. ValuesKnown'
      BY <2>1, RestKnows, KeywordKnows, GlobalAssignmentKnows, RuleNameKnows,
         VariableKnows, RuleDoneKnows, PathKnows, BuildRuleKnows, BuildDoneKnows,
         PhonyDoneKnows DEF Next
    <3> QED BY <3>1, <3>2
  <2>2. ASSUME ParserInv, ValuesKnown, UNCHANGED vars PROVE ParserInv' /\ ValuesKnown'
    <3>1. /\ pc' = pc /\ outcome' = outcome /\ lexers' = lexers /\ line' = line
          /\ stmt' = stmt /\ file' = file
      BY <2>2 DEF vars
    <3>2. ParserInv'
      BY <2>2, <3>1 DEF ParserInv, TypeOK, RuleInUse, Shapes
    <3>3. ValuesKnown'
      BY <2>2, <3>1 DEF ValuesKnown
    <3> QED BY <3>2, <3>3
  <2> QED BY <2>1, <2>2
<1> QED BY <1>1, <1>2, PTL DEF Spec

-----------------------------------------------------------------------------
(* What a build statement adds.                                            *)

LEMMA GetExpands ==
  ASSUME NEW s, Readable(s), NEW v \in Text
  PROVE  /\ Format!Late(Format!Variable(v)) \in Seq(Piece)
         /\ Expand(Format!Variable(v), s) = Get(v, s)
<1> DEFINE t == [k |-> "var", w |-> v]
           x == Get(v, s)
<1>1. Format!Variable(v) = <<t>>
  BY DEF Format!Variable
<1>2. t \in Piece /\ t.k = "var" /\ t.w = v
  BY DEF Piece
<1>3. x \in Seq(Marked)
  <2> DEFINE N == Cardinality(DOMAIN RuleVars(s))
             M == Seq(Marked)
             L == Levels(s)
  <2> HIDE DEF M, L
  <2>1. N \in Nat
    BY ReadableParts
  <2>2. L \in [Nat -> [Text -> M]]
    BY LevelsAre DEF M, L
  <2> HIDE DEF N
  <2>3. L[N][v] \in M
    BY <2>1, <2>2
  <2>4. x = L[N][v]
    BY GetIs DEF L, N
  <2> QED BY <2>3, <2>4 DEF M
<1>4. Format!Late(<<t>>) = <<t>>
  BY DEF Format!Late
<1> HIDE DEF t
<1>5. <<t>> \in Seq(Piece)
  BY <1>2
<1>6. Expand(<<t>>, s) = FlattenSeq(<<x>>)
  <2>1. [i \in DOMAIN <<t>> |-> IF <<t>>[i].k = "var" THEN Get(<<t>>[i].w, s)
                                ELSE <<<<t>>[i].w>>] = <<x>>
    BY <1>2
  <2> QED BY <2>1 DEF Expand
<1> HIDE DEF x
<1>7. FlattenSeq(<<x>>) = x
  <2>1. <<x>> = Append(<<>>, x) /\ <<>> \in Seq(Seq(Marked))
    OBVIOUS
  <2>2. FlattenSeq(Append(<<>>, x)) = FlattenSeq(<<>>) \o x
    BY <1>3, <2>1, FlattenAppend
  <2>3. FlattenSeq(<<>>) = <<>>
    BY DEF FlattenSeq
  <2>4. <<>> \o x = x
    BY <1>3
  <2> QED BY <2>1, <2>2, <2>3, <2>4
<1> QED BY <1>1, <1>4, <1>5, <1>6, <1>7 DEF x

LEMMA VariableMeant ==
  ASSUME NEW s, Readable(s), NEW v \in Text
  PROVE  LET scopes == Format!Scopes(s, file)
             q == Format!Variable(v)
         IN /\ Ends(Get(v, s)) <=> Format!Defined(q, scopes)
            /\ Ends(Get(v, s)) => Get(v, s) = Format!Meaning(q, scopes)
BY GetExpands, ExpandedAsWritten

\* A build statement is added as NinjaFormat says, and refused exactly if it says
\* nothing: because a variable needs itself, or else because there is no command
\* or an unknown kind of deps.
BuildAsWritten ==
  BuildDone =>
    LET scopes == Format!Scopes(stmt, file)
        said == Format!AsRealBuild(stmt, file)
        endless == \E v \in {"command", "deps", "description"} :
                     ~Format!Defined(Format!Variable(v), scopes)
    IN IF said # {} THEN said = {file'} /\ pc' = "top"
       ELSE /\ UNCHANGED file
            /\ outcome' = IF Format!Has("command", scopes) /\ endless
                          THEN "Overflow" ELSE "Err"

\* A phony statement makes its outputs targets, as NinjaFormat says.
PhonyAsWritten == PhonyDone => Format!AsPhony(stmt, file) = {file'}

\* A variable of a build is set to what its value means where it stands.
BodyAsWritten ==
  Variable /\ pc = "build vars" =>
    LET scopes == Format!Scopes(stmt, file)
    IN \A a \in Assignment(toks) :
         IF Format!Defined(a.value, scopes)
         THEN stmt' = [stmt EXCEPT !.vars =
                         Format!Set(@, a.name, Format!Meaning(a.value, scopes))]
         ELSE outcome' = "Overflow" /\ UNCHANGED stmt

LEMMA BodyIsAsWritten ==
  ASSUME ParserInv, ValuesKnown, Variable, pc = "build vars" PROVE BodyAsWritten
<1> DEFINE scopes == Format!Scopes(stmt, file)
<1> SUFFICES ASSUME NEW a \in Assignment(toks)
             PROVE  IF Format!Defined(a.value, scopes)
                    THEN stmt' = [stmt EXCEPT !.vars =
                                    Format!Set(@, a.name, Format!Meaning(a.value, scopes))]
                    ELSE outcome' = "Overflow" /\ UNCHANGED stmt
  BY DEF BodyAsWritten
<1> DEFINE value == Expand(a.value, stmt)
<1>1. /\ Ends(value) <=> Format!Defined(a.value, scopes)
      /\ Ends(value) => value = Format!Meaning(a.value, scopes)
  <2>1. a.value \in Seq(Token)
    BY Facts, AssignmentParts DEF ParserInv
  <2>2. Readable(stmt) /\ Format!Late(a.value) \in Seq(Piece)
    BY <2>1, StatementReadable, LateTyped
  <2> QED BY <2>2, ExpandedAsWritten
<1>2. \E b \in Assignment(toks) :
        LET v == Expand(b.value, stmt)
        IN IF Ends(v) THEN stmt' = [stmt EXCEPT !.vars = Bind(@, b.name, v)]
           ELSE outcome' = "Overflow" /\ UNCHANGED stmt
  BY DEF Variable, End
<1>3. \A b \in Assignment(toks) : b = a
  <2>1. \A x, y \in ValueTokens(toks) : x = y
    BY DEF ValueTokens
  <2> QED BY <2>1 DEF Assignment
<1>4. IF Ends(value) THEN stmt' = [stmt EXCEPT !.vars = Bind(@, a.name, value)]
      ELSE outcome' = "Overflow" /\ UNCHANGED stmt
  BY <1>2, <1>3
<1>5. Bind(stmt.vars, a.name, value) = Format!Set(stmt.vars, a.name, value)
  BY SameScopes
<1> HIDE DEF value, scopes
<1> QED BY <1>1, <1>4, <1>5

LEMMA PhonyIsAsWritten ==
  ASSUME ParserInv, ValuesKnown, PhonyDone PROVE PhonyAsWritten
<1> DEFINE scopes == Format!Scopes(stmt, file)
           T == ToSet(stmt.outputs)
           d == Get("description", stmt)
           b == PhonyBuild(stmt)
<1>1. /\ pc = "build vars" /\ stmt.rule = "phony"
      /\ file' = [file EXCEPT !.phony =
           [p \in DOMAIN @ \cup T |-> IF p \in T THEN b ELSE @[p]]]
  BY DEF PhonyDone
<1>2. Readable(stmt) /\ "description" \in Text
  BY <1>1, StatementReadable, LiteralsAssumption DEF Text
<1>3. Ends(d)
  <2>1. FromRule(stmt) = {}
    <3>1. DOMAIN <<>> = {}
      OBVIOUS
    <3> QED BY <1>1, <3>1 DEF FromRule, RuleVars
  <2>2. d = Levels(stmt)[Cardinality(DOMAIN RuleVars(stmt))]["description"]
    BY GetIs
  <2>3. d = TextOf(stmt)["description"]
    BY <1>2, <2>1, <2>2, LevelsAre, ReadableParts
  <2>4. d \in Seq(Text)
    BY <1>2, <2>3, ReadableParts
  <2> HIDE DEF d
  <2>5. \A i \in DOMAIN d : d[i] # Endless
    BY <2>4, EndlessAssumption DEF Text
  <2> QED BY <2>5, ToSetElements DEF Ends
<1>4. d = Format!Meaning(Format!Variable("description"), scopes)
  BY <1>2, <1>3, VariableMeant
<1>5. b = [targets |-> stmt.outputs, inputs |-> stmt.inputs,
           order_only_inputs |-> stmt.order_only_inputs,
           implicit_outputs |-> stmt.implicit_outputs,
           implicit_inputs |-> stmt.implicit_inputs,
           description |-> Format!Meaning(Format!Variable("description"), scopes)]
  BY <1>4 DEF PhonyBuild
<1>6. Format!ToSet(stmt.outputs) = T
  BY DEF Format!ToSet, ToSet
<1> HIDE DEF b, T, d
<1>7. Format!AsPhony(stmt, file) =
        {[file EXCEPT !.phony = [p \in DOMAIN @ \cup T |-> IF p \in T THEN b ELSE @[p]]]}
  BY <1>5, <1>6 DEF Format!AsPhony, scopes
<1> QED BY <1>1, <1>7 DEF PhonyAsWritten

LEMMA BuildIsAsWritten ==
  ASSUME ParserInv, ValuesKnown, BuildDone PROVE BuildAsWritten
<1> DEFINE scopes == Format!Scopes(stmt, file)
           said == Format!AsRealBuild(stmt, file)
           M(v) == Format!Meaning(Format!Variable(v), scopes)
           Def(v) == Format!Defined(Format!Variable(v), scopes)
           has == Format!Has("command", scopes)
           deps == Format!Has("deps", scopes)
           b == Build(stmt)
           new == [inputs |-> stmt.inputs, implicit_inputs |-> stmt.implicit_inputs,
                   order_only_inputs |-> stmt.order_only_inputs,
                   outputs |-> stmt.outputs, implicit_outputs |-> stmt.implicit_outputs,
                   command |-> M("command"), deps |-> M("deps"),
                   description |-> M("description")]
           names == {"command", "deps", "description"}
<1>1. pc = "build vars" /\ Readable(stmt)
  BY StatementReadable DEF BuildDone
<1>2. \A v \in names : v \in Text
  BY LiteralsAssumption DEF Text
<1>3. \A v \in names : /\ Ends(Get(v, stmt)) <=> Def(v)
                       /\ Ends(Get(v, stmt)) => Get(v, stmt) = M(v)
  BY <1>1, <1>2, VariableMeant
<1>4. (Bound("command", stmt) <=> has) /\ (Bound("deps", stmt) <=> deps)
  BY <1>1, ScopesAre
<1>5. said = IF has /\ (\A v \in names : Def(v))
                /\ (deps => M("deps") \in {<<"gcc">>, <<"msvc">>})
             THEN {[file EXCEPT !.builds = Append(@, new)]} ELSE {}
  BY DEF Format!AsRealBuild
<1> HIDE DEF M, Def, has, deps, scopes
<1>6. /\ b.command = Get("command", stmt) /\ b.deps = Get("deps", stmt)
      /\ b.description = Get("description", stmt)
  BY DEF Build
<1>7. (\A v \in names : Def(v)) => b = new
  BY <1>3 DEF Build
<1>8. (Ends(b.command) /\ Ends(b.description) /\ Ends(b.deps)) <=> \A v \in names : Def(v)
  BY <1>3, <1>6
<1>9. (\A v \in names : Def(v)) => b.deps = M("deps")
  BY <1>3, <1>6
<1> DEFINE all == \A v \in names : Def(v)
           known == M("deps") \in {<<"gcc">>, <<"msvc">>}
<1>10. IF ~has THEN End("Err") /\ UNCHANGED file
       ELSE IF ~all THEN End("Overflow") /\ UNCHANGED file
       ELSE IF deps /\ ~known THEN End("Err") /\ UNCHANGED file
       ELSE Goto(toks, "top") /\ file' = [file EXCEPT !.builds = Append(@, b)]
  <2> HIDE DEF names
  <2>1. IF ~Bound("command", stmt) THEN End("Err") /\ UNCHANGED file
        ELSE IF ~(Ends(b.command) /\ Ends(b.description) /\ Ends(b.deps))
        THEN End("Overflow") /\ UNCHANGED file
        ELSE IF Bound("deps", stmt) /\ b.deps \notin DepsTypes
        THEN End("Err") /\ UNCHANGED file
        ELSE Goto(toks, "top") /\ file' = [file EXCEPT !.builds = Append(@, b)]
    BY DEF BuildDone
  <2>2. all => (b.deps \in DepsTypes <=> known)
    BY <1>9 DEF DepsTypes
  <2> HIDE DEF b, all, known
  <2> QED BY <1>4, <1>8, <2>1, <2>2 DEF all
<1>11. said = IF has /\ all /\ (deps => known)
              THEN {[file EXCEPT !.builds = Append(@, new)]} ELSE {}
  BY <1>5
<1>12. all => b = new
  BY <1>7
<1>13. all <=> ~(\E v \in names : ~Def(v))
  OBVIOUS
<1> HIDE DEF all, known, b, new, said, names
<1>14. CASE has /\ all /\ (deps => known)
  <2>1. Goto(toks, "top") /\ file' = [file EXCEPT !.builds = Append(@, new)]
    BY <1>10, <1>12, <1>14
  <2>2. said = {file'}
    BY <1>11, <1>14, <2>1
  <2>3. pc' = "top" /\ said # {}
    BY <2>1, <2>2 DEF Goto
  <2> QED BY <2>2, <2>3 DEF BuildAsWritten, said
<1>15. CASE ~(has /\ all /\ (deps => known))
  <2>1. said = {}
    BY <1>11, <1>15
  <2>2. UNCHANGED file /\ outcome' = IF has /\ ~all THEN "Overflow" ELSE "Err"
    BY <1>10, <1>15 DEF End
  <2> QED BY <1>13, <2>1, <2>2 DEF BuildAsWritten, said, has, names, Def, scopes
<1> QED BY <1>14, <1>15

\* A part of ParsedAsWritten for files, rules and values of every size: looking a
\* variable up inside of others, as ExpansionScope::get does, comes to what
\* rewriting the value again and again comes to.  With the files that are read
\* so far, a build statement that is complete adds the build or the phony targets
\* NinjaFormat says, with the command, the deps and the description it says, and
\* a variable of a build is set to what its value means where it stands; the
\* expansion does not end exactly if some variable needs itself.
THEOREM BuildsAsWritten == Spec => [][BuildAsWritten /\ PhonyAsWritten /\ BodyAsWritten]_vars
<1> DEFINE A == BuildAsWritten /\ PhonyAsWritten /\ BodyAsWritten
<1>1. ASSUME ParserInv, ValuesKnown, Next PROVE A
  <2>1. BuildAsWritten
    BY <1>1, BuildIsAsWritten DEF BuildAsWritten
  <2>2. PhonyAsWritten
    BY <1>1, PhonyIsAsWritten DEF PhonyAsWritten
  <2>3. BodyAsWritten
    BY <1>1, BodyIsAsWritten DEF BodyAsWritten
  <2> QED BY <2>1, <2>2, <2>3
<1>2. (ParserInv /\ ValuesKnown) /\ [Next]_vars => [A]_vars
  BY <1>1
<1> QED BY <1>2, ValuesInvariance, PTL DEF Spec
===============================================================================
