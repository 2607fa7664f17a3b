------------------------ MODULE SampleRequestProofs -------------------------
(***************************************************************************)
(* Proofs about SampleRequest: for every set of requests and every table   *)
(* of texts, the walk over the tokens reads a request as it is meant,      *)
(* member by member.                                                       *)
(*                                                                         *)
(* The tokens are those of the members, one after the other, so the proof  *)
(* needs what FlattenSeq computes.  That is an induction on the number of  *)
(* members, done here with sets of numbers and the fact that < is well     *)
(* founded on Nat.                                                         *)
(***************************************************************************)
EXTENDS SampleRequest, SequenceTheorems, WellFoundedInduction, TLAPS

-----------------------------------------------------------------------------
(* Induction, and what FlattenSeq computes *)

\* Induction, for a property given as the set of the numbers that have it.
LEMMA SetInduction ==
    ASSUME NEW S, 0 \in S, \A n \in Nat : n \in S => n + 1 \in S
    PROVE  \A n \in Nat : n \in S
<1> DEFINE T == Nat \ S
           R == OpToRel(<, Nat)
<1>1. IsWellFoundedOn(R, Nat)
  BY NatLessThanWellFounded
<1>2. \A a, b \in Nat : a < b => <<a, b>> \in R
  BY DEF OpToRel
<1> HIDE DEF R
<1>3. SUFFICES ASSUME T # {} PROVE FALSE
  BY <1>3
<1>4. PICK x \in T : \A y \in T : ~(<<y, x>> \in R)
  BY <1>1, <1>3, WFMin
<1>5. x # 0 /\ x \in Nat
  BY <1>4
<1>6. x - 1 \in Nat /\ (x - 1) + 1 = x /\ x - 1 < x
  BY <1>5
<1>7. x - 1 \in T
  BY <1>4, <1>6
<1> QED
  BY <1>2, <1>4, <1>5, <1>6, <1>7

\* The first n elements of s.
Prefix(s, n) == [k \in 1 .. n |-> s[k]]

\* f is the function that FlattenSeq defines by recursion, for n elements of s.
Flattens(f, s, n) == f = [k \in 1 .. n |-> IF k = 1 THEN s[k] ELSE f[k - 1] \o s[k]]

\* There is one,
LEMMA FlattensExists ==
    ASSUME NEW s
    PROVE  \A n \in Nat : \E f : Flattens(f, s, n)
<1> DEFINE S == {n \in Nat : \E f : Flattens(f, s, n)}
<1>1. 0 \in S
  <2>1. Flattens([k \in 1 .. 0 |-> 0], s, 0)
    BY DEF Flattens
  <2> QED
    BY <2>1
<1>2. ASSUME NEW n \in Nat, n \in S PROVE n + 1 \in S
  <2>1. PICK f : Flattens(f, s, n)
    BY <1>2
  <2> DEFINE g == [k \in 1 .. n + 1 |->
                      IF k = n + 1 THEN (IF n = 0 THEN s[1] ELSE f[n] \o s[n + 1]) ELSE f[k]]
  <2>2. \A k \in 1 .. n : f[k] = IF k = 1 THEN s[k] ELSE f[k - 1] \o s[k]
    BY <2>1 DEF Flattens
  <2>3. \A k \in 1 .. n + 1 : g[k] = IF k = 1 THEN s[k] ELSE g[k - 1] \o s[k]
    <3> SUFFICES ASSUME NEW k \in 1 .. n + 1
                 PROVE  g[k] = IF k = 1 THEN s[k] ELSE g[k - 1] \o s[k]
      OBVIOUS
    <3>1. CASE k = n + 1
      <4>1. CASE n = 0
        BY <3>1, <4>1
      <4>2. CASE n # 0
        <5>1. n \in 1 .. n + 1 /\ k - 1 = n /\ k # 1 /\ n # n + 1
          BY <3>1, <4>2
        <5>2. g[k] = f[n] \o s[k] /\ g[k - 1] = f[n]
          BY <3>1, <4>2, <5>1
        <5> QED
          BY <5>1, <5>2
      <4> QED
        BY <4>1, <4>2
    <3>2. CASE k # n + 1
      <4>1. k \in 1 .. n /\ g[k] = f[k]
        BY <3>2
      <4>2. k # 1 => k - 1 \in 1 .. n + 1 /\ k - 1 # n + 1
        BY <4>1
      <4>3. k # 1 => g[k - 1] = f[k - 1]
        BY <4>2
      <4> QED
        BY <2>2, <4>1, <4>3
    <3> QED
      BY <3>1, <3>2
  <2>4. g = [k \in 1 .. n + 1 |-> g[k]]
    OBVIOUS
  <2> HIDE DEF g
  <2>5. Flattens(g, s, n + 1)
    BY <2>3, <2>4 DEF Flattens
  <2> QED
    BY <2>5
<1> HIDE DEF S
<1>3. \A n \in Nat : n \in S
  BY <1>1, <1>2, SetInduction
<1> QED
  BY <1>3 DEF S

\* and only one.
LEMMA FlattensAgree ==
    ASSUME NEW s, NEW n \in Nat, NEW m \in Nat, NEW f, NEW g,
           Flattens(f, s, n), Flattens(g, s, m)
    PROVE  \A k \in Nat : k \in 1 .. n /\ k \in 1 .. m => f[k] = g[k]
<1> DEFINE S == {k \in Nat : k \in 1 .. n /\ k \in 1 .. m => f[k] = g[k]}
<1>0. /\ \A k \in 1 .. n : f[k] = IF k = 1 THEN s[k] ELSE f[k - 1] \o s[k]
      /\ \A k \in 1 .. m : g[k] = IF k = 1 THEN s[k] ELSE g[k - 1] \o s[k]
  BY DEF Flattens
<1>1. 0 \in S
  OBVIOUS
<1>2. ASSUME NEW k \in Nat, k \in S PROVE k + 1 \in S
  <2> SUFFICES ASSUME k + 1 \in 1 .. n, k + 1 \in 1 .. m PROVE f[k + 1] = g[k + 1]
    OBVIOUS
  <2>1. CASE k = 0
    BY <1>0, <2>1
  <2>2. CASE k # 0
    <3>1. k \in 1 .. n /\ k \in 1 .. m /\ (k + 1) - 1 = k /\ k + 1 # 1
      BY <2>2
    <3>2. f[k] = g[k]
      BY <1>2, <3>1
    <3> QED
      BY <1>0, <3>1, <3>2
  <2> QED
    BY <2>1, <2>2
<1> HIDE DEF S
<1>3. \A k \in Nat : k \in S
  BY <1>1, <1>2, SetInduction
<1> QED
  BY <1>3 DEF S

\* FlattenSeq is its last value.
LEMMA FlattenValue ==
    ASSUME NEW S, NEW s \in Seq(S), NEW n \in 1 .. Len(s), NEW f, Flattens(f, s, n)
    PROVE  FlattenSeq(Prefix(s, n)) = f[n]
<1> DEFINE p == Prefix(s, n)
           g == CHOOSE h : h = [k \in 1 .. Len(p) |-> IF k = 1 THEN p[k] ELSE h[k - 1] \o p[k]]
<1>1. p \in Seq(S) /\ Len(p) = n /\ \A k \in 1 .. n : p[k] = s[k]
  <2>1. \A k \in 1 .. n : s[k] \in S
    BY ElementOfSeq, LenProperties
  <2>2. p \in [1 .. n -> S]
    BY <2>1 DEF Prefix
  <2>3. n \in Nat
    BY LenProperties
  <2>4. p \in Seq(S)
    BY <2>2, <2>3, IsASeq, SeqDef
  <2> QED
    BY <2>2, <2>3, <2>4, LenProperties DEF Prefix
<1>2. n \in Nat \ {0}
  BY LenProperties
<1>3. FlattenSeq(p) = g[Len(p)]
  <2>1. Len(p) # 0
    BY <1>1, <1>2
  <2> HIDE DEF p
  <2> QED
    BY <2>1, Zenon DEF FlattenSeq
<1>4. \E h : h = [k \in 1 .. Len(p) |-> IF k = 1 THEN p[k] ELSE h[k - 1] \o p[k]]
  <2> HIDE DEF p
  <2> QED
    BY <1>1, <1>2, FlattensExists DEF Flattens
<1>5. g = [k \in 1 .. Len(p) |-> IF k = 1 THEN p[k] ELSE g[k - 1] \o p[k]]
  <2> HIDE DEF p
  <2> QED
    BY <1>4, Zenon
<1> HIDE DEF g, p
<1>6. Flattens(g, s, n)
  <2>1. [k \in 1 .. Len(p) |-> IF k = 1 THEN p[k] ELSE g[k - 1] \o p[k]]
           = [k \in 1 .. n |-> IF k = 1 THEN s[k] ELSE g[k - 1] \o s[k]]
    BY <1>1
  <2> QED
    BY <1>5, <2>1 DEF Flattens
<1>7. g[n] = f[n]
  BY <1>2, <1>6, FlattensAgree
<1> QED
  BY <1>1, <1>3, <1>7 DEF p

\* Flattening one sequence more appends it.
LEMMA FlattenStep ==
    ASSUME NEW S, NEW s \in Seq(Seq(S)), NEW n \in Nat, n < Len(s)
    PROVE  /\ FlattenSeq(Prefix(s, 0)) = <<>>
           /\ FlattenSeq(Prefix(s, n + 1)) = FlattenSeq(Prefix(s, n)) \o s[n + 1]
<1>0. Len(s) \in Nat /\ n + 1 \in 1 .. Len(s) /\ n + 1 \in Nat /\ n + 1 \in 1 .. n + 1
  BY LenProperties
<1>1. FlattenSeq(Prefix(s, 0)) = <<>>
  <2>1. Prefix(s, 0) = <<>>
    BY DEF Prefix
  <2> QED
    BY <2>1 DEF FlattenSeq
<1>2. PICK f : Flattens(f, s, n + 1)
  BY <1>0, FlattensExists
<1>3. FlattenSeq(Prefix(s, n + 1)) = f[n + 1]
  BY <1>0, <1>2, FlattenValue
<1>4. f[n + 1] = IF n + 1 = 1 THEN s[n + 1] ELSE f[(n + 1) - 1] \o s[n + 1]
  <2>1. \A k \in 1 .. n + 1 : f[k] = IF k = 1 THEN s[k] ELSE f[k - 1] \o s[k]
    BY <1>2 DEF Flattens
  <2> QED
    BY <1>0, <2>1
<1>5. CASE n = 0
  <2>1. s[1] \in Seq(S)
    BY <1>0, <1>5, ElementOfSeq
  <2>2. <<>> \o s[1] = s[1]
    BY <2>1, ConcatEmptySeq
  <2> QED
    BY <1>1, <1>3, <1>4, <1>5, <2>2
<1>6. CASE n # 0
  <2>1. PICK g : Flattens(g, s, n)
    BY FlattensExists
  <2>2. n \in 1 .. Len(s) /\ n \in 1 .. n /\ n \in 1 .. n + 1 /\ (n + 1) - 1 = n
    BY <1>0, <1>6
  <2>3. FlattenSeq(Prefix(s, n)) = g[n]
    BY <2>1, <2>2, FlattenValue
  <2>4. f[n] = g[n]
    <3>1. \A k \in Nat : k \in 1 .. n + 1 /\ k \in 1 .. n => f[k] = g[k]
      BY <1>0, <1>2, <2>1, FlattensAgree
    <3> QED
      BY <2>2, <3>1
  <2>5. n + 1 # 1
    BY <1>6
  <2>6. f[n + 1] = f[n] \o s[n + 1]
    BY <1>4, <2>2, <2>5
  <2> QED
    BY <1>1, <1>3, <2>3, <2>4, <2>6
<1> QED
  BY <1>5, <1>6

-----------------------------------------------------------------------------
(* The tokens of a request *)

Item == [type : STRING, text : STRING, size : Nat]
Member == [key : STRING, type : STRING, text : STRING, size : Nat, items : Seq(Item)]
\* The provers do not know that a literal is in STRING.
Kind == STRING \cup {"string"}
Tok == [type : Kind, text : STRING, size : Nat]

\* The tokens of every member of x, and those of its first n members in a row.
AllTokens(x) == [j \in 1 .. Len(x) |-> MemberTokens(x[j])]
Flat(x, n) == FlattenSeq(Prefix(AllTokens(x), n))

\* Tokens have their type.
LEMMA TokenType ==
    ASSUME NEW type \in Kind, NEW text \in STRING, NEW size \in Nat
    PROVE  Token(type, text, size) \in Tok
  BY DEF Tok, Token

\* A member's tokens: its key, its value and the items of the value.
LEMMA MemberLayout ==
    ASSUME NEW m \in Member
    PROVE  /\ MemberTokens(m) \in Seq(Tok)
           /\ Len(m.items) \in Nat
           /\ Len(MemberTokens(m)) = Len(m.items) + 2
           /\ MemberTokens(m)[1] = Token("string", m.key, 1)
           /\ MemberTokens(m)[2] = Token(m.type, m.text, m.size)
           /\ \A p \in 1 .. Len(m.items) :
                  MemberTokens(m)[p + 2] = Token(m.items[p].type, m.items[p].text, m.items[p].size)
<1> DEFINE n == Len(m.items)
           a == <<Token("string", m.key, 1), Token(m.type, m.text, m.size)>>
           b == [j \in 1 .. n |-> Token(m.items[j].type, m.items[j].text, m.items[j].size)]
<1>1. /\ m.key \in STRING /\ m.type \in STRING /\ m.text \in STRING /\ m.size \in Nat
      /\ m.items \in Seq(Item)
  BY DEF Member
<1>2. n \in Nat /\ \A p \in 1 .. n : m.items[p] \in Item
  BY <1>1, LenProperties, ElementOfSeq
<1> HIDE DEF n
<1>3. a \in Seq(Tok) /\ Len(a) = 2 /\ a[1] = Token("string", m.key, 1)
      /\ a[2] = Token(m.type, m.text, m.size)
  <2>1. Token("string", m.key, 1) \in Tok
    <3>1. "string" \in Kind /\ 1 \in Nat
      BY DEF Kind
    <3> QED
      BY <1>1, <3>1, TokenType
  <2>2. Token(m.type, m.text, m.size) \in Tok
    BY <1>1, <1>2, TokenType DEF Kind
  <2> QED
    BY <2>1, <2>2
<1>4. \A p \in 1 .. n : Token(m.items[p].type, m.items[p].text, m.items[p].size) \in Tok
  BY <1>2, TokenType DEF Item, Kind
<1>5. b \in Seq(Tok) /\ Len(b) = n
      /\ \A p \in 1 .. n : b[p] = Token(m.items[p].type, m.items[p].text, m.items[p].size)
  <2>1. b \in [1 .. n -> Tok]
    BY <1>4
  <2>2. b \in Seq(Tok)
    BY <1>2, <2>1, SeqDef
  <2> QED
    BY <1>2, <2>1, <2>2, LenProperties
<1>6. MemberTokens(m) = a \o b
  BY DEF MemberTokens, n
<1> HIDE DEF a, b
<1>7. /\ a \o b \in Seq(Tok) /\ Len(a \o b) = 2 + n
      /\ \A k \in 1 .. 2 + n : (a \o b)[k] = IF k <= 2 THEN a[k] ELSE b[k - 2]
  <2>1. /\ a \o b \in Seq(Tok) /\ Len(a \o b) = Len(a) + Len(b)
        /\ \A k \in 1 .. Len(a) + Len(b) : (a \o b)[k] = IF k <= Len(a) THEN a[k] ELSE b[k - Len(a)]
    BY <1>3, <1>5, ConcatProperties
  <2>2. Len(a) = 2 /\ Len(b) = n
    BY <1>3, <1>5
  <2> QED
    BY <2>1, <2>2
<1>8. ASSUME NEW p \in 1 .. n PROVE (a \o b)[p + 2] = b[p]
  <2>1. p + 2 \in 1 .. 2 + n /\ ~(p + 2 <= 2) /\ (p + 2) - 2 = p
    BY <1>2
  <2> QED
    BY <1>7, <2>1
<1>9. 1 \in 1 .. 2 + n /\ 2 \in 1 .. 2 + n /\ 2 + n = n + 2
  BY <1>2
<1> QED
  BY <1>2, <1>3, <1>5, <1>6, <1>7, <1>8, <1>9 DEF n

\* All tokens of a request are the tokens of all its members.
LEMMA FlatAll ==
    ASSUME NEW x \in Seq(Member)
    PROVE  /\ AllTokens(x) \in Seq(Seq(Tok)) /\ Len(AllTokens(x)) = Len(x)
           /\ Len(x) \in Nat
           /\ Flat(x, Len(x)) = FlattenSeq(AllTokens(x))
<1>1. Len(x) \in Nat /\ \A j \in 1 .. Len(x) : x[j] \in Member
  BY LenProperties, ElementOfSeq
<1>2. AllTokens(x) \in [1 .. Len(x) -> Seq(Tok)]
  BY <1>1, MemberLayout DEF AllTokens
<1>3. AllTokens(x) \in Seq(Seq(Tok))
  BY <1>1, <1>2, SeqDef
<1>4. Prefix(AllTokens(x), Len(x)) = AllTokens(x)
  BY <1>2 DEF Prefix
<1> QED
  BY <1>1, <1>2, <1>3, <1>4, LenProperties DEF Flat

\* One member more appends its tokens.
LEMMA FlatStep ==
    ASSUME NEW x \in Seq(Member), NEW n \in Nat, n < Len(x)
    PROVE  Flat(x, n + 1) = Flat(x, n) \o MemberTokens(x[n + 1])
<1>1. AllTokens(x) \in Seq(Seq(Tok)) /\ Len(AllTokens(x)) = Len(x) /\ Len(x) \in Nat
  BY FlatAll
<1>2. AllTokens(x)[n + 1] = MemberTokens(x[n + 1])
  BY <1>1 DEF AllTokens
<1> QED
  BY <1>1, <1>2, FlattenStep DEF Flat

\* The tokens of the first members are tokens.
LEMMA FlatType ==
    ASSUME NEW x \in Seq(Member)
    PROVE  \A n \in 0 .. Len(x) : Flat(x, n) \in Seq(Tok) /\ Len(Flat(x, n)) \in Nat
<1> DEFINE S == {n \in Nat : n <= Len(x) => Flat(x, n) \in Seq(Tok)}
<1>1. Len(x) \in Nat /\ \A j \in 1 .. Len(x) : x[j] \in Member
  BY LenProperties, ElementOfSeq
<1>2. 0 \in S
  <2>1. Prefix(AllTokens(x), 0) = <<>>
    BY DEF Prefix
  <2>2. Flat(x, 0) = <<>>
    BY <2>1 DEF Flat, FlattenSeq
  <2>3. Flat(x, 0) \in Seq(Tok)
    BY <2>2, EmptySeq
  <2> QED
    BY <2>3
<1>3. ASSUME NEW n \in Nat, n \in S PROVE n + 1 \in S
  <2> SUFFICES ASSUME n + 1 <= Len(x) PROVE Flat(x, n + 1) \in Seq(Tok)
    OBVIOUS
  <2>1. n < Len(x) /\ n + 1 \in 1 .. Len(x)
    BY <1>1
  <2>2. MemberTokens(x[n + 1]) \in Seq(Tok)
    BY <1>1, <2>1, MemberLayout
  <2>3. Flat(x, n) \in Seq(Tok)
    BY <1>1, <1>3, <2>1
  <2> QED
    BY <2>1, <2>2, <2>3, FlatStep, ConcatProperties
<1> HIDE DEF S
<1>4. \A n \in Nat : n \in S
  BY <1>2, <1>3, SetInduction
<1> QED
  BY <1>1, <1>4, LenProperties DEF S

\* The first n members' tokens stay in place when the others follow.
LEMMA FlatGrows ==
    ASSUME NEW x \in Seq(Member), NEW n \in 0 .. Len(x)
    PROVE  /\ Len(Flat(x, n)) <= Len(Flat(x, Len(x)))
           /\ \A k \in 1 .. Len(Flat(x, n)) : Flat(x, Len(x))[k] = Flat(x, n)[k]
<1> DEFINE Kept(d) ==
             /\ Len(Flat(x, n)) <= Len(Flat(x, n + d))
             /\ \A k \in 1 .. Len(Flat(x, n)) : Flat(x, n + d)[k] = Flat(x, n)[k]
           S == {d \in Nat : n + d <= Len(x) => Kept(d)}
<1>1. Len(x) \in Nat /\ n \in Nat /\ \A j \in 1 .. Len(x) : x[j] \in Member
  BY LenProperties, ElementOfSeq
<1>2. Len(Flat(x, n)) \in Nat
  BY FlatType
<1>3. 0 \in S
  <2>1. n + 0 = n
    BY <1>1
  <2> QED
    BY <1>2, <2>1
<1>4. ASSUME NEW d \in Nat, d \in S PROVE d + 1 \in S
  <2> SUFFICES ASSUME n + (d + 1) <= Len(x) PROVE Kept(d + 1)
    OBVIOUS
  <2> DEFINE e == n + d
             f == Flat(x, e)
             g == MemberTokens(x[e + 1])
  <2>1. e \in Nat /\ e < Len(x) /\ e + 1 \in 1 .. Len(x) /\ n + (d + 1) = e + 1
        /\ e \in 0 .. Len(x) /\ e <= Len(x)
    BY <1>1
  <2>2. Kept(d)
    BY <1>4, <2>1
  <2>3. f \in Seq(Tok) /\ g \in Seq(Tok)
    BY <1>1, <2>1, FlatType, MemberLayout
  <2>4. Flat(x, e + 1) = f \o g
    BY <2>1, FlatStep
  <2>5. Len(f) \in Nat /\ Len(g) \in Nat
    BY <2>3, LenProperties
  <2>6. Len(Flat(x, n)) <= Len(f) /\ \A k \in 1 .. Len(Flat(x, n)) : f[k] = Flat(x, n)[k]
    BY <2>2
  <2> HIDE DEF f, g, e
  <2>7. /\ Len(f \o g) = Len(f) + Len(g)
        /\ \A k \in 1 .. Len(f) + Len(g) : (f \o g)[k] = IF k <= Len(f) THEN f[k] ELSE g[k - Len(f)]
    BY <2>3, ConcatProperties
  <2>8. Len(Flat(x, n)) <= Len(f \o g)
    BY <1>2, <2>5, <2>6, <2>7
  <2>9. ASSUME NEW k \in 1 .. Len(Flat(x, n)) PROVE (f \o g)[k] = Flat(x, n)[k]
    <3>1. k \in 1 .. Len(f) + Len(g) /\ k <= Len(f)
      BY <1>2, <2>5, <2>6
    <3> QED
      BY <2>6, <2>7, <3>1
  <2>10. Flat(x, n + (d + 1)) = f \o g
    BY <2>1, <2>4
  <2> QED
    BY <2>8, <2>9, <2>10
<1> HIDE DEF S
<1>5. \A d \in Nat : d \in S
  BY <1>3, <1>4, SetInduction
<1>6. Len(x) - n \in Nat /\ n + (Len(x) - n) = Len(x)
  BY <1>1
<1>7. Kept(Len(x) - n)
  BY <1>1, <1>5, <1>6 DEF S
<1> QED
  BY <1>6, <1>7

\* Where the tokens of member n + 1 are among all of them.
LEMMA TokenAt ==
    ASSUME NEW x \in Seq(Member), NEW n \in Nat, n < Len(x)
    PROVE  /\ Len(Flat(x, n)) \in Nat
           /\ Len(Flat(x, n + 1)) = Len(Flat(x, n)) + Len(MemberTokens(x[n + 1]))
           /\ Len(Flat(x, n + 1)) <= Len(Flat(x, Len(x)))
           /\ \A q \in 1 .. Len(MemberTokens(x[n + 1])) :
                  Flat(x, Len(x))[Len(Flat(x, n)) + q] = MemberTokens(x[n + 1])[q]
<1> DEFINE f == Flat(x, n)
           g == MemberTokens(x[n + 1])
<1>1. Len(x) \in Nat /\ n + 1 \in 1 .. Len(x) /\ n \in 0 .. Len(x) /\ n + 1 \in 0 .. Len(x)
      /\ x[n + 1] \in Member
  BY LenProperties, ElementOfSeq
<1>2. f \in Seq(Tok) /\ g \in Seq(Tok) /\ Len(f) \in Nat /\ Len(g) \in Nat
  BY <1>1, FlatType, MemberLayout, LenProperties
<1>3. Flat(x, n + 1) = f \o g
  BY FlatStep
<1>4. /\ Len(Flat(x, n + 1)) <= Len(Flat(x, Len(x)))
      /\ \A k \in 1 .. Len(Flat(x, n + 1)) : Flat(x, Len(x))[k] = Flat(x, n + 1)[k]
  BY <1>1, FlatGrows
<1> HIDE DEF f, g
<1>5. /\ Len(f \o g) = Len(f) + Len(g)
      /\ \A k \in 1 .. Len(f) + Len(g) : (f \o g)[k] = IF k <= Len(f) THEN f[k] ELSE g[k - Len(f)]
  BY <1>2, ConcatProperties
<1>6. ASSUME NEW q \in 1 .. Len(g) PROVE Flat(x, Len(x))[Len(f) + q] = g[q]
  <2>1. Len(f) + q \in 1 .. Len(f) + Len(g) /\ ~(Len(f) + q <= Len(f)) /\ (Len(f) + q) - Len(f) = q
    BY <1>2
  <2>2. (f \o g)[Len(f) + q] = g[q]
    BY <1>5, <2>1
  <2> QED
    BY <1>3, <1>4, <1>5, <2>1, <2>2
<1> QED
  BY <1>2, <1>3, <1>4, <1>5, <1>6 DEF f, g

-----------------------------------------------------------------------------
(* What the first n members of a request mean *)

Known(m) == m.key \in {"req-id", "get-stats"}
StatsOf(m) == IF m.key = "get-stats" THEN {StatOf(m.items[p].text) : p \in DOMAIN m.items} ELSE {}
AskedIn(x, n) == UNION {StatsOf(x[k]) : k \in 1 .. n}
IdsIn(x, n) == {k \in 1 .. n : x[k].key = "req-id" /\ x[k].text \in DOMAIN UuidOf}
UuidIn(x, n) == IF IdsIn(x, n) = {} THEN NoUuid ELSE UuidOf[x[Max(IdsIn(x, n))].text]

\* No member asks for nothing; one member more adds its statistics.
LEMMA AskedStep ==
    ASSUME NEW x, NEW n \in Nat
    PROVE  AskedIn(x, 0) = {} /\ AskedIn(x, n + 1) = AskedIn(x, n) \cup StatsOf(x[n + 1])
<1>1. AskedIn(x, 0) = {}
  BY DEF AskedIn
<1>2. 1 .. n + 1 = (1 .. n) \cup {n + 1}
  OBVIOUS
<1> QED
  BY <1>1, <1>2 DEF AskedIn

\* The maximum of a set that has an upper bound of its own.
LEMMA MaxIs ==
    ASSUME NEW S \in SUBSET Nat, NEW m \in S, \A k \in S : k <= m
    PROVE  Max(S) = m
<1>1. \A k \in S : m >= k
  OBVIOUS
<1>2. Max(S) \in S /\ \A k \in S : Max(S) >= k
  <2>1. \E y \in S : \A k \in S : y >= k
    BY <1>1
  <2> QED
    BY <2>1, Zenon DEF Max
<1>3. Max(S) >= m /\ m >= Max(S) /\ m \in Nat /\ Max(S) \in Nat
  BY <1>1, <1>2
<1> HIDE DEF Max
<1> QED
  BY <1>3

\* Without members there is no request id; the id of one member more counts.
LEMMA UuidStep ==
    ASSUME NEW x, NEW n \in Nat
    PROVE  /\ UuidIn(x, 0) = NoUuid
           /\ UuidIn(x, n + 1) =
                  IF x[n + 1].key = "req-id" /\ x[n + 1].text \in DOMAIN UuidOf THEN UuidOf[x[n + 1].text]
                  ELSE UuidIn(x, n)
<1>1. UuidIn(x, 0) = NoUuid
  BY DEF UuidIn, IdsIn
<1>2. CASE x[n + 1].key = "req-id" /\ x[n + 1].text \in DOMAIN UuidOf
  <2>1. n + 1 \in IdsIn(x, n + 1) /\ IdsIn(x, n + 1) \in SUBSET Nat
        /\ \A k \in IdsIn(x, n + 1) : k <= n + 1
    BY <1>2 DEF IdsIn
  <2>2. Max(IdsIn(x, n + 1)) = n + 1
    BY <2>1, MaxIs
  <2>3. UuidIn(x, n + 1) = UuidOf[x[n + 1].text]
    BY <2>1, <2>2 DEF UuidIn
  <2> QED
    BY <1>1, <1>2, <2>3
<1>3. CASE ~(x[n + 1].key = "req-id" /\ x[n + 1].text \in DOMAIN UuidOf)
  <2>1. \A k : k \in 1 .. n + 1 <=> k \in 1 .. n \/ k = n + 1
    OBVIOUS
  <2>2. IdsIn(x, n + 1) = IdsIn(x, n)
    BY <1>3, <2>1 DEF IdsIn
  <2>3. UuidIn(x, n + 1) = UuidIn(x, n)
    BY <2>2 DEF UuidIn
  <2> QED
    BY <1>1, <1>3, <2>3
<1> QED
  BY <1>2, <1>3

\* All members together mean what the request means.
LEMMA AllMembers ==
    ASSUME input \in Seq(Member)
    PROVE  /\ AskedIn(input, Len(input)) = Asked
           /\ UuidIn(input, Len(input)) = IF Ids = {} THEN NoUuid ELSE UuidOf[input[Max(Ids)].text]
           /\ \A m : m \in Members <=> \E k \in 1 .. Len(input) : m = input[k]
<1>1. DOMAIN input = 1 .. Len(input)
  BY LenProperties
<1>2. IdsIn(input, Len(input)) = Ids
  BY <1>1 DEF IdsIn, Ids
<1>3. \A m : m \in Members <=> \E k \in 1 .. Len(input) : m = input[k]
  BY <1>1 DEF Members
<1>4. ASSUME NEW s PROVE s \in AskedIn(input, Len(input)) <=> s \in Asked
  <2>1. s \in AskedIn(input, Len(input)) <=>
          \E k \in 1 .. Len(input) : input[k].key = "get-stats" /\
            \E p \in DOMAIN input[k].items : s = StatOf(input[k].items[p].text)
    BY DEF AskedIn, StatsOf
  <2>2. s \in Asked <=>
          \E m \in Members : m.key = "get-stats" /\
            \E p \in DOMAIN m.items : s = StatOf(m.items[p].text)
    BY DEF Asked, ToSet
  <2> QED
    BY <1>3, <2>1, <2>2
<1>5. AskedIn(input, Len(input)) = Asked
  BY <1>4
<1>6. UuidIn(input, Len(input)) = IF Ids = {} THEN NoUuid ELSE UuidOf[input[Max(Ids)].text]
  BY <1>2, Zenon DEF UuidIn
<1> QED
  BY <1>3, <1>5, <1>6

-----------------------------------------------------------------------------
(* The walk *)

\* n members are read and the walk is at token q of the next one: at its key,
\* or at any token of a member whose key is not known.
Walk(n, q) ==
    /\ i = Len(Flat(input, n)) + q
    /\ \/ q = 1
       \/ n < Len(input) /\ ~Known(input[n + 1]) /\ q <= Len(MemberTokens(input[n + 1]))
    /\ \A k \in 1 .. n : GoodMember(input[k])
    /\ stats = AskedIn(input, n) /\ uuid = UuidIn(input, n)

Plain == input # NotAnObject /\ \A m \in Members : Proper(m)

\* The inductive invariant.
IInv ==
    /\ input \in Inputs \cup {NotAnObject}
    /\ ret \in {"parsing", "ok", "error"}
    /\ Plain /\ ret = "parsing" =>
           r <= MaxTokens /\ \E n \in 0 .. Len(input) : \E q \in Nat \ {0} : Walk(n, q)
    /\ ParsesAsMeant

\* What RequestAssumption says of the items of a member.
Shaped(m) ==
    /\ m.size <= Len(m.items)
    /\ m.type \notin {"array", "object"} => m.items = <<>>
    /\ m.type = "array" /\ (\A k \in 1 .. m.size : m.items[k].type = "string")
           => Len(m.items) = m.size

\* The facts about the request that every case below starts from.
LEMMA RequestFacts ==
    ASSUME input \in Inputs \cup {NotAnObject}, Plain
    PROVE  /\ input \in Seq(Member) /\ Len(input) \in Nat
           /\ \A k \in 1 .. Len(input) : input[k] \in Member /\ Proper(input[k]) /\ Shaped(input[k])
           /\ tokens = Flat(input, Len(input))
           /\ r = Len(tokens) + 1 /\ Len(tokens) \in Nat
<1>1. input \in Inputs
  BY DEF Plain
<1>2. input \in Seq(Member)
  BY <1>1, RequestAssumption DEF Member, Item
<1>3. Len(input) \in Nat /\ DOMAIN input = 1 .. Len(input)
  BY <1>2, LenProperties
<1>4. tokens = Flat(input, Len(input))
  BY <1>2, FlatAll DEF tokens, ObjectTokens, AllTokens
<1>5. Len(tokens) \in Nat
  BY <1>2, <1>3, <1>4, FlatType
<1>6. \A k \in 1 .. Len(input) : input[k] \in Member
  BY <1>2, ElementOfSeq
<1>7. \A k \in 1 .. Len(input) : Proper(input[k])
  BY <1>3 DEF Plain, Members
<1>8. \A k \in 1 .. Len(input) : Shaped(input[k])
  BY <1>1, <1>3, RequestAssumption DEF Shaped
<1> QED
  BY <1>2, <1>3, <1>4, <1>5, <1>6, <1>7, <1>8 DEF r

\* Where the walk is when n members are read and another one follows.
LEMMA AtMember ==
    ASSUME NEW n \in 0 .. Len(input), NEW q \in Nat \ {0},
           input \in Inputs \cup {NotAnObject}, Plain, Walk(n, q)
    PROVE  /\ i >= r => n = Len(input)
           /\ i < r => /\ n < Len(input) /\ n \in Nat /\ n + 1 \in 1 .. Len(input)
                       /\ q \in 1 .. Len(MemberTokens(input[n + 1]))
                       /\ i \in Nat
                       /\ Len(Flat(input, n)) \in Nat
                       /\ Len(Flat(input, n + 1)) = Len(Flat(input, n)) + 2 + Len(input[n + 1].items)
                       /\ Len(Flat(input, n + 1)) < r
<1>1. /\ input \in Seq(Member) /\ Len(input) \in Nat /\ Len(tokens) \in Nat
      /\ tokens = Flat(input, Len(input)) /\ r = Len(tokens) + 1
      /\ \A k \in 1 .. Len(input) : input[k] \in Member
  BY RequestFacts
<1>2. i = Len(Flat(input, n)) + q /\ Len(Flat(input, n)) \in Nat
  BY <1>1, FlatType DEF Walk
<1>3. CASE n = Len(input)
  <2>1. q = 1
    BY <1>1, <1>3 DEF Walk
  <2>2. i = r /\ r \in Nat
    BY <1>1, <1>2, <1>3, <2>1
  <2>3. ~(i < r)
    BY <2>2
  <2> QED
    BY <1>3, <2>3
<1>4. CASE n # Len(input)
  <2> DEFINE m == input[n + 1]
  <2>1. n < Len(input) /\ n \in Nat /\ n + 1 \in 1 .. Len(input) /\ m \in Member
    BY <1>1, <1>4
  <2>2. Len(m.items) \in Nat /\ Len(MemberTokens(m)) = Len(m.items) + 2
    BY <2>1, MemberLayout
  <2>3. /\ Len(Flat(input, n + 1)) = Len(Flat(input, n)) + Len(MemberTokens(m))
        /\ Len(Flat(input, n + 1)) <= Len(Flat(input, Len(input)))
    BY <1>1, <2>1, TokenAt
  <2>4. q <= Len(MemberTokens(m))
    BY <2>2 DEF Walk
  <2> DEFINE f == Len(Flat(input, n))
             g == Len(Flat(input, n + 1))
             h == Len(MemberTokens(m))
             l == Len(m.items)
  <2>5. /\ r \in Nat /\ g <= r - 1 /\ g = f + h /\ h = l + 2 /\ l \in Nat /\ f \in Nat
        /\ i = f + q /\ q <= h
    BY <1>1, <1>2, <2>2, <2>3, <2>4
  <2> HIDE DEF f, g, h, l
  <2>6. ~(i >= r) /\ q \in 1 .. h /\ i \in Nat /\ g < r /\ g = f + 2 + l
    BY <2>5
  <2> QED
    BY <1>2, <2>1, <2>6 DEF m, f, g, h, l
<1> QED
  BY <1>3, <1>4

\* At the key of a known member, the tokens that follow are its value and its
\* items; inside any other member the walk takes no token for a key.
LEMMA TokensHere ==
    ASSUME NEW n \in 0 .. Len(input), NEW q \in Nat \ {0},
           input \in Inputs \cup {NotAnObject}, Plain, Walk(n, q), i < r
    PROVE  /\ Known(input[n + 1]) =>
                  /\ q = 1 /\ has_next
                  /\ tokens[i] = Token("string", input[n + 1].key, 1)
                  /\ tokens[i + 1] = Token(input[n + 1].type, input[n + 1].text,
                                           input[n + 1].size)
                  /\ \A p \in 1 .. Len(input[n + 1].items) :
                        tokens[i + 1 + p] = Token(input[n + 1].items[p].type,
                                                  input[n + 1].items[p].text,
                                                  input[n + 1].items[p].size)
           /\ ~Known(input[n + 1]) => ~LikeKey(tokens[i])
<1> DEFINE m == input[n + 1]
           f == Len(Flat(input, n))
<1>1. /\ input \in Seq(Member) /\ Len(input) \in Nat
      /\ tokens = Flat(input, Len(input))
      /\ \A k \in 1 .. Len(input) : input[k] \in Member /\ Proper(input[k])
  BY RequestFacts
<1>2. /\ n < Len(input) /\ n \in Nat /\ n + 1 \in 1 .. Len(input)
      /\ q \in 1 .. Len(MemberTokens(m)) /\ i \in Nat /\ f \in Nat
      /\ Len(Flat(input, n + 1)) = f + 2 + Len(m.items) /\ Len(Flat(input, n + 1)) < r
  <2>1. r = Len(tokens) + 1 /\ Len(tokens) \in Nat
    BY RequestFacts
  <2> QED
    BY <2>1, AtMember
<1>3. m \in Member /\ Proper(m)
  BY <1>1, <1>2
<1>4. i = f + q
  BY DEF Walk
<1>5. /\ Len(m.items) \in Nat
      /\ Len(MemberTokens(m)) = Len(m.items) + 2
      /\ MemberTokens(m)[1] = Token("string", m.key, 1)
      /\ MemberTokens(m)[2] = Token(m.type, m.text, m.size)
      /\ \A p \in 1 .. Len(m.items) :
             MemberTokens(m)[p + 2] = Token(m.items[p].type, m.items[p].text, m.items[p].size)
      /\ DOMAIN MemberTokens(m) = 1 .. Len(MemberTokens(m))
  BY <1>3, MemberLayout, LenProperties
<1>6. \A k \in 1 .. Len(MemberTokens(m)) : tokens[f + k] = MemberTokens(m)[k]
  BY <1>1, <1>2, TokenAt
<1>7. ~Known(m) => ~LikeKey(tokens[i])
  <2>1. tokens[i] = MemberTokens(m)[q]
    BY <1>2, <1>4, <1>6
  <2>2. ~Known(m) => ~LikeKey(MemberTokens(m)[q])
    BY <1>2, <1>3, <1>5 DEF Proper, Known
  <2> QED
    BY <2>1, <2>2
<1>8. Known(m) => q = 1
  BY DEF Walk
<1> HIDE DEF f, m
<1>9. ASSUME Known(m)
      PROVE  /\ has_next
             /\ tokens[i] = Token("string", m.key, 1)
             /\ tokens[i + 1] = Token(m.type, m.text, m.size)
             /\ \A p \in 1 .. Len(m.items) :
                    tokens[i + 1 + p] = Token(m.items[p].type, m.items[p].text, m.items[p].size)
  <2>1. i = f + 1 /\ i + 1 = f + 2 /\ 1 \in 1 .. Len(MemberTokens(m))
        /\ 2 \in 1 .. Len(MemberTokens(m))
    BY <1>2, <1>4, <1>5, <1>8, <1>9
  <2>2. has_next
    <3>1. r \in Nat
      BY RequestFacts
    <3> DEFINE g == Len(Flat(input, n + 1))
               l == Len(m.items)
    <3>2. g = f + 2 + l /\ l \in Nat /\ f \in Nat /\ i = f + 1 /\ g < r
      BY <1>2, <1>5, <2>1
    <3> HIDE DEF g, l
    <3>3. i + 1 < r
      BY <3>1, <3>2
    <3> QED
      BY <3>3 DEF has_next
  <2>3. tokens[i] = Token("string", m.key, 1)
        /\ tokens[i + 1] = Token(m.type, m.text, m.size)
    BY <1>5, <1>6, <2>1
  <2>4. ASSUME NEW p \in 1 .. Len(m.items)
        PROVE  tokens[i + 1 + p] = Token(m.items[p].type, m.items[p].text, m.items[p].size)
    <3>1. p + 2 \in 1 .. Len(MemberTokens(m)) /\ i + 1 + p = f + (p + 2)
      BY <1>2, <1>5, <2>1
    <3> QED
      BY <1>5, <1>6, <3>1
  <2> QED
    BY <2>2, <2>3, <2>4
<1> QED
  BY <1>7, <1>8, <1>9 DEF m

\* Which members are good, by their key.
LEMMA GoodMemberCases ==
    ASSUME NEW m
    PROVE  /\ m.key = "req-id" =>
                  (GoodMember(m) <=> m.type = "string" /\ m.text \notin LongTexts)
           /\ m.key = "get-stats" =>
                  (GoodMember(m) <=> m.type = "array" /\ \A j \in DOMAIN m.items :
                      m.items[j].type = "string" /\ Matches(m.items[j].text) # {})
           /\ ~Known(m) => GoodMember(m)
<1>1. CASE m.key = "req-id"
  BY <1>1 DEF GoodMember, Known
<1>2. CASE m.key = "get-stats"
  BY <1>2 DEF GoodMember, GoodStats, Known
<1>3. CASE ~Known(m)
  BY <1>3 DEF GoodMember, Known
<1> QED
  BY <1>1, <1>2, <1>3 DEF Known

\* A step that reads the whole of a good member is at the key of the next one.
LEMMA MemberRead ==
    ASSUME NEW n \in 0 .. Len(input), NEW q \in Nat \ {0},
           input \in Inputs \cup {NotAnObject}, Plain, Walk(n, q), i < r,
           GoodMember(input[n + 1]), input' = input,
           i' = Len(Flat(input, n + 1)) + 1,
           stats' = stats \cup StatsOf(input[n + 1]),
           uuid' = IF input[n + 1].key = "req-id" /\ input[n + 1].text \in DOMAIN UuidOf
                   THEN UuidOf[input[n + 1].text] ELSE uuid
    PROVE  \E k \in 0 .. Len(input) : \E p \in Nat \ {0} : Walk(k, p)'
<1>1. n < Len(input) /\ n \in Nat /\ Len(input) \in Nat
  BY AtMember, RequestFacts
<1>2. n + 1 \in 0 .. Len(input) /\ 1 \in Nat \ {0}
  BY <1>1
<1>3. \A k \in 1 .. n + 1 : GoodMember(input[k])
  <2>1. \A k \in 1 .. n + 1 : k = n + 1 \/ k \in 1 .. n
    BY <1>1
  <2> QED
    BY <2>1 DEF Walk
<1>4. stats' = AskedIn(input, n + 1)
  BY <1>1, AskedStep DEF Walk
<1>5. uuid' = UuidIn(input, n + 1)
  <2>1. uuid = UuidIn(input, n)
    BY DEF Walk
  <2> QED
    BY <1>1, <2>1, UuidStep
<1>6. \A k \in 1 .. n + 1 : GoodMember(input[k])'
  BY <1>3 DEF GoodMember, GoodStats
<1>7. Walk(n + 1, 1)'
  BY <1>4, <1>5, <1>6 DEF Walk
<1> QED
  BY <1>2, <1>7

\* A member that is not good is one of the request.
LEMMA BadMember ==
    ASSUME NEW n \in 0 .. Len(input), NEW q \in Nat \ {0},
           input \in Inputs \cup {NotAnObject}, Plain, Walk(n, q), i < r,
           ~GoodMember(input[n + 1])
    PROVE  \E m \in Members : ~GoodMember(m)
<1>1. n + 1 \in 1 .. Len(input) /\ input \in Seq(Member)
  BY AtMember, RequestFacts
<1>2. input[n + 1] \in Members
  BY <1>1, AllMembers
<1> QED
  BY <1>2

\* The key of the request id: its value is taken, or the request refused.
LEMMA ReqIdStep ==
    ASSUME NEW n \in 0 .. Len(input), NEW q \in Nat \ {0},
           input \in Inputs \cup {NotAnObject}, Plain, Walk(n, q), ret = "parsing",
           ParseToken, input[n + 1].key = "req-id"
    PROVE  \/ ret' = "error" /\ \E m \in Members : ~GoodMember(m)
           \/ ret' = "parsing" /\ \E k \in 0 .. Len(input) : \E p \in Nat \ {0} : Walk(k, p)'
<1> DEFINE m == input[n + 1]
<1>1. i < r /\ input' = input /\ Known(m)
  BY DEF ParseToken, Known
<1>2. /\ q = 1 /\ has_next
      /\ tokens[i] = Token("string", m.key, 1)
      /\ tokens[i + 1] = Token(m.type, m.text, m.size)
  BY <1>1, TokensHere
<1>3. /\ n + 1 \in 1 .. Len(input) /\ i \in Nat
      /\ Len(Flat(input, n)) \in Nat
      /\ Len(Flat(input, n + 1)) = Len(Flat(input, n)) + 2 + Len(m.items)
  BY <1>1, AtMember
<1>4. m.type = "string" => m.items = <<>>
  BY <1>3, RequestFacts DEF Shaped
<1>5. is_token(tokens[i], "req-id")
  BY <1>2 DEF is_token, Starts, Token
<1>6. ParseReqId
  BY <1>2, <1>5, Zenon DEF ParseToken
<1>7. tokens[i + 1].type = m.type /\ tokens[i + 1].text = m.text
  BY <1>2 DEF Token
<1>8. CASE m.type # "string" \/ m.text \in LongTexts
  <2>1. ret' = "error"
    BY <1>6, <1>7, <1>8, Zenon DEF ParseReqId, Fail
  <2>2. ~GoodMember(m)
    BY <1>8, GoodMemberCases
  <2> QED
    BY <1>1, <2>1, <2>2, BadMember
<1>9. CASE ~(m.type # "string" \/ m.text \in LongTexts)
  <2>1. /\ uuid' = IF m.text \in DOMAIN UuidOf THEN UuidOf[m.text] ELSE uuid
        /\ i' = i + 2 /\ stats' = stats /\ ret' = ret
    BY <1>6, <1>7, <1>9, Zenon DEF ParseReqId
  <2>2. GoodMember(m)
    BY <1>9, GoodMemberCases
  <2>3. StatsOf(m) = {}
    BY DEF StatsOf
  <2>4. Len(m.items) = 0
    BY <1>4, <1>9
  <2>5. i = Len(Flat(input, n)) + 1
    BY <1>2 DEF Walk
  <2>6. i' = Len(Flat(input, n + 1)) + 1
    BY <1>3, <2>1, <2>4, <2>5
  <2>7. stats' = stats \cup StatsOf(m)
    BY <2>1, <2>3
  <2>8. uuid' = IF m.key = "req-id" /\ m.text \in DOMAIN UuidOf THEN UuidOf[m.text] ELSE uuid
    BY <2>1
  <2> QED
    BY <1>1, <2>1, <2>2, <2>6, <2>7, <2>8, MemberRead
<1> QED
  BY <1>8, <1>9

\* The key of the statistics: every item of the array is taken, or the request
\* refused.
LEMMA StatsStep ==
    ASSUME NEW n \in 0 .. Len(input), NEW q \in Nat \ {0},
           input \in Inputs \cup {NotAnObject}, Plain, Walk(n, q), ret = "parsing",
           ParseToken, input[n + 1].key = "get-stats"
    PROVE  \/ ret' = "error" /\ \E m \in Members : ~GoodMember(m)
           \/ ret' = "parsing" /\ \E k \in 0 .. Len(input) : \E p \in Nat \ {0} : Walk(k, p)'
<1> DEFINE m == input[n + 1]
           l == Len(m.items)
           z == m.size
<1>1. i < r /\ input' = input /\ Known(m)
  BY DEF ParseToken, Known
<1>2. /\ q = 1 /\ has_next
      /\ tokens[i] = Token("string", m.key, 1)
      /\ tokens[i + 1] = Token(m.type, m.text, m.size)
      /\ \A p \in 1 .. l : tokens[i + 1 + p] = Token(m.items[p].type, m.items[p].text, m.items[p].size)
  BY <1>1, TokensHere
<1>3. /\ n + 1 \in 1 .. Len(input) /\ i \in Nat
      /\ Len(Flat(input, n)) \in Nat
      /\ Len(Flat(input, n + 1)) = Len(Flat(input, n)) + 2 + l
  BY <1>1, AtMember
<1>4. /\ DOMAIN m.items = 1 .. l /\ l \in Nat /\ z \in Nat /\ z <= l
      /\ m.type = "array" /\ (\A k \in 1 .. z : m.items[k].type = "string") => l = z
  <2>1. m \in Member /\ Shaped(m)
    BY <1>3, RequestFacts
  <2>2. m.items \in Seq(Item) /\ m.size \in Nat
    BY <2>1 DEF Member
  <2>3. DOMAIN m.items = 1 .. l /\ l \in Nat
    BY <2>2, LenProperties
  <2> QED
    BY <2>1, <2>2, <2>3 DEF Shaped
<1>5. is_token(tokens[i], "get-stats") /\ ~is_token(tokens[i], "req-id")
  BY <1>2, RequestAssumption DEF is_token, Starts, Token
<1>6. ParseStats
  BY <1>2, <1>5, Zenon DEF ParseToken
<1>7. tokens[i + 1].type = m.type /\ tokens[i + 1].size = z
  BY <1>2 DEF Token
<1>8. DOMAIN Items = 1 .. z /\ \A p \in 1 .. z : Items[p] = tokens[i + 1 + p]
  <2> DEFINE S == {tokens[k] : k \in i + 2 .. i + 1 + z}
  <2>1. \A k \in i + 2 .. i + 1 + z : tokens[k] \in S
    OBVIOUS
  <2>2. i + 2 \in Int /\ i + 1 + z \in Int
    BY <1>3, <1>4
  <2> HIDE DEF S, l, z
  <2>3. Items = SubSeq(tokens, i + 2, i + 1 + z)
    BY <1>7 DEF Items
  <2>4. /\ Items \in Seq(S)
        /\ Len(Items) = IF i + 2 <= i + 1 + z THEN (i + 1 + z) - (i + 2) + 1 ELSE 0
        /\ \A p \in 1 .. (i + 1 + z) - (i + 2) + 1 : Items[p] = tokens[(i + 2) + p - 1]
    BY <2>1, <2>2, <2>3, SubSeqProperties
  <2>5. Len(Items) = z /\ (i + 1 + z) - (i + 2) + 1 = z
    BY <1>3, <1>4, <2>4
  <2>6. \A p \in 1 .. z : (i + 2) + p - 1 = i + 1 + p
    BY <1>3, <1>4
  <2> QED
    BY <2>4, <2>5, <2>6, LenProperties
<1>9. \A p \in 1 .. z : /\ p \in 1 .. l
                       /\ Items[p].type = m.items[p].type /\ Items[p].text = m.items[p].text
  <2> TAKE p \in 1 .. z
  <2>0. p \in 1 .. l
    BY <1>4
  <2>1. Items[p] = Token(m.items[p].type, m.items[p].text, m.items[p].size)
    BY <1>2, <1>8, <2>0
  <2> QED
    BY <2>0, <2>1 DEF Token
\* The first items decide, since there are no others if these are strings.
<1>10. /\ GoodMember(m) <=> m.type = "array" /\ \A j \in DOMAIN Items : GoodItem(Items[j])
       /\ GoodMember(m) => l = z
  <2>1. GoodMember(m) <=> m.type = "array" /\ \A j \in 1 .. l :
            m.items[j].type = "string" /\ Matches(m.items[j].text) # {}
    BY <1>4, GoodMemberCases
  <2>2. (\A j \in DOMAIN Items : GoodItem(Items[j])) <=>
            \A j \in 1 .. z : m.items[j].type = "string" /\ Matches(m.items[j].text) # {}
    BY <1>8, <1>9 DEF GoodItem
  <2> HIDE DEF l, z, m
  <2> QED
    BY <1>4, <1>9, <2>1, <2>2
<1> DEFINE read == {j \in DOMAIN Items : \A k \in 1 .. j : GoodItem(Items[k])}
<1>11. read = DOMAIN Items <=> \A j \in DOMAIN Items : GoodItem(Items[j])
  <2>1. \A j \in 1 .. z : j \in 1 .. j /\ \A k \in 1 .. j : k \in 1 .. z
    BY <1>4
  <2> HIDE DEF z
  <2> QED
    BY <1>8, <2>1
<1>12. /\ m.type # "array" => ret' = "error"
       /\ m.type = "array" =>
              /\ stats' = stats \cup UNION {parse_stats_string(Items[j].text) : j \in read}
              /\ IF read = DOMAIN Items
                 THEN i' = i + z + 2 /\ uuid' = uuid /\ ret' = ret
                 ELSE ret' = "error"
  BY <1>6, <1>7, Zenon DEF ParseStats, Fail
<1> HIDE DEF read
<1>13. CASE ~GoodMember(m)
  <2>1. ret' = "error"
    BY <1>10, <1>13, <1>11, <1>12
  <2> QED
    BY <1>1, <1>13, <2>1, BadMember
<1>14. CASE GoodMember(m)
  <2>0. l = z /\ DOMAIN Items = 1 .. l /\ \A j \in DOMAIN Items : GoodItem(Items[j])
    BY <1>8, <1>10, <1>14
  <2>1. /\ stats' = stats \cup UNION {parse_stats_string(Items[j].text) : j \in DOMAIN Items}
        /\ i' = i + z + 2 /\ uuid' = uuid /\ ret' = ret
    BY <1>10, <1>14, <1>11, <1>12
  <2>2. \A p \in 1 .. l : parse_stats_string(Items[p].text) = {StatOf(m.items[p].text)}
    BY <1>9, <2>0 DEF parse_stats_string, GoodItem
  <2>3. UNION {parse_stats_string(Items[j].text) : j \in DOMAIN Items} = StatsOf(m)
    <3>1. {parse_stats_string(Items[j].text) : j \in DOMAIN Items}
             = {{StatOf(m.items[p].text)} : p \in 1 .. l}
      BY <2>0, <2>2
    <3>2. UNION {{StatOf(m.items[p].text)} : p \in 1 .. l} = {StatOf(m.items[p].text) : p \in 1 .. l}
      OBVIOUS
    <3> QED
      BY <1>4, <3>1, <3>2 DEF StatsOf
  <2>4. i = Len(Flat(input, n)) + 1
    BY <1>2 DEF Walk
  <2>5. i' = Len(Flat(input, n + 1)) + 1
    <3> DEFINE f == Len(Flat(input, n))
               g == Len(Flat(input, n + 1))
    <3>1. f \in Nat /\ l \in Nat /\ g = f + 2 + l /\ i = f + 1 /\ i' = i + l + 2
      BY <1>3, <1>4, <2>0, <2>1, <2>4
    <3> HIDE DEF f, g, l
    <3>2. i' = g + 1
      BY <3>1
    <3> QED
      BY <3>2 DEF g
  <2>6. uuid' = IF m.key = "req-id" /\ m.text \in DOMAIN UuidOf THEN UuidOf[m.text] ELSE uuid
    BY <2>1
  <2>7. stats' = stats \cup StatsOf(m)
    BY <2>1, <2>3
  <2> QED
    BY <1>1, <1>14, <2>1, <2>5, <2>6, <2>7, MemberRead
<1> QED
  BY <1>13, <1>14

\* Inside a member whose key is not known: the walk moves to its next token, or
\* to the next member.
LEMMA OtherStep ==
    ASSUME NEW n \in 0 .. Len(input), NEW q \in Nat \ {0},
           input \in Inputs \cup {NotAnObject}, Plain, Walk(n, q), ret = "parsing",
           ParseToken, ~Known(input[n + 1])
    PROVE  ret' = "parsing" /\ \E k \in 0 .. Len(input) : \E p \in Nat \ {0} : Walk(k, p)'
<1> DEFINE m == input[n + 1]
<1>1. i < r /\ input' = input
  BY DEF ParseToken
<1>2. ~is_token(tokens[i], "req-id") /\ ~is_token(tokens[i], "get-stats")
  BY <1>1, TokensHere DEF LikeKey
<1>3. i' = i + 1 /\ uuid' = uuid /\ stats' = stats /\ ret' = ret
  BY <1>2, Zenon DEF ParseToken, Unexpected
<1>4. /\ n < Len(input) /\ q \in 1 .. Len(MemberTokens(m)) /\ n + 1 \in 1 .. Len(input)
      /\ Len(Flat(input, n)) \in Nat
  BY <1>1, AtMember
<1>5. Len(MemberTokens(m)) \in Nat
      /\ Len(Flat(input, n + 1)) = Len(Flat(input, n)) + Len(MemberTokens(m))
  BY <1>4, RequestFacts, MemberLayout, TokenAt, LenProperties
<1>6. i = Len(Flat(input, n)) + q
  BY DEF Walk
<1>7. CASE q # Len(MemberTokens(m))
  <2>1. q + 1 \in Nat \ {0} /\ q + 1 <= Len(MemberTokens(m))
        /\ i + 1 = Len(Flat(input, n)) + (q + 1)
    BY <1>4, <1>5, <1>6, <1>7
  <2>2. /\ i' = Len(Flat(input, n)) + (q + 1)
        /\ \A k \in 1 .. n : GoodMember(input[k])
        /\ stats' = AskedIn(input, n) /\ uuid' = UuidIn(input, n)
    BY <1>3, <2>1 DEF Walk
  <2>3. \A k \in 1 .. n : GoodMember(input[k])'
    BY <1>1, <2>2 DEF GoodMember, GoodStats
  <2>4. Walk(n, q + 1)'
    BY <1>1, <1>4, <2>1, <2>2, <2>3 DEF Walk
  <2> QED
    BY <1>3, <2>1, <2>4
<1>8. CASE q = Len(MemberTokens(m))
  <2>1. i' = Len(Flat(input, n + 1)) + 1
    BY <1>3, <1>5, <1>6, <1>8
  <2>2. StatsOf(m) = {} /\ GoodMember(m)
    BY GoodMemberCases DEF StatsOf, Known
  <2>3. stats' = stats \cup StatsOf(m)
    BY <1>3, <2>2
  <2>4. uuid' = IF m.key = "req-id" /\ m.text \in DOMAIN UuidOf THEN UuidOf[m.text] ELSE uuid
    BY <1>3 DEF Known
  <2> QED
    BY <1>1, <1>3, <2>1, <2>2, <2>3, <2>4, MemberRead
<1> QED
  BY <1>7, <1>8

\* What a request is and means does not change while it is read.
LEMMA RequestFixed ==
    ASSUME input' = input
    PROVE  /\ r' = r /\ Members' = Members /\ Asked' = Asked /\ Ids' = Ids
           /\ Plain' <=> Plain
           /\ \A m : GoodMember(m)' <=> GoodMember(m)
<1>1. r' = r /\ Members' = Members /\ Ids' = Ids
  BY DEF r, tokens, ObjectTokens, Members, Ids
<1>2. Asked' = Asked
  BY <1>1 DEF Asked, StatOf, Matches, Starts
<1>3. Plain' <=> Plain
  BY <1>1 DEF Plain, Proper, LikeKey, is_token, Starts
<1>4. \A m : GoodMember(m)' <=> GoodMember(m)
  BY DEF GoodMember, GoodStats, Matches, Starts
<1> QED
  BY <1>1, <1>2, <1>3, <1>4

\* The parts of the invariant that say what was parsed.
Refused == ret = "error" => r > MaxTokens \/ \E m \in Members : ~GoodMember(m)
Accepted ==
    ret = "ok" =>
        /\ r <= MaxTokens /\ \A m \in Members : GoodMember(m)
        /\ stats = Asked
        /\ uuid = IF Ids = {} THEN NoUuid ELSE UuidOf[input[Max(Ids)].text]

\* ParsesAsMeant is about plain requests.
LEMMA MeantParts == ParsesAsMeant <=> (Plain => Refused /\ Accepted)
  BY Zenon DEF ParsesAsMeant, Plain, Refused, Accepted

\* The invariant holds before the first token,
LEMMA InitIInv == Init => IInv
<1> SUFFICES ASSUME Init PROVE IInv
  OBVIOUS
<1>1. /\ input \in Inputs \cup {NotAnObject}
      /\ i = 1 /\ uuid = NoUuid /\ stats = {}
      /\ ret = IF input = NotAnObject \/ r > MaxTokens THEN "error" ELSE "parsing"
  BY DEF Init, sampler_parse_request
<1>2. ASSUME Plain
      PROVE  /\ ret = "parsing" =>
                    r <= MaxTokens /\ \E n \in 0 .. Len(input) : \E q \in Nat \ {0} : Walk(n, q)
             /\ Refused /\ Accepted
  <2>1. /\ input \in Seq(Member) /\ Len(input) \in Nat
        /\ r = Len(tokens) + 1 /\ Len(tokens) \in Nat
    BY <1>1, <1>2, RequestFacts
  <2>2. ret = IF r > MaxTokens THEN "error" ELSE "parsing"
    BY <1>1, <1>2 DEF Plain
  <2>3. Refused /\ Accepted
    BY <2>2 DEF Refused, Accepted
  <2>4. ret = "parsing" => r <= MaxTokens
    BY <2>1, <2>2, RequestAssumption
  <2>5. Flat(input, 0) = <<>>
    <3>1. Prefix(AllTokens(input), 0) = <<>>
      BY DEF Prefix
    <3> QED
      BY <3>1 DEF Flat, FlattenSeq
  <2>6. AskedIn(input, 0) = {} /\ UuidIn(input, 0) = NoUuid
    BY AskedStep, UuidStep
  <2>7. Len(Flat(input, 0)) + 1 = 1
    BY <2>5
  <2>8. Walk(0, 1)
    BY <1>1, <2>6, <2>7 DEF Walk
  <2>9. 0 \in 0 .. Len(input) /\ 1 \in Nat \ {0}
    BY <2>1
  <2> QED
    BY <2>3, <2>4, <2>8, <2>9
<1> QED
  BY <1>1, <1>2, MeantParts DEF IInv

\* and every step keeps it.
LEMMA NextIInv == IInv /\ [Next]_vars => IInv'
<1> SUFFICES ASSUME IInv, [Next]_vars PROVE IInv'
  OBVIOUS
<1>1. input' = input
  BY DEF Next, ParseToken, ParseDone, vars
<1>2. /\ r' = r /\ Members' = Members /\ Asked' = Asked /\ Ids' = Ids
      /\ Plain' <=> Plain
      /\ \A m : GoodMember(m)' <=> GoodMember(m)
  BY <1>1, RequestFixed
<1>3. input \in Inputs \cup {NotAnObject} /\ (Plain => Refused /\ Accepted)
  BY MeantParts DEF IInv
<1>4. ret' \in {"parsing", "ok", "error"}
  BY DEF IInv, Next, ParseToken, ParseDone, ParseReqId, ParseStats, Unexpected, Fail, vars
<1>5. CASE ParseToken
  <2>0. ret = "parsing"
    BY <1>5 DEF ParseToken
  <2>1. ASSUME Plain
        PROVE  \/ ret' = "error" /\ \E m \in Members : ~GoodMember(m)
               \/ ret' = "parsing" /\ \E k \in 0 .. Len(input) : \E p \in Nat \ {0} : Walk(k, p)'
    <3>1. PICK n \in 0 .. Len(input), q \in Nat \ {0} : Walk(n, q)
      BY <2>0, <2>1 DEF IInv
    <3>2. CASE input[n + 1].key = "req-id"
      BY <1>3, <1>5, <2>0, <2>1, <3>1, <3>2, ReqIdStep
    <3>3. CASE input[n + 1].key = "get-stats"
      BY <1>3, <1>5, <2>0, <2>1, <3>1, <3>3, StatsStep
    <3>4. CASE ~Known(input[n + 1])
      BY <1>3, <1>5, <2>0, <2>1, <3>1, <3>4, OtherStep
    <3> QED
      BY <3>2, <3>3, <3>4 DEF Known
  <2>2. Plain => r <= MaxTokens
    BY <2>0 DEF IInv
  <2>3. Plain => Refused' /\ Accepted'
    <3> HAVE Plain
    <3>1. CASE ret' = "error" /\ \E m \in Members : ~GoodMember(m)
      BY <1>2, <3>1 DEF Refused, Accepted
    <3>2. CASE ret' = "parsing"
      BY <3>2 DEF Refused, Accepted
    <3> QED
      BY <2>1, <3>1, <3>2
  <2>4. ParsesAsMeant'
    <3>1. ParsesAsMeant' <=> (Plain' => Refused' /\ Accepted')
      BY Zenon DEF ParsesAsMeant, Plain, Refused, Accepted
    <3> QED
      BY <1>2, <2>3, <3>1
  <2>5. Plain' /\ ret' = "parsing" =>
          r' <= MaxTokens /\ \E k \in 0 .. Len(input') : \E p \in Nat \ {0} : Walk(k, p)'
    BY <1>1, <1>2, <2>1, <2>2
  <2> QED
    BY <1>1, <1>3, <1>4, <2>4, <2>5 DEF IInv
<1>6. CASE ParseDone
  <2>0. ret = "parsing" /\ i >= r /\ ret' = "ok" /\ stats' = stats /\ uuid' = uuid
    BY <1>6 DEF ParseDone
  <2>1. ASSUME Plain
        PROVE  Refused' /\ Accepted'
    <3>1. PICK n \in 0 .. Len(input), q \in Nat \ {0} : Walk(n, q)
      BY <2>0, <2>1 DEF IInv
    <3>2. n = Len(input)
      BY <1>3, <2>0, <2>1, <3>1, AtMember
    <3>3. input \in Seq(Member)
      BY <1>3, <2>1, RequestFacts
    <3>4. stats = Asked /\ uuid = IF Ids = {} THEN NoUuid ELSE UuidOf[input[Max(Ids)].text]
      BY <3>1, <3>2, <3>3, AllMembers DEF Walk
    <3>5. \A m \in Members : GoodMember(m)
      BY <3>1, <3>2, <3>3, AllMembers DEF Walk
    <3>6. r <= MaxTokens
      BY <2>0, <2>1 DEF IInv
    <3>7. uuid' = IF Ids' = {} THEN NoUuid ELSE UuidOf[input'[Max(Ids')].text]
      BY <1>1, <1>2, <2>0, <3>4, Zenon
    <3>8. stats' = Asked' /\ r' <= MaxTokens /\ \A m \in Members' : GoodMember(m)'
      BY <1>2, <2>0, <3>4, <3>5, <3>6
    <3>9. ret' # "error"
      BY <2>0
    <3> QED
      BY <3>7, <3>8, <3>9, Zenon DEF Refused, Accepted
  <2>2. ParsesAsMeant'
    <3>1. ParsesAsMeant' <=> (Plain' => Refused' /\ Accepted')
      BY Zenon DEF ParsesAsMeant, Plain, Refused, Accepted
    <3> QED
      BY <1>2, <2>1, <3>1
  <2> QED
    BY <1>1, <1>3, <1>4, <2>0, <2>2 DEF IInv
<1>7. CASE UNCHANGED vars
  <2>1. IInv' <=> IInv
    BY <1>7 DEF IInv, ParsesAsMeant, Plain, Walk, vars, r, tokens, ObjectTokens, Members, Asked, Ids
  <2> QED
    BY <2>1
<1> QED
  BY <1>5, <1>6, <1>7 DEF Next

\* The walk of sampler_parse_request reads every request in which nothing but the
\* keys req-id and get-stats passes for one, whatever else it holds at any depth,
\* as it is meant: it refuses exactly the requests with a bad member or too many
\* tokens, gathers the statistics of all members, and keeps the last good id.
THEOREM RequestsReadAsMeant == Spec => []ParsesAsMeant
<1>1. IInv => ParsesAsMeant
  BY DEF IInv
<1> QED
  BY <1>1, InitIInv, NextIInv, PTL DEF Spec
=============================================================================
