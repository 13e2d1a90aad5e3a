----------------------------- MODULE FetchProofs -----------------------------
(***************************************************************************)
(* Safety of asking a peer for its chain, for any chains and any texts in  *)
(* them, pieces of any size, and a connection that breaks anywhere.        *)
(***************************************************************************)
EXTENDS Fetch, SetInduction, SequenceTheorems

------------------------------------------------------------------------------
\* Sequences laid end to end

\* FlattenSeq appends one sequence after the other.
LEMMA FlattenSteps ==
    ASSUME NEW U, NEW seqs \in Seq(Seq(U))
    PROVE  \E f \in [0 .. Len(seqs) -> Seq(U)] :
             /\ f[0] = << >>
             /\ \A n \in 1 .. Len(seqs) : f[n] = f[n - 1] \o seqs[n]
             /\ FlattenSeq(seqs) = f[Len(seqs)]
  <1> DEFINE N == Len(seqs)
             step == [n \in 1 .. N |-> [x \in Seq(U) |-> x \o seqs[n]]]
  <1>0. N \in Nat /\ \A n \in 1 .. N : seqs[n] \in Seq(U)
    OBVIOUS
  <1> HIDE DEF N
  <1>1. step \in [1 .. N -> [Seq(U) -> Seq(U)]]
    BY <1>0
  <1>2. PICK f \in [0 .. N -> Seq(U)] :
          f[0] = << >> /\ \A n \in 1 .. N : f[n] = step[n][f[n - 1]]
    <2> HIDE DEF step
    <2>1. << >> \in Seq(U) /\ N \in Nat
      BY <1>0
    <2>2. \E f : Iterates(f, Seq(U), << >>, N, step)
      BY <1>1, <2>1, IterationExists
    <2> QED
      BY <2>2 DEF Iterates
  <1>3. ASSUME NEW n \in 1 .. N PROVE f[n] = f[n - 1] \o seqs[n]
    <2>1. f[n] = step[n][f[n - 1]] /\ f[n - 1] \in Seq(U)
      <3> HIDE DEF step
      <3>1. n - 1 \in 0 .. N
        BY <1>0
      <3> QED
        BY <1>2, <3>1
    <2>2. step[n] = [x \in Seq(U) |-> x \o seqs[n]]
      OBVIOUS
    <2> HIDE DEF step
    <2> QED
      BY <2>1, <2>2
  <1> HIDE DEF step
  <1>4. CASE N = 0
    <2>1. FlattenSeq(seqs) = seqs /\ seqs = << >>
      BY <1>4 DEF FlattenSeq, N
    <2> QED
      BY <1>2, <1>3, <1>4, <2>1 DEF N
  <1>5. CASE N # 0
    <2> DEFINE Solves(g) == g = [i \in 1 .. N |-> IF i = 1 THEN seqs[i] ELSE g[i - 1] \o seqs[i]]
               h == [i \in 1 .. N |-> f[i]]
               c == CHOOSE g : Solves(g)
    <2>1. \A i \in 1 .. N : h[i] = IF i = 1 THEN seqs[i] ELSE h[i - 1] \o seqs[i]
      <3> SUFFICES ASSUME NEW i \in 1 .. N
                   PROVE  h[i] = IF i = 1 THEN seqs[i] ELSE h[i - 1] \o seqs[i]
        OBVIOUS
      <3>1. h[i] = f[i] /\ f[i] = f[i - 1] \o seqs[i] /\ seqs[i] \in Seq(U)
        BY <1>0, <1>3
      <3>2. CASE i = 1
        <4>1. f[i - 1] = << >>
          BY <1>2, <3>2
        <4> QED
          BY <3>1, <3>2, <4>1, ConcatEmptySeq
      <3>3. CASE i # 1
        <4>1. i - 1 \in 1 .. N /\ h[i - 1] = f[i - 1]
          BY <1>0, <3>3
        <4> QED
          BY <3>1, <3>3, <4>1
      <3> QED
        BY <3>2, <3>3
    <2>2. Solves(h)
      BY <2>1
    <2>3. Solves(c)
      <3> HIDE DEF Solves
      <3> QED
        BY <2>2
    <2>4. FlattenSeq(seqs) = c[N]
      BY <1>5 DEF FlattenSeq, N
    <2>5. \A i \in 1 .. N : c[i] = IF i = 1 THEN seqs[i] ELSE c[i - 1] \o seqs[i]
      BY <2>3
    <2> HIDE DEF c, h
    <2> DEFINE Same == { n \in Nat : n \in 1 .. N => c[n] = f[n] }
    <2>6. 0 \in Same
      OBVIOUS
    <2>7. ASSUME NEW n \in Nat, n \in Same PROVE n + 1 \in Same
      <3> SUFFICES ASSUME n + 1 \in 1 .. N PROVE c[n + 1] = f[n + 1]
        OBVIOUS
      <3>1. f[n + 1] = f[n] \o seqs[n + 1] /\ seqs[n + 1] \in Seq(U)
        <4>1. (n + 1) - 1 = n
          OBVIOUS
        <4> QED
          BY <1>0, <1>3, <4>1
      <3>2. CASE n = 0
        <4>1. f[n + 1] = seqs[n + 1]
          BY <1>2, <3>1, <3>2, ConcatEmptySeq
        <4> QED
          BY <2>5, <3>2, <4>1
      <3>3. CASE n # 0
        <4>1. n \in 1 .. N /\ c[n] = f[n]
          BY <1>0, <2>7, <3>3
        <4>2. c[n + 1] = c[n] \o seqs[n + 1]
          <5>1. (n + 1) - 1 = n /\ n + 1 # 1
            BY <3>3
          <5> QED
            BY <2>5, <5>1
        <4> QED
          BY <3>1, <4>1, <4>2
      <3> QED
        BY <3>2, <3>3
    <2>8. Nat \subseteq Same
      <3> HIDE DEF Same
      <3> QED
        BY <2>6, <2>7, NaturalsInSet
    <2>9. c[N] = f[N]
      BY <1>0, <1>5, <2>8
    <2> QED
      BY <1>2, <1>3, <2>4, <2>9 DEF N
  <1> QED
    BY <1>4, <1>5

------------------------------------------------------------------------------
\* The line of a block

\* What a line is made of: no line break.
Token == Nat \cup Stamp \cup Digest \cup Tokens

LEMMA BlockFields ==
    ASSUME NEW b \in BlockSet
    PROVE  /\ b.height \in Nat /\ b.stamp \in Stamp /\ b.difficulty \in UInt32
           /\ b.zeros \in Zeros /\ b.prev \in Digest /\ b.txs \in Seq(Seq(Tokens))
           /\ UInt32 \subseteq Nat /\ Zeros \subseteq Nat
  BY BlockAssumption, WireAssumption DEF BlockSet, UInt32, Zeros

\* Joined texts are made of what the texts and the separators are made of.
LEMMA JoinSteps ==
    ASSUME NEW U, NEW texts \in Seq(Seq(U)), NEW sep \in U
    PROVE  \E f \in [0 .. Len(texts) -> Seq(U)] :
             /\ f[0] = << >>
             /\ Len(texts) > 0 => f[1] = texts[1]
             /\ \A n \in 2 .. Len(texts) : f[n] = f[n - 1] \o (<< sep >> \o texts[n])
             /\ Join(texts, sep) = f[Len(texts)]
  <1> DEFINE seqs == [i \in DOMAIN texts |-> IF i = 1 THEN texts[i] ELSE << sep >> \o texts[i]]
  <1>0. /\ Len(texts) \in Nat /\ DOMAIN texts = 1 .. Len(texts)
        /\ \A i \in 1 .. Len(texts) : texts[i] \in Seq(U)
    BY LenProperties, ElementOfSeq
  <1>1. \A i \in 1 .. Len(texts) : seqs[i] \in Seq(U)
    BY <1>0
  <1>2. seqs \in Seq(Seq(U)) /\ Len(seqs) = Len(texts)
    BY <1>0, <1>1
  <1>3. \A i \in 1 .. Len(texts) : seqs[i] = IF i = 1 THEN texts[i] ELSE << sep >> \o texts[i]
    BY <1>0
  <1>4. Join(texts, sep) = FlattenSeq(seqs)
    BY DEF Join
  <1> HIDE DEF seqs
  <1>5. PICK f \in [0 .. Len(texts) -> Seq(U)] :
          /\ f[0] = << >>
          /\ \A n \in 1 .. Len(texts) : f[n] = f[n - 1] \o seqs[n]
          /\ FlattenSeq(seqs) = f[Len(texts)]
    <2>1. seqs \in Seq(Seq(U))
      BY <1>2
    <2>2. \E f \in [0 .. Len(seqs) -> Seq(U)] :
            /\ f[0] = << >>
            /\ \A n \in 1 .. Len(seqs) : f[n] = f[n - 1] \o seqs[n]
            /\ FlattenSeq(seqs) = f[Len(seqs)]
      BY <2>1, FlattenSteps
    <2>3. Len(seqs) = Len(texts)
      BY <1>2
    <2> QED
      BY <2>2, <2>3
  <1>6. ASSUME Len(texts) > 0 PROVE f[1] = texts[1]
    <2>1. 1 \in 1 .. Len(texts) /\ 1 - 1 = 0
      BY <1>0, <1>6
    <2>2. f[1] = f[0] \o seqs[1] /\ seqs[1] = texts[1] /\ texts[1] \in Seq(U)
      BY <1>0, <1>3, <1>5, <2>1
    <2> QED
      BY <1>5, <2>2, ConcatEmptySeq
  <1>7. ASSUME NEW n \in 2 .. Len(texts) PROVE f[n] = f[n - 1] \o (<< sep >> \o texts[n])
    <2>1. n \in 1 .. Len(texts) /\ n # 1
      BY <1>0
    <2> QED
      BY <1>3, <1>5, <2>1
  <1> QED
    BY <1>4, <1>5, <1>6, <1>7

LEMMA JoinType ==
    ASSUME NEW U, NEW texts \in Seq(Seq(U)), NEW sep \in U
    PROVE  Join(texts, sep) \in Seq(U)
  <1>1. Len(texts) \in 0 .. Len(texts)
    BY LenProperties
  <1>2. PICK f \in [0 .. Len(texts) -> Seq(U)] : Join(texts, sep) = f[Len(texts)]
    BY JoinSteps
  <1> QED
    BY <1>1, <1>2

\* A field of one token joins.
LEMMA AppendField ==
    ASSUME NEW U, NEW s \in Seq(U), NEW sep \in U, NEW x \in U,
           NEW r, r = s \o (<< sep >> \o << x >>)
    PROVE  /\ r \in Seq(U) /\ Len(r) = Len(s) + 2
           /\ \A i \in 1 .. Len(s) : r[i] = s[i]
           /\ r[Len(s) + 1] = sep /\ r[Len(s) + 2] = x
  <1>1. /\ << sep >> \in Seq(U) /\ Len(<< sep >>) = 1 /\ << sep >>[1] = sep
        /\ << x >> \in Seq(U) /\ Len(<< x >>) = 1 /\ << x >>[1] = x
    OBVIOUS
  <1> DEFINE t == << sep >> \o << x >>
  <1>2. /\ t \in Seq(U) /\ Len(t) = 2
        /\ \A i \in 1 .. 2 : t[i] = IF i <= 1 THEN << sep >>[i] ELSE << x >>[i - 1]
    BY <1>1, ConcatProperties
  <1>3. t[1] = sep /\ t[2] = x
    BY <1>1, <1>2
  <1> HIDE DEF t
  <1>4. /\ r \in Seq(U) /\ Len(r) = Len(s) + 2
        /\ \A i \in 1 .. Len(s) + 2 : r[i] = IF i <= Len(s) THEN s[i] ELSE t[i - Len(s)]
    <2>1. r = s \o t
      BY DEF t
    <2> QED
      BY <1>2, <2>1, ConcatProperties
  <1>5. Len(s) \in Nat
    OBVIOUS
  <1> QED
    BY <1>3, <1>4, <1>5

\* toLine, field by field.
LEMMA ToLineLayout ==
    ASSUME NEW b \in BlockSet
    PROVE  /\ Join(b.txs, Comma) \in Seq(Tokens)
           /\ ToLine(b) \in Seq(Token)
           /\ Len(ToLine(b)) = 10 + Len(Join(b.txs, Comma))
           /\ ToLine(b)[1] = b.height /\ ToLine(b)[3] = b.stamp /\ ToLine(b)[5] = b.difficulty
           /\ ToLine(b)[7] = b.zeros /\ ToLine(b)[9] = b.prev
           /\ \A i \in {2, 4, 6, 8, 10} : ToLine(b)[i] = Bar
           /\ \A i \in 1 .. Len(Join(b.txs, Comma)) : ToLine(b)[10 + i] = Join(b.txs, Comma)[i]
  <1> DEFINE J == Join(b.txs, Comma)
             texts == << << b.height >>, << b.stamp >>, << b.difficulty >>, << b.zeros >>,
                         << b.prev >>, J >>
  <1>1. J \in Seq(Tokens)
    BY BlockFields, WireAssumption, JoinType
  <1>2. J \in Seq(Token)
    <2>1. Tokens \subseteq Token
      BY DEF Token
    <2> QED
      BY <1>1, <2>1, SeqMonotonic
  <1>3. /\ b.height \in Token /\ b.stamp \in Token /\ b.difficulty \in Token
        /\ b.zeros \in Token /\ b.prev \in Token /\ Bar \in Token
    BY BlockFields, WireAssumption DEF Token
  <1>4. ToLine(b) = Join(texts, Bar)
    BY DEF ToLine
  <1> HIDE DEF J
  <1>5. texts \in Seq(Seq(Token)) /\ Len(texts) = 6
    BY <1>2, <1>3
  <1>6. /\ texts[1] = << b.height >> /\ texts[2] = << b.stamp >> /\ texts[3] = << b.difficulty >>
        /\ texts[4] = << b.zeros >> /\ texts[5] = << b.prev >> /\ texts[6] = J
    OBVIOUS
  <1> HIDE DEF texts
  <1>7. PICK f : /\ \A n \in 1 .. 6 : f[n] \in Seq(Token)
                 /\ f[1] = texts[1]
                 /\ \A n \in 2 .. 6 : f[n] = f[n - 1] \o (<< Bar >> \o texts[n])
                 /\ Join(texts, Bar) = f[6]
    <2>1. Len(texts) = 6 /\ texts \in Seq(Seq(Token)) /\ Bar \in Token
      BY <1>3, <1>5
    <2>2. PICK f \in [0 .. Len(texts) -> Seq(Token)] :
             /\ f[0] = << >>
             /\ Len(texts) > 0 => f[1] = texts[1]
             /\ \A n \in 2 .. Len(texts) : f[n] = f[n - 1] \o (<< Bar >> \o texts[n])
             /\ Join(texts, Bar) = f[Len(texts)]
      BY <2>1, JoinSteps
    <2>3. \A n \in 1 .. 6 : n \in 0 .. Len(texts)
      BY <2>1
    <2>4. \A n \in 2 .. 6 : n \in 2 .. Len(texts)
      BY <2>1
    <2>5. \A n \in 1 .. 6 : f[n] \in Seq(Token)
      BY <2>2, <2>3
    <2>6. \A n \in 2 .. 6 : f[n] = f[n - 1] \o (<< Bar >> \o texts[n])
      BY <2>2, <2>4
    <2>7. Join(texts, Bar) = f[6] /\ f[1] = texts[1]
      BY <2>1, <2>2
    <2> QED
      BY <2>5, <2>6, <2>7
  <1>8. /\ f[2] = f[1] \o (<< Bar >> \o << b.stamp >>)
        /\ f[3] = f[2] \o (<< Bar >> \o << b.difficulty >>)
        /\ f[4] = f[3] \o (<< Bar >> \o << b.zeros >>)
        /\ f[5] = f[4] \o (<< Bar >> \o << b.prev >>)
        /\ f[6] = f[5] \o (<< Bar >> \o J)
    <2>1. \A n \in {2, 3, 4, 5, 6} : f[n] = f[n - 1] \o (<< Bar >> \o texts[n])
      <3>1. {2, 3, 4, 5, 6} \subseteq 2 .. 6
        OBVIOUS
      <3>2. \A n \in 2 .. 6 : f[n] = f[n - 1] \o (<< Bar >> \o texts[n])
        BY <1>7
      <3> QED
        BY <3>1, <3>2, Zenon
    <2>2. 2 - 1 = 1 /\ 3 - 1 = 2 /\ 4 - 1 = 3 /\ 5 - 1 = 4 /\ 6 - 1 = 5
      OBVIOUS
    <2>3. f[2] = f[1] \o (<< Bar >> \o texts[2]) /\ f[3] = f[2] \o (<< Bar >> \o texts[3])
      BY <2>1, <2>2
    <2>4. f[4] = f[3] \o (<< Bar >> \o texts[4]) /\ f[5] = f[4] \o (<< Bar >> \o texts[5])
      BY <2>1, <2>2
    <2>5. f[6] = f[5] \o (<< Bar >> \o texts[6])
      BY <2>1, <2>2
    <2> QED
      BY <1>6, <2>3, <2>4, <2>5
  <1>9. f[1] \in Seq(Token) /\ Len(f[1]) = 1 /\ f[1][1] = b.height
    <2>1. f[1] = << b.height >>
      BY <1>6, <1>7
    <2> QED
      BY <1>3, <2>1
  <1>10. /\ f[2] \in Seq(Token) /\ Len(f[2]) = 3 /\ f[2][2] = Bar /\ f[2][3] = b.stamp
        /\ \A i \in 1 .. 1 : f[2][i] = f[1][i]
    <2>1. /\ f[2] \in Seq(Token) /\ Len(f[2]) = Len(f[1]) + 2
          /\ \A i \in 1 .. Len(f[1]) : f[2][i] = f[1][i]
          /\ f[2][Len(f[1]) + 1] = Bar /\ f[2][Len(f[1]) + 2] = b.stamp
      <3>1. f[1] \in Seq(Token) /\ Bar \in Token /\ b.stamp \in Token
        BY <1>3, <1>9
      <3>2. f[2] = f[1] \o (<< Bar >> \o << b.stamp >>)
        BY <1>8
      <3> QED
        BY <3>1, <3>2, AppendField
    <2>2. Len(f[1]) = 1
      BY <1>9
    <2> QED
      BY <2>1, <2>2
  <1>11. /\ f[3] \in Seq(Token) /\ Len(f[3]) = 5 /\ f[3][4] = Bar /\ f[3][5] = b.difficulty
        /\ \A i \in 1 .. 3 : f[3][i] = f[2][i]
    <2>1. /\ f[3] \in Seq(Token) /\ Len(f[3]) = Len(f[2]) + 2
          /\ \A i \in 1 .. Len(f[2]) : f[3][i] = f[2][i]
          /\ f[3][Len(f[2]) + 1] = Bar /\ f[3][Len(f[2]) + 2] = b.difficulty
      <3>1. f[2] \in Seq(Token) /\ Bar \in Token /\ b.difficulty \in Token
        BY <1>3, <1>10
      <3>2. f[3] = f[2] \o (<< Bar >> \o << b.difficulty >>)
        BY <1>8
      <3> QED
        BY <3>1, <3>2, AppendField
    <2>2. Len(f[2]) = 3
      BY <1>10
    <2> QED
      BY <2>1, <2>2
  <1>12. /\ f[4] \in Seq(Token) /\ Len(f[4]) = 7 /\ f[4][6] = Bar /\ f[4][7] = b.zeros
        /\ \A i \in 1 .. 5 : f[4][i] = f[3][i]
    <2>1. /\ f[4] \in Seq(Token) /\ Len(f[4]) = Len(f[3]) + 2
          /\ \A i \in 1 .. Len(f[3]) : f[4][i] = f[3][i]
          /\ f[4][Len(f[3]) + 1] = Bar /\ f[4][Len(f[3]) + 2] = b.zeros
      <3>1. f[3] \in Seq(Token) /\ Bar \in Token /\ b.zeros \in Token
        BY <1>3, <1>11
      <3>2. f[4] = f[3] \o (<< Bar >> \o << b.zeros >>)
        BY <1>8
      <3> QED
        BY <3>1, <3>2, AppendField
    <2>2. Len(f[3]) = 5
      BY <1>11
    <2> QED
      BY <2>1, <2>2
  <1>13. /\ f[5] \in Seq(Token) /\ Len(f[5]) = 9 /\ f[5][8] = Bar /\ f[5][9] = b.prev
        /\ \A i \in 1 .. 7 : f[5][i] = f[4][i]
    <2>1. /\ f[5] \in Seq(Token) /\ Len(f[5]) = Len(f[4]) + 2
          /\ \A i \in 1 .. Len(f[4]) : f[5][i] = f[4][i]
          /\ f[5][Len(f[4]) + 1] = Bar /\ f[5][Len(f[4]) + 2] = b.prev
      <3>1. f[4] \in Seq(Token) /\ Bar \in Token /\ b.prev \in Token
        BY <1>3, <1>12
      <3>2. f[5] = f[4] \o (<< Bar >> \o << b.prev >>)
        BY <1>8
      <3> QED
        BY <3>1, <3>2, AppendField
    <2>2. Len(f[4]) = 7
      BY <1>12
    <2> QED
      BY <2>1, <2>2
  <1>14. /\ << Bar >> \o J \in Seq(Token) /\ Len(<< Bar >> \o J) = 1 + Len(J)
         /\ (<< Bar >> \o J)[1] = Bar
         /\ \A i \in 1 .. Len(J) : (<< Bar >> \o J)[1 + i] = J[i]
    <2>1. << Bar >> \in Seq(Token) /\ Len(<< Bar >>) = 1 /\ << Bar >>[1] = Bar /\ Len(J) \in Nat
      BY <1>2, <1>3
    <2>2. /\ << Bar >> \o J \in Seq(Token) /\ Len(<< Bar >> \o J) = 1 + Len(J)
          /\ \A i \in 1 .. 1 + Len(J) :
               (<< Bar >> \o J)[i] = IF i <= 1 THEN << Bar >>[i] ELSE J[i - 1]
      BY <1>2, <2>1, ConcatProperties
    <2> QED
      BY <2>1, <2>2
  <1>15. /\ f[6] \in Seq(Token) /\ Len(f[6]) = 10 + Len(J)
         /\ \A i \in 1 .. 9 : f[6][i] = f[5][i]
         /\ f[6][10] = Bar
         /\ \A i \in 1 .. Len(J) : f[6][10 + i] = J[i]
    <2> DEFINE t == << Bar >> \o J
    <2>1. t \in Seq(Token) /\ Len(t) = 1 + Len(J) /\ t[1] = Bar /\ Len(J) \in Nat
          /\ \A i \in 1 .. Len(J) : t[1 + i] = J[i]
      BY <1>2, <1>14
    <2>2. f[6] = f[5] \o t
      BY <1>8
    <2> HIDE DEF t
    <2>3. /\ f[6] \in Seq(Token) /\ Len(f[6]) = 9 + Len(t)
          /\ \A i \in 1 .. 9 + Len(t) : f[6][i] = IF i <= 9 THEN f[5][i] ELSE t[i - 9]
      <3>1. f[5] \in Seq(Token) /\ t \in Seq(Token)
        BY <1>13, <2>1
      <3>2. /\ f[6] \in Seq(Token) /\ Len(f[6]) = Len(f[5]) + Len(t)
            /\ \A i \in 1 .. Len(f[5]) + Len(t) :
                 f[6][i] = IF i <= Len(f[5]) THEN f[5][i] ELSE t[i - Len(f[5])]
        BY <2>2, <3>1, ConcatProperties
      <3>3. Len(f[5]) = 9
        BY <1>13
      <3> QED
        BY <3>2, <3>3
    <2>4. \A i \in 1 .. Len(J) : f[6][10 + i] = t[1 + i]
      <3> SUFFICES ASSUME NEW i \in 1 .. Len(J) PROVE f[6][10 + i] = t[1 + i]
        OBVIOUS
      <3>1. 10 + i \in 1 .. 9 + Len(t) /\ ~ (10 + i <= 9) /\ (10 + i) - 9 = 1 + i
        BY <2>1
      <3> QED
        BY <2>3, <3>1
    <2> QED
      BY <2>1, <2>3, <2>4
  <1>16. ToLine(b) = f[6]
    BY <1>4, <1>7
  <1>17. /\ f[6][1] = b.height /\ f[6][3] = b.stamp /\ f[6][5] = b.difficulty
         /\ f[6][7] = b.zeros /\ f[6][9] = b.prev
         /\ f[6][2] = Bar /\ f[6][4] = Bar /\ f[6][6] = Bar /\ f[6][8] = Bar /\ f[6][10] = Bar
    <2>1. ASSUME NEW i \in 1 .. 3 PROVE f[6][i] = f[2][i]
      <3> i \in 1 .. 9 /\ i \in 1 .. 7 /\ i \in 1 .. 5
        OBVIOUS
      <3>1. f[6][i] = f[5][i] /\ f[5][i] = f[4][i]
        BY <1>13, <1>15
      <3>2. f[4][i] = f[3][i] /\ f[3][i] = f[2][i]
        BY <1>11, <1>12
      <3> QED
        BY <3>1, <3>2
    <2>a. ASSUME NEW i \in 1 .. 9 PROVE f[6][i] = f[5][i]
      BY <1>15
    <2>b. ASSUME NEW i \in 1 .. 7 PROVE f[6][i] = f[4][i]
      <3>1. i \in 1 .. 9
        OBVIOUS
      <3>2. f[5][i] = f[4][i]
        BY <1>13
      <3> QED
        BY <2>a, <3>1, <3>2
    <2>2. ASSUME NEW i \in 4 .. 5 PROVE f[6][i] = f[3][i]
      <3>1. i \in 1 .. 7 /\ i \in 1 .. 5
        OBVIOUS
      <3>2. f[4][i] = f[3][i]
        BY <1>12, <3>1
      <3> QED
        BY <2>b, <3>1, <3>2
    <2>3. ASSUME NEW i \in 6 .. 7 PROVE f[6][i] = f[4][i]
      <3>1. i \in 1 .. 7
        OBVIOUS
      <3> QED
        BY <2>b, <3>1
    <2>4. f[2][1] = b.height
      BY <1>9, <1>10
    <2>5. f[6][1] = b.height /\ f[6][2] = Bar /\ f[6][3] = b.stamp
      BY <1>10, <2>1, <2>4
    <2>6. f[6][4] = Bar /\ f[6][5] = b.difficulty
      BY <1>11, <2>2
    <2>7. f[6][6] = Bar /\ f[6][7] = b.zeros
      BY <1>12, <2>3
    <2>8. f[6][8] = Bar /\ f[6][9] = b.prev
      <3>1. f[5][8] = Bar /\ f[5][9] = b.prev
        BY <1>13
      <3>2. 8 \in 1 .. 9 /\ 9 \in 1 .. 9
        OBVIOUS
      <3> QED
        BY <2>a, <3>1, <3>2
    <2> QED
      BY <1>15, <2>5, <2>6, <2>7, <2>8
  <1> QED
    BY <1>1, <1>15, <1>16, <1>17 DEF J

------------------------------------------------------------------------------
\* Where lines begin in what is sent

\* In sequences laid end to end each is found behind those before it.
LEMMA FlattenLayout ==
    ASSUME NEW U, NEW seqs \in Seq(Seq(U))
    PROVE  /\ FlattenSeq(seqs) \in Seq(U)
           /\ \E pos \in [0 .. Len(seqs) -> Nat] :
                /\ pos[0] = 0 /\ pos[Len(seqs)] = Len(FlattenSeq(seqs))
                /\ \A n \in 1 .. Len(seqs) :
                     /\ pos[n] = pos[n - 1] + Len(seqs[n]) /\ pos[n] <= pos[Len(seqs)]
                     /\ \A j \in 1 .. Len(seqs[n]) :
                          FlattenSeq(seqs)[pos[n - 1] + j] = seqs[n][j]
  <1> DEFINE N == Len(seqs)
  <1>1. N \in Nat /\ \A n \in 1 .. N : seqs[n] \in Seq(U) /\ Len(seqs[n]) \in Nat
    BY LenProperties, ElementOfSeq
  <1>2. PICK f : /\ f \in [0 .. N -> Seq(U)]
                 /\ f[0] = << >>
                 /\ \A n \in 1 .. N : f[n] = f[n - 1] \o seqs[n]
                 /\ FlattenSeq(seqs) = f[N]
    BY FlattenSteps
  <1> HIDE DEF N
  <1> DEFINE pos == [n \in 0 .. N |-> Len(f[n])]
  <1>3. \A n \in 0 .. N : f[n] \in Seq(U) /\ pos[n] = Len(f[n]) /\ pos[n] \in Nat
    BY <1>2, LenProperties
  <1>4. pos \in [0 .. N -> Nat]
    BY <1>3
  <1> HIDE DEF pos
  <1>5. ASSUME NEW n \in 0 .. N, NEW k \in 0 .. N, k = n + 1
        PROVE  /\ pos[k] = pos[n] + Len(seqs[k])
               /\ \A i \in 1 .. pos[n] : f[k][i] = f[n][i]
               /\ \A j \in 1 .. Len(seqs[k]) : f[k][pos[n] + j] = seqs[k][j]
    <2> DEFINE x == f[n]
               y == seqs[k]
               z == f[k]
    <2>1. x \in Seq(U) /\ y \in Seq(U) /\ z = x \o y
      <3>1. k \in 1 .. N /\ k - 1 = n
        BY <1>1, <1>5
      <3> QED
        BY <1>1, <1>2, <1>3, <3>1
    <2>2. pos[n] = Len(x) /\ pos[k] = Len(z)
      BY <1>3
    <2> HIDE DEF x, y, z
    <2>3. /\ Len(z) = Len(x) + Len(y) /\ Len(x) \in Nat /\ Len(y) \in Nat
          /\ \A i \in 1 .. Len(x) + Len(y) : z[i] = IF i <= Len(x) THEN x[i] ELSE y[i - Len(x)]
      BY <2>1, ConcatProperties, LenProperties
    <2>4. \A i \in 1 .. Len(x) : z[i] = x[i]
      BY <2>3
    <2>5. \A j \in 1 .. Len(y) : z[Len(x) + j] = y[j]
      <3> SUFFICES ASSUME NEW j \in 1 .. Len(y) PROVE z[Len(x) + j] = y[j]
        OBVIOUS
      <3>1. Len(x) + j \in 1 .. Len(x) + Len(y) /\ ~ (Len(x) + j <= Len(x)) /\ (Len(x) + j) - Len(x) = j
        BY <2>3
      <3> QED
        BY <2>3, <3>1
    <2>6. pos[k] = pos[n] + Len(y)
      BY <2>2, <2>3
    <2>7. /\ \A i \in 1 .. pos[n] : z[i] = x[i]
          /\ \A j \in 1 .. Len(y) : z[pos[n] + j] = y[j]
      BY <2>2, <2>4, <2>5
    <2> QED
      BY <2>6, <2>7 DEF x, y, z
  <1> DEFINE Begins(n, m) == pos[n] <= pos[m] /\ \A i \in 1 .. pos[n] : f[m][i] = f[n][i]
             Good == { m \in Nat : m \in 0 .. N => \A n \in 0 .. m : Begins(n, m) }
  <1>6. 0 \in Good
    BY <1>3
  <1>7. ASSUME NEW m \in Nat, m \in Good PROVE m + 1 \in Good
    <2> SUFFICES ASSUME m + 1 \in 0 .. N, NEW n \in 0 .. m + 1 PROVE Begins(n, m + 1)
      OBVIOUS
    <2>1. CASE n = m + 1
      BY <1>3, <2>1
    <2>2. CASE n # m + 1
      <3> DEFINE k == m + 1
      <3>1. n \in 0 .. m /\ n \in 0 .. N /\ m \in 0 .. N /\ k \in 0 .. N /\ k = m + 1 /\ k \in 1 .. N
        BY <1>1, <2>2
      <3>2. Begins(n, m)
        BY <1>7, <3>1
      <3> HIDE DEF k
      <3>3. pos[k] = pos[m] + Len(seqs[k]) /\ \A i \in 1 .. pos[m] : f[k][i] = f[m][i]
        BY <1>5, <3>1
      <3>4. Len(seqs[k]) \in Nat /\ pos[m] \in Nat /\ pos[n] \in Nat
        BY <1>1, <1>3, <3>1
      <3>5. pos[n] <= pos[m] /\ pos[m] <= pos[k]
        BY <3>2, <3>3, <3>4
      <3>6. ASSUME NEW i \in 1 .. pos[n] PROVE f[k][i] = f[n][i]
        <4>1. i \in 1 .. pos[m]
          BY <3>4, <3>5
        <4>2. f[m][i] = f[n][i]
          BY <3>2
        <4> QED
          BY <3>3, <4>1, <4>2
      <3>7. pos[n] <= pos[k]
        BY <3>3, <3>4, <3>5
      <3>8. Begins(n, k)
        BY <3>6, <3>7
      <3> QED
        BY <3>8 DEF k
    <2> QED
      BY <2>1, <2>2
  <1>8. \A m \in 0 .. N : \A n \in 0 .. m : Begins(n, m)
    <2>1. Nat \subseteq Good
      <3> HIDE DEF Good
      <3> QED
        BY <1>6, <1>7, NaturalsInSet
    <2> QED
      BY <1>1, <2>1
  <1>9. ASSUME NEW n \in 1 .. N
        PROVE  /\ pos[n] = pos[n - 1] + Len(seqs[n]) /\ pos[n] <= pos[N]
               /\ \A j \in 1 .. Len(seqs[n]) : FlattenSeq(seqs)[pos[n - 1] + j] = seqs[n][j]
    <2> DEFINE p == n - 1
    <2>1. p \in 0 .. N /\ n \in 0 .. N /\ n = p + 1 /\ N \in 0 .. N
      BY <1>1
    <2> HIDE DEF p
    <2>2. /\ pos[n] = pos[p] + Len(seqs[n])
          /\ \A j \in 1 .. Len(seqs[n]) : f[n][pos[p] + j] = seqs[n][j]
      BY <1>5, <2>1
    <2>3. pos[n] <= pos[N] /\ \A i \in 1 .. pos[n] : f[N][i] = f[n][i]
      BY <1>1, <1>8, <2>1
    <2>4. pos[p] \in Nat /\ Len(seqs[n]) \in Nat
      BY <1>1, <1>3, <2>1
    <2>5. ASSUME NEW j \in 1 .. Len(seqs[n]) PROVE f[N][pos[p] + j] = seqs[n][j]
      <3>1. pos[p] + j \in 1 .. pos[n]
        BY <2>2, <2>4
      <3> QED
        BY <2>2, <2>3, <3>1
    <2> QED
      BY <1>2, <2>2, <2>3, <2>5 DEF p
  <1>10. pos[0] = 0 /\ pos[N] = Len(FlattenSeq(seqs)) /\ FlattenSeq(seqs) \in Seq(U)
    <2>1. 0 \in 0 .. N /\ N \in 0 .. N
      BY <1>1
    <2>2. Len(<< >>) = 0
      OBVIOUS
    <2>3. pos[0] = Len(f[0]) /\ pos[N] = Len(f[N]) /\ f[N] \in Seq(U)
      BY <1>3, <2>1
    <2> QED
      BY <1>2, <2>2, <2>3
  <1> QED
    BY <1>4, <1>9, <1>10 DEF N

\* What the connection carries.
Char == Token \cup {EndMark, Newline}

\* The k-th line of the answer, the end mark counted.
Wanted(k) == IF k <= Len(lines) THEN lines[k] ELSE << EndMark >>

\* Line k + 1 of the answer begins behind position pos[k] of the payload.
Layout(pos) ==
    /\ pos \in [0 .. Len(lines) + 1 -> Nat]
    /\ pos[0] = 0 /\ pos[Len(lines) + 1] = Len(Payload)
    /\ \A k \in 1 .. Len(lines) + 1 :
         /\ pos[k] = pos[k - 1] + Len(Wanted(k)) + 1
         /\ pos[k] <= Len(Payload) /\ Payload[pos[k]] = Newline
         /\ \A j \in 1 .. Len(Wanted(k)) : Payload[pos[k - 1] + j] = Wanted(k)[j]

LEMMA PayloadLayout ==
    ASSUME lines \in Seq(Seq(Token))
    PROVE  Payload \in Seq(Char) /\ \E pos : Layout(pos)
  <1> DEFINE N == Len(lines)
             seqs == [i \in DOMAIN lines |-> Append(lines[i], Newline)]
             end == << EndMark, Newline >>
  <1>1. /\ N \in Nat /\ DOMAIN lines = 1 .. N
        /\ \A k \in 1 .. N : lines[k] \in Seq(Token) /\ lines[k] \in Seq(Char)
    <2>1. Token \subseteq Char
      BY DEF Char
    <2>2. Seq(Token) \subseteq Seq(Char)
      BY <2>1, SeqMonotonic
    <2> QED
      BY <2>2, LenProperties, ElementOfSeq
  <1>2. \A k \in 1 .. N :
          /\ Append(lines[k], Newline) \in Seq(Char)
          /\ Len(Append(lines[k], Newline)) = Len(lines[k]) + 1 /\ Len(lines[k]) \in Nat
          /\ \A j \in 1 .. Len(lines[k]) : Append(lines[k], Newline)[j] = lines[k][j]
          /\ Append(lines[k], Newline)[Len(lines[k]) + 1] = Newline
    <2>1. Newline \in Char
      BY DEF Char
    <2> QED
      BY <1>1, <2>1, AppendProperties, LenProperties
  <1>3. seqs \in Seq(Seq(Char)) /\ Len(seqs) = N /\ \A k \in 1 .. N : seqs[k] = Append(lines[k], Newline)
    BY <1>1, <1>2
  <1>4. Payload = FlattenSeq(seqs) \o end
    BY DEF Payload
  <1> HIDE DEF seqs
  <1> DEFINE flat == FlattenSeq(seqs)
  <1>5. PICK pos \in [0 .. N -> Nat] :
          /\ flat \in Seq(Char) /\ pos[0] = 0 /\ pos[N] = Len(flat)
          /\ \A n \in 1 .. N : /\ pos[n] = pos[n - 1] + Len(seqs[n]) /\ pos[n] <= pos[N]
                               /\ \A j \in 1 .. Len(seqs[n]) : flat[pos[n - 1] + j] = seqs[n][j]
    <2>1. seqs \in Seq(Seq(Char)) /\ Len(seqs) = N
      BY <1>3
    <2> HIDE DEF N
    <2>2. flat \in Seq(Char) /\ \E pos \in [0 .. Len(seqs) -> Nat] :
          /\ pos[0] = 0 /\ pos[Len(seqs)] = Len(flat)
          /\ \A n \in 1 .. Len(seqs) :
               /\ pos[n] = pos[n - 1] + Len(seqs[n]) /\ pos[n] <= pos[Len(seqs)]
               /\ \A j \in 1 .. Len(seqs[n]) : flat[pos[n - 1] + j] = seqs[n][j]
      BY <2>1, FlattenLayout, ZenonT(60)
    <2> HIDE DEF flat
    <2> QED
      BY <2>1, <2>2
  <1>6. /\ end \in Seq(Char) /\ Len(end) = 2 /\ end[1] = EndMark /\ end[2] = Newline
    BY DEF Char
  <1> HIDE DEF flat, end
  <1>7. /\ Payload \in Seq(Char) /\ Len(Payload) = pos[N] + 2 /\ pos[N] \in Nat
        /\ \A i \in 1 .. pos[N] + 2 : Payload[i] = IF i <= pos[N] THEN flat[i] ELSE end[i - pos[N]]
    <2>1. Payload = flat \o end /\ flat \in Seq(Char)
      BY <1>4, <1>5 DEF flat
    <2>2. pos[N] \in Nat /\ pos[N] = Len(flat)
      BY <1>1, <1>5
    <2> QED
      BY <1>6, <2>1, <2>2, ConcatProperties
  <1> DEFINE all == [k \in 0 .. N + 1 |-> IF k <= N THEN pos[k] ELSE pos[N] + 2]
  <1>8. /\ all \in [0 .. N + 1 -> Nat] /\ all[N + 1] = pos[N] + 2
        /\ \A k \in 0 .. N : all[k] = pos[k]
    BY <1>1, <1>5, <1>7
  <1> HIDE DEF all
  <1>9. ASSUME NEW k \in 1 .. N
        PROVE  /\ all[k] = all[k - 1] + Len(Wanted(k)) + 1
               /\ all[k] <= Len(Payload) /\ Payload[all[k]] = Newline
               /\ \A j \in 1 .. Len(Wanted(k)) : Payload[all[k - 1] + j] = Wanted(k)[j]
    <2>1. /\ Wanted(k) = lines[k] /\ all[k] = pos[k] /\ all[k - 1] = pos[k - 1]
          /\ pos[k] \in Nat /\ pos[k - 1] \in Nat
      <3>1. k <= N /\ k \in 0 .. N /\ k - 1 \in 0 .. N
        BY <1>1
      <3> QED
        BY <1>5, <1>8, <3>1 DEF Wanted
    <2>2. /\ seqs[k] = Append(lines[k], Newline) /\ Len(seqs[k]) = Len(lines[k]) + 1
          /\ Len(lines[k]) \in Nat /\ seqs[k][Len(lines[k]) + 1] = Newline
          /\ \A j \in 1 .. Len(lines[k]) : seqs[k][j] = lines[k][j]
      BY <1>2, <1>3
    <2>3. /\ pos[k] = pos[k - 1] + Len(lines[k]) + 1 /\ pos[k] <= pos[N]
          /\ \A j \in 1 .. Len(lines[k]) + 1 : flat[pos[k - 1] + j] = seqs[k][j]
      <3>1. /\ pos[k] = pos[k - 1] + Len(seqs[k]) /\ pos[k] <= pos[N]
            /\ \A j \in 1 .. Len(seqs[k]) : flat[pos[k - 1] + j] = seqs[k][j]
        BY <1>5
      <3>2. Len(seqs[k]) = Len(lines[k]) + 1
        BY <2>2
      <3>3. \A j \in 1 .. Len(lines[k]) + 1 : flat[pos[k - 1] + j] = seqs[k][j]
        BY <3>1, <3>2
      <3>4. pos[k - 1] \in Nat /\ Len(lines[k]) \in Nat
        BY <1>5, <2>1, <2>2
      <3>5. pos[k - 1] + (Len(lines[k]) + 1) = pos[k - 1] + Len(lines[k]) + 1
        BY <3>4
      <3> QED
        BY <3>1, <3>2, <3>3, <3>5, Zenon
    <2>4. ASSUME NEW j \in 1 .. Len(lines[k]) + 1 PROVE Payload[pos[k - 1] + j] = seqs[k][j]
      <3>1. pos[k - 1] + j \in 1 .. pos[N] + 2 /\ pos[k - 1] + j <= pos[N]
        <4>1. /\ pos[k - 1] \in Nat /\ pos[N] \in Nat /\ Len(lines[k]) \in Nat
              /\ pos[k - 1] + Len(lines[k]) + 1 <= pos[N]
          BY <1>7, <2>1, <2>2, <2>3
        <4> DEFINE x == pos[k - 1]
                   y == pos[N]
                   L == Len(lines[k])
        <4>2. x \in Nat /\ y \in Nat /\ L \in Nat /\ x + L + 1 <= y /\ j \in 1 .. L + 1
          BY <4>1
        <4> HIDE DEF x, y, L
        <4>3. x + j \in 1 .. y + 2 /\ x + j <= y
          BY <4>2
        <4> QED
          BY <4>3 DEF x, y
      <3>2. Payload[pos[k - 1] + j] = flat[pos[k - 1] + j]
        BY <1>7, <3>1
      <3> QED
        BY <2>3, <3>2
    <2>5. Payload[pos[k]] = Newline
      <3>1. Len(lines[k]) + 1 \in 1 .. Len(lines[k]) + 1 /\ pos[k] = pos[k - 1] + (Len(lines[k]) + 1)
        BY <2>1, <2>2, <2>3
      <3> QED
        BY <2>2, <2>4, <3>1
    <2>6. ASSUME NEW j \in 1 .. Len(lines[k]) PROVE Payload[pos[k - 1] + j] = lines[k][j]
      <3>1. j \in 1 .. Len(lines[k]) + 1 /\ seqs[k][j] = lines[k][j]
        BY <2>2
      <3> QED
        BY <2>4, <3>1
    <2>7. pos[k] <= Len(Payload)
      BY <1>7, <2>1, <2>3
    <2> QED
      BY <2>1, <2>3, <2>5, <2>6, <2>7
  <1>10. /\ all[N + 1] = all[(N + 1) - 1] + Len(Wanted(N + 1)) + 1
         /\ all[N + 1] <= Len(Payload) /\ Payload[all[N + 1]] = Newline
         /\ \A j \in 1 .. Len(Wanted(N + 1)) : Payload[all[(N + 1) - 1] + j] = Wanted(N + 1)[j]
    <2>1. /\ Wanted(N + 1) = << EndMark >> /\ Len(<< EndMark >>) = 1 /\ << EndMark >>[1] = EndMark
          /\ (N + 1) - 1 = N /\ all[N] = pos[N] /\ all[N + 1] = pos[N] + 2
      <3>1. ~ (N + 1 <= N) /\ N \in 0 .. N
        BY <1>1
      <3> QED
        BY <1>1, <1>8, <3>1 DEF Wanted
    <2>2. Payload[pos[N] + 1] = EndMark /\ Payload[pos[N] + 2] = Newline
      <3>1. /\ pos[N] + 1 \in 1 .. pos[N] + 2 /\ ~ (pos[N] + 1 <= pos[N]) /\ (pos[N] + 1) - pos[N] = 1
            /\ pos[N] + 2 \in 1 .. pos[N] + 2 /\ ~ (pos[N] + 2 <= pos[N]) /\ (pos[N] + 2) - pos[N] = 2
        BY <1>7
      <3> QED
        BY <1>6, <1>7, <3>1
    <2>3. \A j \in 1 .. Len(Wanted(N + 1)) : Payload[all[(N + 1) - 1] + j] = Wanted(N + 1)[j]
      <3>1. Len(Wanted(N + 1)) = 1 /\ Wanted(N + 1)[1] = EndMark /\ all[(N + 1) - 1] = pos[N]
        BY <2>1
      <3>2. \A j \in 1 .. 1 : j = 1
        OBVIOUS
      <3> QED
        BY <2>2, <3>1, <3>2
    <2>4. all[N + 1] = all[(N + 1) - 1] + Len(Wanted(N + 1)) + 1
      <3>1. Len(Wanted(N + 1)) = 1 /\ all[(N + 1) - 1] = pos[N] /\ all[N + 1] = pos[N] + 2
        BY <2>1
      <3>2. pos[N] + 2 = pos[N] + 1 + 1
        BY <1>7
      <3> QED
        BY <3>1, <3>2
    <2> QED
      BY <1>7, <2>1, <2>2, <2>3, <2>4
  <1>11. Layout(all)
    <2>1. \A k \in 1 .. N + 1 :
            /\ all[k] = all[k - 1] + Len(Wanted(k)) + 1
            /\ all[k] <= Len(Payload) /\ Payload[all[k]] = Newline
            /\ \A j \in 1 .. Len(Wanted(k)) : Payload[all[k - 1] + j] = Wanted(k)[j]
      <3>1. \A k \in 1 .. N + 1 : k \in 1 .. N \/ k = N + 1
        BY <1>1
      <3> QED
        BY <1>9, <1>10, <3>1
    <2>2. all[0] = 0
      BY <1>1, <1>5, <1>8
    <2> QED
      BY <1>7, <1>8, <2>1, <2>2 DEF Layout
  <1> QED
    BY <1>7, <1>11


------------------------------------------------------------------------------
\* The inductive invariant

Begin == CHOOSE pos : Layout(pos)

Sent == answer \in Answers /\ lines = DumpLines(answer)

FlagsTyped == lost \in BOOLEAN /\ atEof \in BOOLEAN /\ reading \in BOOLEAN /\ buf \in Seq(Char)

WireIsRest == \E n \in 0 .. Len(Payload) : wire = SubSeq(Payload, n + 1, Len(Payload))

\* Every line taken is the peer's; of the last one perhaps only the beginning.
TakenArePrefixes ==
    /\ taken \in Seq(Seq(Char)) /\ Len(taken) <= Len(lines)
    /\ \A i \in 1 .. Len(taken) : \E n \in 1 .. Len(lines[i]) :
         taken[i] = SubSeq(lines[i], 1, n) /\ (i < Len(taken) => n = Len(lines[i]))

\* Up to a break: the buffer goes on where the lines taken end, the wire where
\* the buffer ends.
InStep ==
    /\ \A i \in 1 .. Len(taken) : taken[i] = lines[i]
    /\ Begin[Len(taken)] + Len(buf) <= Len(Payload)
    /\ \A j \in 1 .. Len(buf) : buf[j] = Payload[Begin[Len(taken)] + j]
    /\ \/ lost /\ wire = << >>
       \/ wire = SubSeq(Payload, Begin[Len(taken)] + Len(buf) + 1, Len(Payload))

\* Nothing more will come.
Over == atEof /\ buf = << >>

EndIsEnd == atEof => wire = << >> /\ ~ HasLine

FetchInv ==
    /\ Sent /\ FlagsTyped /\ WireIsRest /\ TakenArePrefixes /\ EndIsEnd
    /\ reading => InStep \/ Over

\* What the answer's lines are made of.
LEMMA SentLines ==
    ASSUME Sent
    PROVE  /\ Len(answer) \in Nat \ {0} /\ Len(lines) = Len(answer) /\ lines \in Seq(Seq(Token))
           /\ \A i \in 1 .. Len(lines) :
                /\ answer[i] \in BlockSet /\ lines[i] = ToLine(answer[i])
                /\ lines[i] \in Seq(Token) /\ Len(lines[i]) \in Nat /\ Len(lines[i]) >= 10
                /\ lines[i][1] \in Nat
  <1>1. answer \in Seq(BlockSet) /\ answer # << >>
    BY FetchAssumption DEF Sent
  <1>2. /\ Len(answer) \in Nat \ {0} /\ DOMAIN answer = 1 .. Len(answer)
        /\ \A i \in 1 .. Len(answer) : answer[i] \in BlockSet
    BY <1>1, LenProperties, ElementOfSeq, EmptySeq
  <1>3. lines = [i \in 1 .. Len(answer) |-> ToLine(answer[i])]
    BY <1>2 DEF Sent, DumpLines
  <1>4. \A i \in 1 .. Len(answer) :
          /\ ToLine(answer[i]) \in Seq(Token) /\ Len(ToLine(answer[i])) \in Nat
          /\ Len(ToLine(answer[i])) >= 10 /\ ToLine(answer[i])[1] \in Nat
    <2> SUFFICES ASSUME NEW b \in BlockSet
                 PROVE  /\ ToLine(b) \in Seq(Token) /\ Len(ToLine(b)) \in Nat
                        /\ Len(ToLine(b)) >= 10 /\ ToLine(b)[1] \in Nat
      BY <1>2
    <2>1. /\ Join(b.txs, Comma) \in Seq(Tokens) /\ ToLine(b) \in Seq(Token)
          /\ Len(ToLine(b)) = 10 + Len(Join(b.txs, Comma)) /\ ToLine(b)[1] = b.height
      BY ToLineLayout
    <2>2. Len(Join(b.txs, Comma)) \in Nat /\ Len(ToLine(b)) \in Nat /\ b.height \in Nat
      BY <2>1, LenProperties, BlockFields
    <2> QED
      BY <2>1, <2>2
  <1>5. lines \in Seq(Seq(Token)) /\ Len(lines) = Len(answer)
    BY <1>2, <1>3, <1>4
  <1>6. \A i \in 1 .. Len(lines) : lines[i] = ToLine(answer[i]) /\ answer[i] \in BlockSet
    BY <1>2, <1>3, <1>5
  <1> QED
    BY <1>2, <1>4, <1>5, <1>6

LEMMA WantedLines ==
    ASSUME Sent, NEW k \in 1 .. Len(lines) + 1
    PROVE  /\ Wanted(k) \in Seq(Char) /\ Len(Wanted(k)) \in Nat \ {0}
           /\ \A j \in 1 .. Len(Wanted(k)) : Wanted(k)[j] # Newline
           /\ k <= Len(lines) => Wanted(k) = lines[k] /\ Wanted(k)[1] # EndMark
           /\ ~ (k <= Len(lines)) => Wanted(k) = << EndMark >>
  <1>1. Newline \notin Token /\ EndMark \notin Nat /\ EndMark # Newline
    BY WireAssumption DEF Token
  <1>2. Token \subseteq Char /\ EndMark \in Char
    BY DEF Char
  <1>3. CASE k <= Len(lines)
    <2>1. k \in 1 .. Len(lines)
      BY <1>3
    <2>2. /\ lines[k] \in Seq(Token) /\ Len(lines[k]) \in Nat /\ Len(lines[k]) >= 10
          /\ lines[k][1] \in Nat /\ Wanted(k) = lines[k]
      BY <1>3, <2>1, SentLines DEF Wanted
    <2>3. \A j \in 1 .. Len(lines[k]) : lines[k][j] \in Token
      BY <2>2, ElementOfSeq
    <2>4. lines[k] \in Seq(Char)
      BY <1>2, <2>2, SeqMonotonic
    <2> QED
      BY <1>1, <1>3, <2>2, <2>3, <2>4
  <1>4. CASE ~ (k <= Len(lines))
    <2>1. Wanted(k) = << EndMark >>
      BY <1>4 DEF Wanted
    <2>2. << EndMark >> \in Seq(Char) /\ Len(<< EndMark >>) = 1 /\ << EndMark >>[1] = EndMark
      BY <1>2
    <2> QED
      BY <1>1, <1>4, <2>1, <2>2
  <1> QED
    BY <1>3, <1>4

LEMMA BeginIsLayout ==
    ASSUME Sent
    PROVE  Payload \in Seq(Char) /\ Len(Payload) \in Nat /\ Layout(Begin)
  <1>1. Payload \in Seq(Char) /\ \E pos : Layout(pos)
    BY SentLines, PayloadLayout
  <1>2. Layout(Begin)
    BY <1>1 DEF Begin
  <1> QED
    BY <1>1, <1>2, LenProperties

\* Even without a block there is an end mark to send.
LEMMA PayloadNotEmpty ==
    ASSUME Sent
    PROVE  Payload \in Seq(Char) /\ Len(Payload) \in Nat \ {0}
  <1> DEFINE e == Len(lines) + 1
  <1>1. Payload \in Seq(Char) /\ Len(Payload) \in Nat /\ Layout(Begin) /\ Len(lines) \in Nat
    BY SentLines, BeginIsLayout
  <1>2. e \in 1 .. e /\ e - 1 = Len(lines) /\ Len(lines) \in 0 .. e
    BY <1>1
  <1>3. Len(Wanted(e)) \in Nat
    BY <1>2, WantedLines
  <1>4. Begin[e] = Begin[e - 1] + Len(Wanted(e)) + 1 /\ Begin[Len(lines)] \in Nat /\ Begin[e] = Len(Payload)
    BY <1>1, <1>2 DEF Layout
  <1> HIDE DEF e
  <1> QED
    BY <1>1, <1>2, <1>3, <1>4

\* What is left when the first n elements are gone.
LEMMA RestOfRest ==
    ASSUME NEW U, NEW s \in Seq(U), NEW q \in 0 .. Len(s), NEW w, w = SubSeq(s, q + 1, Len(s)),
           NEW n \in 0 .. Len(w)
    PROVE  /\ w \in Seq(U) /\ Len(w) = Len(s) - q /\ q + n \in 0 .. Len(s)
           /\ SubSeq(w, n + 1, Len(w)) = SubSeq(s, q + n + 1, Len(s))
           /\ SubSeq(w, 1, n) \in Seq(U) /\ Len(SubSeq(w, 1, n)) = n
           /\ \A j \in 1 .. n : SubSeq(w, 1, n)[j] = s[q + j]
  <1>1. Len(s) \in Nat /\ q \in Nat /\ \A i \in 1 .. Len(s) : s[i] \in U
    BY LenProperties, ElementOfSeq
  <1>2. /\ w \in Seq(U) /\ Len(w) = Len(s) - q
        /\ \A i \in 1 .. Len(s) - q : w[i] = s[q + i] /\ w[i] \in U
    <2>1. q + 1 \in Int /\ Len(s) \in Int /\ \A i \in q + 1 .. Len(s) : s[i] \in U
      BY <1>1
    <2>2. /\ w \in Seq(U) /\ Len(w) = IF q + 1 <= Len(s) THEN Len(s) - (q + 1) + 1 ELSE 0
          /\ \A i \in 1 .. Len(s) - (q + 1) + 1 : w[i] = s[(q + 1) + i - 1]
      BY <2>1, SubSeqProperties
    <2>3. \A i \in 1 .. Len(s) - q : (q + 1) + i - 1 = q + i /\ q + i \in 1 .. Len(s)
      BY <1>1
    <2> QED
      BY <1>1, <2>2, <2>3
  <1>3. n \in Nat /\ n <= Len(s) - q /\ q + n \in 0 .. Len(s)
    BY <1>1, <1>2
  <1>4. /\ SubSeq(w, 1, n) \in Seq(U) /\ Len(SubSeq(w, 1, n)) = n
        /\ \A j \in 1 .. n : SubSeq(w, 1, n)[j] = s[q + j]
    <2>1. \A i \in 1 .. n : w[i] \in U /\ w[i] = s[q + i]
      BY <1>1, <1>2, <1>3
    <2>2. /\ SubSeq(w, 1, n) \in Seq(U) /\ Len(SubSeq(w, 1, n)) = IF 1 <= n THEN n - 1 + 1 ELSE 0
          /\ \A i \in 1 .. n - 1 + 1 : SubSeq(w, 1, n)[i] = w[1 + i - 1]
      BY <1>3, <2>1, SubSeqProperties
    <2>3. \A i \in 1 .. n : 1 + i - 1 = i
      BY <1>3
    <2> QED
      BY <1>3, <2>1, <2>2, <2>3
  <1> DEFINE x == SubSeq(w, n + 1, Len(w))
             y == SubSeq(s, q + n + 1, Len(s))
  <1>5. x \in Seq(U) /\ Len(x) = Len(s) - q - n /\ \A i \in 1 .. Len(s) - q - n : x[i] = s[q + n + i]
    <2>1. n + 1 \in Int /\ Len(w) \in Int /\ \A i \in n + 1 .. Len(w) : w[i] \in U
      BY <1>1, <1>2, <1>3
    <2>2. /\ x \in Seq(U) /\ Len(x) = IF n + 1 <= Len(w) THEN Len(w) - (n + 1) + 1 ELSE 0
          /\ \A i \in 1 .. Len(w) - (n + 1) + 1 : x[i] = w[(n + 1) + i - 1]
      BY <2>1, SubSeqProperties
    <2> HIDE DEF x
    <2>3. Len(x) = Len(s) - q - n
      BY <1>1, <1>2, <1>3, <2>2
    <2>4. ASSUME NEW i \in 1 .. Len(s) - q - n PROVE x[i] = s[q + n + i]
      <3>1. i \in 1 .. Len(w) - (n + 1) + 1 /\ (n + 1) + i - 1 = n + i /\ n + i \in 1 .. Len(s) - q
        BY <1>1, <1>2, <1>3
      <3>2. w[n + i] = s[q + (n + i)] /\ q + (n + i) = q + n + i
        BY <1>1, <1>2, <1>3, <3>1
      <3> QED
        BY <2>2, <3>1, <3>2
    <2> QED
      BY <2>2, <2>3, <2>4
  <1>6. y \in Seq(U) /\ Len(y) = Len(s) - q - n /\ \A i \in 1 .. Len(s) - q - n : y[i] = s[q + n + i]
    <2>1. q + n + 1 \in Int /\ Len(s) \in Int /\ \A i \in q + n + 1 .. Len(s) : s[i] \in U
      BY <1>1, <1>3
    <2>2. /\ y \in Seq(U) /\ Len(y) = IF q + n + 1 <= Len(s) THEN Len(s) - (q + n + 1) + 1 ELSE 0
          /\ \A i \in 1 .. Len(s) - (q + n + 1) + 1 : y[i] = s[(q + n + 1) + i - 1]
      BY <2>1, SubSeqProperties
    <2> HIDE DEF y
    <2>3. Len(y) = Len(s) - q - n
      BY <1>1, <1>3, <2>2
    <2>4. ASSUME NEW i \in 1 .. Len(s) - q - n PROVE y[i] = s[q + n + i]
      <3>1. i \in 1 .. Len(s) - (q + n + 1) + 1 /\ (q + n + 1) + i - 1 = q + n + i
        BY <1>1, <1>3
      <3> QED
        BY <2>2, <3>1
    <2> QED
      BY <2>2, <2>3, <2>4
  <1>7. x = y
    <2> HIDE DEF x, y
    <2> QED
      BY <1>5, <1>6, SeqEqual
  <1> QED
    BY <1>2, <1>3, <1>4, <1>7


------------------------------------------------------------------------------
\* readLine

\* Line ends are positions, LineEnd is the first.
LEMMA LineEndIsFirst ==
    ASSUME buf \in Seq(Char)
    PROVE  /\ LineEnds = { i \in 1 .. Len(buf) : buf[i] = Newline }
           /\ HasLine => LineEnd \in LineEnds /\ \A j \in LineEnds : LineEnd <= j
           /\ RestKept \in Seq(Char) /\ NextLine \in Seq(Char)
           /\ HasLine => Len(RestKept) = Len(buf) - LineEnd
                         /\ \A j \in 1 .. Len(buf) - LineEnd : RestKept[j] = buf[LineEnd + j]
           /\ HasLine => Len(NextLine) = LineEnd - 1
                         /\ \A j \in 1 .. LineEnd - 1 : NextLine[j] = buf[j]
           /\ ~ HasLine => NextLine = buf /\ RestKept = << >>
  <1>1. Len(buf) \in Nat /\ DOMAIN buf = 1 .. Len(buf) /\ \A i \in 1 .. Len(buf) : buf[i] \in Char
    BY LenProperties, ElementOfSeq
  <1>2. LineEnds = { i \in 1 .. Len(buf) : buf[i] = Newline }
    BY <1>1 DEF LineEnds
  <1>3. ASSUME HasLine
        PROVE  LineEnd \in LineEnds /\ LineEnd \in 1 .. Len(buf) /\ \A j \in LineEnds : LineEnd <= j
    <2>1. LineEnds \in SUBSET Nat /\ LineEnds # {}
      BY <1>1, <1>2, <1>3 DEF HasLine
    <2>2. \E i \in LineEnds : \A j \in LineEnds : i <= j
      <3> HIDE DEF LineEnds
      <3> QED
        BY <2>1, LeastElement
    <2>3. LineEnd \in LineEnds /\ \A j \in LineEnds : LineEnd <= j
      BY <2>2 DEF LineEnd
    <2> QED
      BY <1>2, <2>3
  <1>4. CASE HasLine
    <2> DEFINE e == LineEnd
    <2>1. e \in 1 .. Len(buf)
      BY <1>3, <1>4
    <2> HIDE DEF e
    <2>2. /\ SubSeq(buf, e + 1, Len(buf)) \in Seq(Char)
          /\ Len(SubSeq(buf, e + 1, Len(buf))) = Len(buf) - e
          /\ \A j \in 1 .. Len(buf) - e : SubSeq(buf, e + 1, Len(buf))[j] = buf[e + j]
      <3>1. e + 1 \in Int /\ Len(buf) \in Int /\ \A i \in e + 1 .. Len(buf) : buf[i] \in Char
        BY <1>1, <2>1
      <3>2. /\ SubSeq(buf, e + 1, Len(buf)) \in Seq(Char)
            /\ Len(SubSeq(buf, e + 1, Len(buf)))
                 = IF e + 1 <= Len(buf) THEN Len(buf) - (e + 1) + 1 ELSE 0
            /\ \A j \in 1 .. Len(buf) - (e + 1) + 1 :
                 SubSeq(buf, e + 1, Len(buf))[j] = buf[(e + 1) + j - 1]
        BY <3>1, SubSeqProperties
      <3>3. \A j \in 1 .. Len(buf) - e : (e + 1) + j - 1 = e + j /\ j \in 1 .. Len(buf) - (e + 1) + 1
        BY <1>1, <2>1
      <3> DEFINE rest == SubSeq(buf, e + 1, Len(buf))
                 L == Len(buf)
                 R == Len(rest)
      <3>4. R = L - e
        <4>1. R = IF e + 1 <= L THEN L - (e + 1) + 1 ELSE 0
          BY <3>2
        <4>2. L \in Nat /\ e \in 1 .. L
          BY <1>1, <2>1
        <4> HIDE DEF L, R
        <4> QED
          BY <4>1, <4>2
      <3>5. \A j \in 1 .. L - e : rest[j] = buf[e + j]
        <4> HIDE DEF rest
        <4>1. \A j \in 1 .. L - (e + 1) + 1 : rest[j] = buf[(e + 1) + j - 1]
          BY <3>2 DEF rest
        <4> HIDE DEF L
        <4> QED
          BY <3>3, <4>1 DEF L
      <3> QED
        BY <3>2, <3>4, <3>5
    <2>3. /\ SubSeq(buf, 1, e - 1) \in Seq(Char) /\ Len(SubSeq(buf, 1, e - 1)) = e - 1
          /\ \A j \in 1 .. e - 1 : SubSeq(buf, 1, e - 1)[j] = buf[j]
      <3>1. 1 \in Int /\ e - 1 \in Int /\ \A i \in 1 .. e - 1 : buf[i] \in Char
        BY <1>1, <2>1
      <3>2. /\ SubSeq(buf, 1, e - 1) \in Seq(Char)
            /\ Len(SubSeq(buf, 1, e - 1)) = IF 1 <= e - 1 THEN (e - 1) - 1 + 1 ELSE 0
            /\ \A j \in 1 .. (e - 1) - 1 + 1 : SubSeq(buf, 1, e - 1)[j] = buf[1 + j - 1]
        BY <3>1, SubSeqProperties
      <3>3. \A j \in 1 .. e - 1 : 1 + j - 1 = j /\ j \in 1 .. (e - 1) - 1 + 1
        BY <1>1, <2>1
      <3> DEFINE line == SubSeq(buf, 1, e - 1)
                 N == Len(line)
      <3>4. N = e - 1
        <4>1. N = IF 1 <= e - 1 THEN (e - 1) - 1 + 1 ELSE 0
          BY <3>2
        <4>2. e \in Nat /\ e >= 1
          BY <1>1, <2>1
        <4> HIDE DEF N
        <4> QED
          BY <4>1, <4>2
      <3>5. \A j \in 1 .. e - 1 : line[j] = buf[j]
        <4> HIDE DEF line
        <4>1. \A j \in 1 .. (e - 1) - 1 + 1 : line[j] = buf[1 + j - 1]
          BY <3>2 DEF line
        <4> QED
          BY <3>3, <4>1
      <3> QED
        BY <3>2, <3>4, <3>5
    <2>4. RestKept = SubSeq(buf, e + 1, Len(buf)) /\ NextLine = SubSeq(buf, 1, e - 1)
      BY <1>4 DEF RestKept, NextLine, e
    <2> QED
      BY <1>2, <1>3, <1>4, <2>2, <2>3, <2>4 DEF e
  <1>5. CASE ~ HasLine
    <2>1. NextLine = buf /\ RestKept = << >> /\ << >> \in Seq(Char)
      BY <1>5 DEF NextLine, RestKept
    <2> QED
      BY <1>2, <1>5, <2>1
  <1> QED
    BY <1>4, <1>5

\* Up to a break, readLine returns the next line of the answer.
LEMMA WholeLineIsNext ==
    ASSUME Sent, buf \in Seq(Char), NEW k, k = Len(taken), k \in 0 .. Len(lines), InStep, HasLine
    PROVE  /\ LineEnd \in 1 .. Len(buf) /\ NextLine = Wanted(k + 1)
           /\ Begin[k + 1] = Begin[k] + LineEnd /\ Begin[k] \in Nat /\ Begin[k + 1] \in Nat
  <1> DEFINE L == Len(Wanted(k + 1))
             p == Begin[k]
  <1>1. k + 1 \in 1 .. Len(lines) + 1 /\ (k + 1) - 1 = k /\ k \in 0 .. Len(lines) + 1 /\ Len(lines) \in Nat
    <2>1. Len(lines) \in Nat
      BY SentLines
    <2> QED
      BY <2>1
  <1>2. /\ Wanted(k + 1) \in Seq(Char) /\ L \in Nat
        /\ \A j \in 1 .. L : Wanted(k + 1)[j] # Newline
    BY <1>1, WantedLines
  <1>3. /\ p \in Nat /\ Begin[k + 1] \in Nat /\ Begin[k + 1] = p + L + 1 /\ Payload[Begin[k + 1]] = Newline
        /\ \A j \in 1 .. L : Payload[p + j] = Wanted(k + 1)[j]
    <2>1. Layout(Begin) /\ k + 1 \in 0 .. Len(lines) + 1
      BY <1>1, BeginIsLayout
    <2>2. p \in Nat /\ Begin[k + 1] \in Nat
      BY <1>1, <2>1 DEF Layout
    <2>3. /\ Begin[k + 1] = Begin[(k + 1) - 1] + L + 1 /\ Payload[Begin[k + 1]] = Newline
          /\ \A j \in 1 .. L : Payload[Begin[(k + 1) - 1] + j] = Wanted(k + 1)[j]
      BY <1>1, <2>1 DEF Layout
    <2> QED
      BY <1>1, <2>2, <2>3
  <1>4. /\ Len(buf) \in Nat /\ \A j \in 1 .. Len(buf) : buf[j] = Payload[p + j]
        /\ LineEnd \in 1 .. Len(buf) /\ buf[LineEnd] = Newline
        /\ \A j \in 1 .. Len(buf) : buf[j] = Newline => LineEnd <= j
    BY LineEndIsFirst, LenProperties DEF InStep
  <1> HIDE DEF L, p
  <1>5. LineEnd > L
    <2> SUFFICES ASSUME LineEnd <= L PROVE FALSE
      BY <1>2, <1>4
    <2>1. LineEnd \in 1 .. L
      BY <1>2, <1>4
    <2> QED
      BY <1>2, <1>3, <1>4, <2>1
  <1>6. L + 1 \in 1 .. Len(buf) /\ buf[L + 1] = Newline
    <2>1. L + 1 \in 1 .. Len(buf)
      BY <1>2, <1>4, <1>5
    <2>2. p + (L + 1) = Begin[k + 1]
      BY <1>2, <1>3
    <2> QED
      BY <1>3, <1>4, <2>1, <2>2
  <1>7. LineEnd = L + 1
    BY <1>2, <1>4, <1>5, <1>6
  <1>8. NextLine = Wanted(k + 1)
    <2>1. NextLine \in Seq(Char) /\ Len(NextLine) = L /\ \A j \in 1 .. L : NextLine[j] = buf[j]
      <3>1. LineEnd - 1 = L
        BY <1>2, <1>7
      <3> QED
        BY <3>1, LineEndIsFirst
    <2>2. \A j \in 1 .. L : NextLine[j] = Wanted(k + 1)[j]
      <3> SUFFICES ASSUME NEW j \in 1 .. L PROVE NextLine[j] = Wanted(k + 1)[j]
        OBVIOUS
      <3>1. j \in 1 .. Len(buf)
        BY <1>2, <1>4, <1>6
      <3>2. buf[j] = Payload[p + j]
        BY <1>4, <3>1
      <3> QED
        BY <1>3, <2>1, <3>2
    <2>3. Len(Wanted(k + 1)) = L
      BY DEF L
    <2> QED
      BY <1>2, <2>1, <2>2, <2>3, SeqEqual
  <1>9. Begin[k + 1] = p + LineEnd
    BY <1>2, <1>3, <1>7
  <1> QED
    BY <1>3, <1>4, <1>8, <1>9 DEF p

\* What is left in the buffer at the end begins the next line of the answer.
LEMMA CutLineBegins ==
    ASSUME Sent, buf \in Seq(Char), NEW k, k = Len(taken), k \in 0 .. Len(lines), InStep, ~ HasLine
    PROVE  /\ Len(buf) \in 0 .. Len(Wanted(k + 1)) /\ Len(Wanted(k + 1)) \in Nat
           /\ buf = SubSeq(Wanted(k + 1), 1, Len(buf))
           /\ buf # << >> => buf[1] = Wanted(k + 1)[1]
  <1> DEFINE L == Len(Wanted(k + 1))
             p == Begin[k]
             n == Len(buf)
  <1>1. k + 1 \in 1 .. Len(lines) + 1 /\ (k + 1) - 1 = k /\ k \in 0 .. Len(lines) + 1
    <2>1. Len(lines) \in Nat
      BY SentLines
    <2> QED
      BY <2>1
  <1>2. Wanted(k + 1) \in Seq(Char) /\ L \in Nat
    BY <1>1, WantedLines
  <1>3. /\ p \in Nat /\ Begin[k + 1] = p + L + 1 /\ Payload[Begin[k + 1]] = Newline
        /\ \A j \in 1 .. L : Payload[p + j] = Wanted(k + 1)[j]
    BY <1>1, BeginIsLayout DEF Layout
  <1>4. /\ n \in Nat /\ \A j \in 1 .. n : buf[j] = Payload[p + j] /\ buf[j] # Newline
    BY LineEndIsFirst, LenProperties DEF InStep, HasLine
  <1> HIDE DEF L, p, n
  <1>5. n <= L
    <2> SUFFICES ASSUME L + 1 <= n PROVE FALSE
      BY <1>2, <1>4
    <2>1. L + 1 \in 1 .. n /\ p + (L + 1) = Begin[k + 1]
      BY <1>2, <1>3, <1>4
    <2> QED
      BY <1>3, <1>4, <2>1
  <1>6. \A j \in 1 .. n : j \in 1 .. L /\ buf[j] = Wanted(k + 1)[j]
    BY <1>2, <1>3, <1>4, <1>5
  <1>7. buf = SubSeq(Wanted(k + 1), 1, n)
    <2> DEFINE s == SubSeq(Wanted(k + 1), 1, n)
    <2>1. \A i \in 1 .. n : Wanted(k + 1)[i] \in Char
      <3>1. \A i \in 1 .. L : Wanted(k + 1)[i] \in Char
        BY <1>2, ElementOfSeq DEF L
      <3> QED
        BY <1>6, <3>1
    <2>2. /\ s \in Seq(Char) /\ Len(s) = IF 1 <= n THEN n - 1 + 1 ELSE 0
          /\ \A i \in 1 .. n - 1 + 1 : s[i] = Wanted(k + 1)[1 + i - 1]
      BY <1>4, <2>1, SubSeqProperties
    <2> HIDE DEF s
    <2>3. \A i \in 1 .. n : 1 + i - 1 = i /\ i \in 1 .. n - 1 + 1
      BY <1>4
    <2>4. Len(s) = n /\ \A i \in 1 .. n : s[i] = buf[i]
      BY <1>4, <1>6, <2>2, <2>3
    <2>5. Len(buf) = n
      BY DEF n
    <2>6. buf = s
      BY <2>2, <2>4, <2>5, SeqEqual
    <2> QED
      BY <2>6 DEF s
  <1>8. buf # << >> => 1 \in 1 .. n
    BY <1>4, EmptySeq DEF n
  <1> QED
    BY <1>2, <1>4, <1>5, <1>6, <1>7, <1>8 DEF L, n


\* The three things a return of readLine can mean to fetchChain's loop.
TakesWhole ==
    /\ HasLine /\ ~ atEof /\ InStep /\ Len(taken) < Len(lines)
    /\ NextLine = lines[Len(taken) + 1]
    /\ taken' = Append(taken, NextLine) /\ UNCHANGED reading

TakesCut ==
    /\ ~ HasLine /\ atEof /\ buf # << >> /\ Len(taken) < Len(lines)
    /\ \A i \in 1 .. Len(taken) : taken[i] = lines[i]
    /\ \E n \in 1 .. Len(lines[Len(taken) + 1]) : NextLine = SubSeq(lines[Len(taken) + 1], 1, n)
    /\ taken' = Append(taken, NextLine) /\ UNCHANGED reading

Ends ==
    /\ Over \/ Len(taken) = Len(lines)
    /\ reading' = FALSE /\ UNCHANGED taken

LEMMA ReadLineReturns ==
    ASSUME FetchInv, TakeLine
    PROVE  TakesWhole \/ TakesCut \/ Ends
  <1> DEFINE k == Len(taken)
  <1>1. Sent /\ buf \in Seq(Char) /\ k \in 0 .. Len(lines) /\ k + 1 \in 1 .. Len(lines) + 1
    <2>1. Len(lines) \in Nat /\ k \in Nat
      BY SentLines, LenProperties DEF FetchInv, TakenArePrefixes
    <2> QED
      BY <2>1 DEF FetchInv, TakenArePrefixes, FlagsTyped
  <1>2. reading /\ (InStep \/ Over) /\ (atEof => ~ HasLine) /\ (HasLine \/ atEof) /\ atEof \in BOOLEAN
    BY DEF FetchInv, TakeLine, EndIsEnd, FlagsTyped
  <1>3. CASE Over
    <2>1. ~ HasLine /\ atEof /\ NextLine = << >> /\ RestKept = << >>
      BY <1>2, <1>3 DEF Over, NextLine, RestKept
    <2>2. reading' = FALSE /\ UNCHANGED taken
      BY <2>1 DEF TakeLine
    <2> QED
      BY <1>3, <2>2 DEF Ends
  <1>4. CASE ~ Over
    <2>1. InStep
      BY <1>2, <1>4
    <2>2. CASE HasLine
      <3>1. NextLine = Wanted(k + 1) /\ ~ atEof
        BY <1>1, <1>2, <2>1, <2>2, WholeLineIsNext
      <3>2. CASE k < Len(lines)
        <4>1. k + 1 <= Len(lines)
          BY <1>1, <3>2
        <4>2. Wanted(k + 1) = lines[k + 1] /\ Wanted(k + 1)[1] # EndMark
          BY <1>1, <4>1, WantedLines
        <4>3. NextLine # << EndMark >>
          BY <3>1, <4>2
        <4>4. taken' = Append(taken, NextLine) /\ UNCHANGED reading
          BY <3>1, <4>3 DEF TakeLine
        <4>5. TakesWhole
          BY <2>1, <2>2, <3>1, <3>2, <4>2, <4>4 DEF TakesWhole
        <4> QED
          BY <4>5
      <3>3. CASE ~ (k < Len(lines))
        <4>1. k = Len(lines) /\ ~ (k + 1 <= Len(lines))
          BY <1>1, <3>3
        <4>2. NextLine = << EndMark >>
          BY <1>1, <3>1, <4>1, WantedLines
        <4> QED
          BY <1>4, <4>1, <4>2 DEF TakeLine, Ends
      <3> QED
        BY <3>2, <3>3
    <2>3. CASE ~ HasLine
      <3>1. atEof /\ buf # << >> /\ NextLine = buf
        BY <1>2, <1>4, <2>3 DEF Over, NextLine
      <3>2. /\ Len(buf) \in 0 .. Len(Wanted(k + 1)) /\ Len(Wanted(k + 1)) \in Nat
            /\ buf = SubSeq(Wanted(k + 1), 1, Len(buf)) /\ buf[1] = Wanted(k + 1)[1]
        BY <1>1, <2>1, <2>3, <3>1, CutLineBegins
      <3>3. Len(buf) \in 1 .. Len(Wanted(k + 1))
        BY <1>1, <3>1, <3>2, EmptySeq
      <3>4. CASE k < Len(lines)
        <4>1. k + 1 <= Len(lines)
          BY <1>1, <3>4
        <4>2. Wanted(k + 1) = lines[k + 1] /\ Wanted(k + 1)[1] # EndMark
          BY <1>1, <4>1, WantedLines
        <4>3. NextLine # << EndMark >> /\ NextLine # << >>
          BY <3>1, <3>2, <4>2
        <4>4. taken' = Append(taken, NextLine) /\ UNCHANGED reading
          BY <4>3 DEF TakeLine
        <4>5. \E n \in 1 .. Len(lines[k + 1]) : NextLine = SubSeq(lines[k + 1], 1, n)
          BY <3>1, <3>2, <3>3, <4>2
        <4>6. TakesCut
          BY <2>1, <2>3, <3>1, <3>4, <4>4, <4>5 DEF TakesCut, InStep
        <4> QED
          BY <4>6
      <3>5. CASE ~ (k < Len(lines))
        <4>1. k = Len(lines) /\ ~ (k + 1 <= Len(lines))
          BY <1>1, <3>5
        <4>2. Wanted(k + 1) = << EndMark >>
          BY <1>1, <4>1, WantedLines
        <4>3. Len(buf) = 1 /\ buf[1] = EndMark
          BY <3>2, <3>3, <4>2
        <4>4. buf = << EndMark >>
          <5>1. << EndMark >> \in Seq(Char) /\ Len(<< EndMark >>) = 1 /\ << EndMark >>[1] = EndMark
            BY DEF Char
          <5> QED
            BY <1>1, <4>3, <5>1, SeqEqual
        <4>5. NextLine = << EndMark >>
          BY <3>1, <4>4
        <4> QED
          BY <1>4, <4>1, <4>5 DEF TakeLine, Ends
      <3> QED
        BY <3>4, <3>5
    <2> QED
      BY <2>2, <2>3
  <1> QED
    BY <1>3, <1>4

------------------------------------------------------------------------------
\* The invariant holds

LEMMA InitFetchInv ==
    ASSUME Init
    PROVE  FetchInv
  <1>1. Sent
    BY DEF Init, Sent
  <1>2. /\ Len(lines) \in Nat /\ Payload \in Seq(Char) /\ Len(Payload) \in Nat /\ Begin[0] = 0
    BY <1>1, SentLines, BeginIsLayout DEF Layout
  <1>3. /\ taken = << >> /\ buf = << >> /\ Len(taken) = 0 /\ Len(buf) = 0
        /\ reading = TRUE /\ atEof = FALSE /\ lost = FALSE
    BY DEF Init
  <1>4. wire = SubSeq(Payload, 0 + 1, Len(Payload))
    BY <1>2, SubSeqFull DEF Init
  <1>5. FlagsTyped
    <2>1. << >> \in Seq(Char)
      OBVIOUS
    <2> QED
      BY <1>3, <2>1 DEF FlagsTyped
  <1>6. WireIsRest
    BY <1>2, <1>4 DEF WireIsRest
  <1>7. TakenArePrefixes
    BY <1>2, <1>3 DEF TakenArePrefixes
  <1>8. InStep
    <2>1. Begin[0] + 0 <= Len(Payload) /\ Begin[0] + 0 + 1 = 0 + 1
      BY <1>2
    <2> QED
      BY <1>3, <1>4, <2>1 DEF InStep
  <1>9. EndIsEnd
    BY <1>3 DEF EndIsEnd
  <1> QED
    BY <1>1, <1>5, <1>6, <1>7, <1>8, <1>9 DEF FetchInv

\* Where lines begin is settled when the peer answers.
LEMMA BeginStays ==
    ASSUME UNCHANGED << answer, lines >>
    PROVE  /\ Payload' = Payload /\ Begin' = Begin /\ (Sent => Sent')
  <1>1. Payload' = Payload /\ \A k : Wanted(k)' = Wanted(k)
    BY DEF Payload, Wanted
  <1>2. \A pos : Layout(pos)' = Layout(pos)
    BY <1>1 DEF Layout
  <1>3. Begin' = Begin
    BY <1>2 DEF Begin
  <1> QED
    BY <1>1, <1>3 DEF Sent

LEMMA StepRecv ==
    ASSUME FetchInv, Recv
    PROVE  FetchInv'
  <1> DEFINE q == Begin[Len(taken)] + Len(buf)
  <1>1. Sent' /\ Payload' = Payload /\ Begin' = Begin
    BY BeginStays DEF FetchInv, Recv
  <1>2. PICK n \in 1 .. ChunkSize : /\ n <= Len(wire)
                                    /\ buf' = buf \o SubSeq(wire, 1, n)
                                    /\ wire' = SubSeq(wire, n + 1, Len(wire))
    BY DEF Recv
  <1>3. n \in Nat /\ n > 0
    BY <1>2, FetchAssumption
  <1>4. Payload \in Seq(Char) /\ Len(Payload) \in Nat /\ Layout(Begin)
    BY BeginIsLayout DEF FetchInv
  <1>5. reading /\ ~ atEof /\ buf \in Seq(Char) /\ Len(buf) \in Nat
    BY LenProperties DEF Recv, FetchInv, FlagsTyped
  <1>6. wire # << >>
    BY <1>2, <1>3
  <1>7. InStep /\ wire = SubSeq(Payload, q + 1, Len(Payload)) /\ q <= Len(Payload)
    BY <1>5, <1>6 DEF FetchInv, Over, InStep
  <1>8. Begin[Len(taken)] \in Nat /\ q \in 0 .. Len(Payload)
    <2>1. Len(taken) \in 0 .. Len(lines) + 1
      BY SentLines, LenProperties DEF FetchInv, TakenArePrefixes
    <2>2. Begin[Len(taken)] \in Nat
      BY <1>4, <2>1 DEF Layout
    <2> QED
      BY <1>4, <1>5, <1>7, <2>2
  <1> DEFINE got == SubSeq(wire, 1, n)
  <1> HIDE DEF q
  <1>9. /\ wire \in Seq(Char) /\ Len(wire) = Len(Payload) - q
    <2>1. 0 \in 0 .. Len(wire)
      BY <1>2, <1>3
    <2> QED
      BY <1>4, <1>7, <1>8, <2>1, RestOfRest
  <1>10. n \in 0 .. Len(wire)
    BY <1>2, <1>3, <1>9, LenProperties
  <1>11. /\ q + n \in 0 .. Len(Payload) /\ wire' = SubSeq(Payload, q + n + 1, Len(Payload))
         /\ got \in Seq(Char) /\ Len(got) = n /\ \A j \in 1 .. n : got[j] = Payload[q + j]
    BY <1>2, <1>4, <1>7, <1>8, <1>10, RestOfRest, SMTT(20)
  <1> HIDE DEF got
  <1>12. /\ buf' \in Seq(Char) /\ Len(buf') = Len(buf) + n
         /\ \A j \in 1 .. Len(buf) + n : buf'[j] = IF j <= Len(buf) THEN buf[j] ELSE got[j - Len(buf)]
    <2>1. buf' = buf \o got
      BY <1>2 DEF got
    <2>2. /\ buf' \in Seq(Char) /\ Len(buf') = Len(buf) + Len(got)
          /\ \A j \in 1 .. Len(buf) + Len(got) :
               buf'[j] = IF j <= Len(buf) THEN buf[j] ELSE got[j - Len(buf)]
      BY <1>5, <1>11, <2>1, ConcatProperties
    <2>3. Len(got) = n
      BY <1>11
    <2> QED
      BY <2>2, <2>3
  <1>13. FlagsTyped'
    BY <1>12 DEF FetchInv, FlagsTyped, Recv
  <1>14. WireIsRest'
    BY <1>1, <1>11 DEF WireIsRest
  <1>15. TakenArePrefixes' /\ EndIsEnd'
    BY DEF FetchInv, TakenArePrefixes, EndIsEnd, Recv
  <1>16. InStep'
    <2>1. taken' = taken /\ lines' = lines /\ \A i \in 1 .. Len(taken) : taken[i] = lines[i]
      BY <1>7 DEF Recv, InStep
    <2>2. Begin[Len(taken)] + Len(buf') = q + n
      BY <1>3, <1>5, <1>8, <1>12 DEF q
    <2>3. ASSUME NEW j \in 1 .. Len(buf') PROVE buf'[j] = Payload[Begin[Len(taken)] + j]
      <3>1. j \in 1 .. Len(buf) + n
        BY <1>12
      <3>2. CASE j <= Len(buf)
        <4>1. j \in 1 .. Len(buf)
          BY <1>3, <1>5, <3>1, <3>2
        <4>2. buf'[j] = buf[j]
          BY <1>12, <3>1, <3>2
        <4>3. buf[j] = Payload[Begin[Len(taken)] + j]
          BY <1>7, <4>1 DEF InStep
        <4> QED
          BY <4>2, <4>3
      <3>3. CASE ~ (j <= Len(buf))
        <4>1. j - Len(buf) \in 1 .. n /\ q + (j - Len(buf)) = Begin[Len(taken)] + j
          BY <1>3, <1>5, <1>8, <3>1, <3>3 DEF q
        <4>2. buf'[j] = got[j - Len(buf)] /\ got[j - Len(buf)] = Payload[q + (j - Len(buf))]
          BY <1>11, <1>12, <3>1, <3>3, <4>1
        <4> QED
          BY <4>1, <4>2
      <3> QED
        BY <3>2, <3>3
    <2>4. /\ Begin[Len(taken)] + Len(buf') <= Len(Payload)
          /\ wire' = SubSeq(Payload, Begin[Len(taken)] + Len(buf') + 1, Len(Payload))
      <3>1. q + n <= Len(Payload)
        BY <1>11
      <3> QED
        BY <1>11, <2>2, <3>1, Zenon
    <2> QED
      BY <1>1, <2>1, <2>3, <2>4 DEF InStep
  <1> QED
    BY <1>1, <1>13, <1>14, <1>15, <1>16 DEF FetchInv


LEMMA StepTakeLine ==
    ASSUME FetchInv, TakeLine
    PROVE  FetchInv'
  <1> DEFINE k == Len(taken)
  <1>1. Sent /\ Sent' /\ Payload' = Payload /\ Begin' = Begin /\ lines' = lines
    BY BeginStays DEF FetchInv, TakeLine
  <1>2. /\ Payload \in Seq(Char) /\ Len(Payload) \in Nat /\ Layout(Begin) /\ buf \in Seq(Char)
        /\ Len(buf) \in Nat /\ taken \in Seq(Seq(Char)) /\ k \in Nat /\ Len(lines) \in Nat
        /\ k \in 0 .. Len(lines)
    BY SentLines, BeginIsLayout, LenProperties DEF FetchInv, FlagsTyped, TakenArePrefixes
  <1>3. WireIsRest' /\ UNCHANGED << wire, lost, atEof >>
    BY <1>1 DEF FetchInv, TakeLine, WireIsRest
  <1>4. buf' = RestKept /\ RestKept \in Seq(Char) /\ NextLine \in Seq(Char)
    BY <1>2, LineEndIsFirst DEF TakeLine
  <1>5. FlagsTyped'
    BY <1>3, <1>4, ReadLineReturns DEF FetchInv, FlagsTyped, TakesWhole, TakesCut, Ends
  <1>6. EndIsEnd'
    <2> SUFFICES ASSUME atEof PROVE wire = << >> /\ ~ HasLine'
      BY <1>3 DEF EndIsEnd
    <2>1. wire = << >> /\ ~ HasLine
      BY DEF FetchInv, EndIsEnd
    <2>2. buf' = << >>
      BY <1>4, <2>1 DEF RestKept
    <2>3. ~ HasLine'
      BY <2>2 DEF HasLine, LineEnds
    <2> QED
      BY <2>1, <2>3
  <1>7. CASE Ends
    BY <1>1, <1>3, <1>5, <1>6, <1>7 DEF Ends, FetchInv, TakenArePrefixes
  <1>8. CASE TakesWhole \/ TakesCut
    <2>1. /\ taken' = Append(taken, NextLine) /\ reading' = reading /\ k < Len(lines)
          /\ k + 1 \in 1 .. Len(lines) /\ \A i \in 1 .. k : taken[i] = lines[i]
      BY <1>2, <1>8 DEF TakesWhole, TakesCut, InStep
    <2>2. /\ taken' \in Seq(Seq(Char)) /\ Len(taken') = k + 1
          /\ \A i \in 1 .. k : taken'[i] = taken[i]
          /\ taken'[k + 1] = NextLine
      <3> DEFINE S == Seq(Char)
      <3>1. taken \in Seq(S) /\ NextLine \in S
        BY <1>2, <1>4
      <3> HIDE DEF S
      <3>2. /\ taken' \in Seq(S) /\ Len(taken') = Len(taken) + 1
            /\ \A i \in 1 .. Len(taken) : taken'[i] = taken[i]
            /\ taken'[Len(taken) + 1] = NextLine
        BY <2>1, <3>1, AppendProperties
      <3> QED
        BY <3>2 DEF S
    <2>3. \A i \in 1 .. Len(lines) :
            /\ lines[i] \in Seq(Token) /\ Len(lines[i]) \in Nat /\ Len(lines[i]) >= 10
            /\ lines[i] = SubSeq(lines[i], 1, Len(lines[i]))
      BY <1>1, SentLines, SubSeqFull
    <2>4. \E n \in 1 .. Len(lines[k + 1]) : NextLine = SubSeq(lines[k + 1], 1, n)
      <3>1. CASE TakesWhole
        BY <2>1, <2>3, <3>1 DEF TakesWhole
      <3> QED
        BY <1>8, <3>1 DEF TakesCut
    <2>5. TakenArePrefixes'
      <3>1. Len(taken') <= Len(lines)
        BY <1>2, <2>1, <2>2
      <3>2. ASSUME NEW i \in 1 .. Len(taken')
            PROVE  \E n \in 1 .. Len(lines[i]) :
                     taken'[i] = SubSeq(lines[i], 1, n) /\ (i < Len(taken') => n = Len(lines[i]))
        <4>1. CASE i = k + 1
          <5>1. PICK n \in 1 .. Len(lines[k + 1]) : NextLine = SubSeq(lines[k + 1], 1, n)
            BY <2>4
          <5>2. taken'[i] = SubSeq(lines[i], 1, n) /\ n \in 1 .. Len(lines[i]) /\ ~ (i < Len(taken'))
            BY <1>2, <2>2, <4>1, <5>1
          <5> QED
            BY <5>2
        <4>2. CASE i # k + 1
          <5>1. i \in 1 .. k /\ i \in 1 .. Len(lines)
            BY <1>2, <2>2, <4>2
          <5>2. taken'[i] = SubSeq(lines[i], 1, Len(lines[i])) /\ Len(lines[i]) \in 1 .. Len(lines[i])
            BY <2>1, <2>2, <2>3, <5>1
          <5> QED
            BY <5>2
        <4> QED
          BY <4>1, <4>2
      <3> QED
        BY <1>1, <2>2, <3>1, <3>2 DEF TakenArePrefixes
    <2>6. CASE TakesCut
      <3>1. atEof /\ ~ HasLine
        BY <2>6 DEF TakesCut
      <3>2. Over'
        BY <1>3, <1>4, <3>1 DEF Over, RestKept
      <3> QED
        BY <1>1, <1>3, <1>5, <1>6, <2>5, <3>2 DEF FetchInv
    <2>7. CASE TakesWhole
      <3>1. HasLine /\ InStep /\ NextLine = lines[k + 1]
        BY <2>7 DEF TakesWhole
      <3>2. /\ LineEnd \in 1 .. Len(buf) /\ Begin[k + 1] = Begin[k] + LineEnd /\ Begin[k] \in Nat
        BY <1>1, <1>2, <3>1, WholeLineIsNext
      <3>3. /\ Len(RestKept) = Len(buf) - LineEnd
            /\ \A j \in 1 .. Len(buf) - LineEnd : RestKept[j] = buf[LineEnd + j]
        BY <1>2, <3>1, LineEndIsFirst
      <3>4. \A i \in 1 .. Len(taken') : taken'[i] = lines[i]
        BY <1>2, <2>1, <2>2, <3>1
      <3>5. Begin[k + 1] + Len(RestKept) = Begin[k] + Len(buf)
        BY <1>2, <3>2, <3>3
      <3>6. ASSUME NEW j \in 1 .. Len(RestKept) PROVE RestKept[j] = Payload[Begin[k + 1] + j]
        <4>1. /\ j \in 1 .. Len(buf) - LineEnd /\ LineEnd + j \in 1 .. Len(buf)
              /\ Begin[k] + (LineEnd + j) = Begin[k + 1] + j
          BY <1>2, <3>2, <3>3
        <4>2. buf[LineEnd + j] = Payload[Begin[k] + (LineEnd + j)]
          BY <3>1, <4>1 DEF InStep
        <4> QED
          BY <3>3, <4>1, <4>2
      <3>7. /\ Begin[k + 1] + Len(RestKept) <= Len(Payload)
            /\ \/ lost /\ wire = << >>
               \/ wire = SubSeq(Payload, Begin[k + 1] + Len(RestKept) + 1, Len(Payload))
        BY <3>1, <3>5 DEF InStep
      <3>8. InStep'
        BY <1>1, <1>3, <1>4, <2>2, <3>4, <3>6, <3>7 DEF InStep
      <3> QED
        BY <1>1, <1>3, <1>5, <1>6, <2>5, <3>8 DEF FetchInv
    <2> QED
      BY <1>8, <2>6, <2>7
  <1> QED
    BY <1>7, <1>8, ReadLineReturns

LEMMA StepFetchInv ==
    ASSUME FetchInv, [Next]_vars
    PROVE  FetchInv'
  <1>1. CASE NoConnection
    <2>1. Sent' /\ Payload' = Payload /\ Begin' = Begin
      BY <1>1, BeginStays DEF FetchInv, NoConnection
    <2> QED
      BY <1>1, <2>1 DEF NoConnection, FetchInv, FlagsTyped, WireIsRest, TakenArePrefixes, EndIsEnd,
         HasLine, LineEnds, readerVars
  <1>2. CASE Lose
    <2>1. Sent' /\ Payload' = Payload /\ Begin' = Begin /\ Payload \in Seq(Char) /\ Len(Payload) \in Nat
      BY <1>2, BeginStays, BeginIsLayout DEF FetchInv, Lose
    <2>2. wire' = << >> /\ lost' = TRUE /\ UNCHANGED << answer, lines, buf, atEof, taken, reading >>
      BY <1>2 DEF Lose, readerVars
    <2>3. WireIsRest'
      <3>1. SubSeq(Payload, Len(Payload) + 1, Len(Payload)) = << >>
        BY <2>1, SubSeqEmpty
      <3>2. Len(Payload) \in 0 .. Len(Payload)
        BY <2>1
      <3> QED
        BY <2>1, <2>2, <3>1, <3>2 DEF WireIsRest
    <2>4. FlagsTyped' /\ TakenArePrefixes' /\ EndIsEnd'
      BY <2>2 DEF FetchInv, FlagsTyped, TakenArePrefixes, EndIsEnd, HasLine, LineEnds
    <2>5. (reading => InStep \/ Over)'
      BY <2>1, <2>2 DEF FetchInv, InStep, Over
    <2> QED
      BY <2>1, <2>3, <2>4, <2>5 DEF FetchInv
  <1>3. CASE Recv
    BY <1>3, StepRecv
  <1>4. CASE RecvEnd
    <2>1. Sent' /\ Payload' = Payload /\ Begin' = Begin
      BY <1>4, BeginStays DEF FetchInv, RecvEnd
    <2>2. /\ reading /\ ~ HasLine /\ ~ atEof /\ wire = << >> /\ atEof' = TRUE
          /\ UNCHANGED << answer, lines, wire, lost, buf, taken, reading >>
      BY <1>4 DEF RecvEnd
    <2>3. WireIsRest' /\ FlagsTyped' /\ TakenArePrefixes' /\ EndIsEnd'
      BY <2>1, <2>2 DEF FetchInv, FlagsTyped, WireIsRest, TakenArePrefixes, EndIsEnd, HasLine, LineEnds
    <2>4. (reading => InStep \/ Over)'
      BY <2>1, <2>2 DEF FetchInv, InStep, Over
    <2> QED
      BY <2>1, <2>3, <2>4 DEF FetchInv
  <1>5. CASE TakeLine
    BY <1>5, StepTakeLine
  <1>6. CASE UNCHANGED vars
    <2>1. Sent' /\ Payload' = Payload /\ Begin' = Begin
      BY <1>6, BeginStays DEF FetchInv, vars
    <2> QED
      BY <1>6, <2>1 DEF vars, readerVars, FetchInv, FlagsTyped, WireIsRest, TakenArePrefixes, EndIsEnd,
         HasLine, LineEnds, InStep, Over
  <1> QED
    BY <1>1, <1>2, <1>3, <1>4, <1>5, <1>6 DEF Next

\* What fetchChain has of an answer is a beginning of it, and what is in the
\* buffer and on the wire is what follows, until the connection breaks.
THEOREM FetchInvariant == Spec => []FetchInv
  <1>1. Init => FetchInv
    BY InitFetchInv
  <1>2. FetchInv /\ [Next]_vars => FetchInv'
    BY StepFetchInv
  <1> QED
    BY <1>1, <1>2, PTL DEF Spec

------------------------------------------------------------------------------
\* Chunks implement the delivery of lines

\* Nothing has been taken while everything is still to come.
LEMMA NothingYet ==
    ASSUME FetchInv, NoConnection
    PROVE  Len(taken) = 0 /\ ~ atEof
  <1>1. Sent /\ reading /\ wire = Payload
    BY DEF FetchInv, NoConnection
  <1>2. Payload \in Seq(Char) /\ Len(Payload) \in Nat /\ Layout(Begin) /\ Len(lines) \in Nat
    BY <1>1, SentLines, BeginIsLayout
  <1>3. Len(taken) \in 0 .. Len(lines) /\ buf \in Seq(Char) /\ Len(buf) \in Nat
    BY <1>2, LenProperties DEF FetchInv, TakenArePrefixes, FlagsTyped
  <1>4. Len(Payload) > 0
    BY <1>1, PayloadNotEmpty
  <1>5. wire # << >> /\ ~ atEof
    <2>1. wire # << >>
      BY <1>1, <1>2, <1>4, EmptySeq
    <2> QED
      BY <2>1 DEF FetchInv, EndIsEnd
  <1> DEFINE k == Len(taken)
             q == Begin[k] + Len(buf)
  <1>6. wire = SubSeq(Payload, q + 1, Len(Payload)) /\ q <= Len(Payload)
    BY <1>1, <1>5 DEF FetchInv, Over, InStep
  <1>7. Begin[k] \in Nat /\ q \in 0 .. Len(Payload)
    <2>1. Begin[k] \in Nat
      BY <1>2, <1>3 DEF Layout
    <2> QED
      BY <1>2, <1>3, <1>6, <2>1
  <1>8. q = 0
    <2> HIDE DEF q
    <2>1. 0 \in 0 .. Len(wire)
      BY <1>1, <1>2
    <2>2. Len(wire) = Len(Payload) - q
      BY <1>2, <1>6, <1>7, <2>1, RestOfRest
    <2> QED
      BY <1>1, <1>2, <1>7, <2>2
  <1>9. Begin[k] = 0
    BY <1>3, <1>7, <1>8
  <1>10. k = 0
    <2> SUFFICES ASSUME k \in 1 .. Len(lines) + 1 PROVE FALSE
      BY <1>2, <1>3
    <2>1. Len(Wanted(k)) \in Nat
      BY <1>1, WantedLines
    <2>2. k - 1 \in 0 .. Len(lines) + 1
      BY <1>2, <1>3
    <2>3. Begin[k] = Begin[k - 1] + Len(Wanted(k)) + 1 /\ Begin[k - 1] \in Nat
      BY <1>2, <2>2 DEF Layout
    <2> HIDE DEF k
    <2> QED
      BY <1>9, <2>1, <2>3
  <1> QED
    BY <1>5, <1>10

LEMMA StepOfDelivery ==
    ASSUME FetchInv, [Next]_vars
    PROVE  \/ Delivered!Whole \/ Delivered!Break \/ Delivered!Done
           \/ UNCHANGED Delivered!deliveryVars
  <1> DEFINE stage == IF ~ reading THEN "done"
                      ELSE IF atEof /\ buf = << >> THEN "broken" ELSE "reading"
  <1>1. /\ Len(taken) \in Nat /\ Len(lines) \in Nat /\ Len(taken) <= Len(lines) /\ reading \in BOOLEAN
        /\ atEof \in BOOLEAN
    BY SentLines, LenProperties DEF FetchInv, TakenArePrefixes, FlagsTyped
  <1>2. CASE NoConnection
    <2>1. Len(taken) = 0 /\ ~ atEof
      BY <1>2, NothingYet
    <2> QED
      BY <1>2, <2>1 DEF NoConnection, Delivered!Done, readerVars
  <1>3. CASE Lose
    BY <1>3 DEF Lose, readerVars, Delivered!deliveryVars
  <1>4. CASE Recv
    BY <1>4 DEF Recv, Delivered!deliveryVars
  <1>5. CASE RecvEnd
    <2>1. CASE buf = << >>
      BY <1>5, <2>1 DEF RecvEnd, Delivered!Break
    <2>2. CASE buf # << >>
      BY <1>5, <2>2 DEF RecvEnd, Delivered!deliveryVars
    <2> QED
      BY <2>1, <2>2
  <1>6. CASE TakeLine
    <2>1. UNCHANGED << lines, atEof >> /\ reading /\ buf' = RestKept
      BY <1>6 DEF TakeLine
    <2>2. CASE TakesWhole
      BY <2>1, <2>2 DEF TakesWhole, Delivered!Whole, Delivered!NextLine
    <2>3. CASE TakesCut
      <3>1. /\ ~ HasLine /\ atEof /\ buf # << >> /\ Len(taken) < Len(lines)
            /\ taken' = Append(taken, NextLine) /\ UNCHANGED reading
        BY <2>3 DEF TakesCut
      <3>2. PICK n \in 1 .. Len(lines[Len(taken) + 1]) : NextLine = SubSeq(lines[Len(taken) + 1], 1, n)
        BY <2>3 DEF TakesCut
      <3>3. buf' = << >>
        BY <2>1, <3>1 DEF RestKept
      <3>4. Delivered!NextLine = lines[Len(taken) + 1]
        BY <3>1 DEF Delivered!NextLine
      <3>5. n \in DOMAIN Delivered!NextLine
        <4>1. Len(taken) + 1 \in 1 .. Len(lines)
          BY <1>1, <3>1
        <4>2. lines[Len(taken) + 1] \in Seq(Token)
          BY <4>1, SentLines DEF FetchInv
        <4> QED
          BY <3>2, <3>4, <4>2, LenProperties
      <3>6. taken' = Append(taken, SubSeq(Delivered!NextLine, 1, n))
        BY <3>1, <3>2, <3>4
      <3>7. stage = "reading" /\ stage' = "broken"
        BY <2>1, <3>1, <3>3
      <3> QED
        BY <2>1, <3>5, <3>6, <3>7 DEF Delivered!Break
    <2>4. CASE Ends
      <3>1. stage \in {"broken", "reading"} /\ (~ (atEof /\ buf = << >>) => Len(taken) = Len(lines))
        BY <2>1, <2>4 DEF Ends, Over
      <3>2. stage' = "done" /\ UNCHANGED taken
        BY <2>4 DEF Ends
      <3> QED
        BY <2>1, <3>1, <3>2 DEF Delivered!Done
    <2> QED
      BY <1>6, <2>2, <2>3, <2>4, ReadLineReturns
  <1>7. CASE UNCHANGED vars
    BY <1>7 DEF vars, readerVars, Delivered!deliveryVars
  <1> QED
    BY <1>2, <1>3, <1>4, <1>5, <1>6, <1>7 DEF Next

\* However the bytes of the answer are cut into sends and receives, fetchChain's
\* list grows by whole lines in their order, and at a break at most by the
\* beginning of one (sockets_compat.hpp:125-149, peer_client.hpp:56-66).
THEOREM DeliveryRefined == Spec => ImplementsDelivery
  <1>1. Init => Delivered!Init
    BY DEF Init, Delivered!Init
  <1>2. FetchInv /\ [Next]_vars
          => [Delivered!Whole \/ Delivered!Break \/ Delivered!Done]_(Delivered!deliveryVars)
    BY StepOfDelivery
  <1> QED
    BY <1>1, <1>2, FetchInvariant, PTL DEF Spec, ImplementsDelivery, Delivered!Spec


------------------------------------------------------------------------------
\* Fields

\* `at` lists the n separators of a text in their order, between the places in
\* front of it and behind it.
CutsAt(text, sep, n, at) ==
    /\ n \in Nat /\ at[0] = 0 /\ at[n + 1] = Len(text) + 1
    /\ \A k \in 1 .. n : text[at[k]] = sep
    /\ \A k \in 1 .. n + 1 :
         /\ at[k - 1] \in 0 .. Len(text) /\ at[k] \in 1 .. Len(text) + 1 /\ at[k - 1] < at[k]
         /\ k <= n => at[k] <= Len(text)
         /\ \A i \in at[k - 1] + 1 .. at[k] - 1 : text[i] # sep

\* What is between them.
Fields(text, n, at) == [k \in 1 .. n + 1 |-> SubSeq(text, at[k - 1] + 1, at[k] - 1)]

LEMMA FieldsAre ==
    ASSUME NEW text, NEW sep, NEW n, NEW at, CutsAt(text, sep, n, at)
    PROVE  /\ n \in Nat /\ Len(Fields(text, n, at)) = n + 1
           /\ \A k \in 1 .. n + 1 : Fields(text, n, at)[k] = SubSeq(text, at[k - 1] + 1, at[k] - 1)
  <1> DEFINE N == n + 1
             f == Fields(text, n, at)
             field == [k \in 1 .. N |-> SubSeq(text, at[k - 1] + 1, at[k] - 1)]
  <1>1. n \in Nat /\ N \in Nat /\ f = field
    BY DEF CutsAt, Fields
  <1>2. \A k \in 1 .. N : field[k] = SubSeq(text, at[k - 1] + 1, at[k] - 1)
    OBVIOUS
  <1>3. field = [k \in 1 .. N |-> field[k]]
    OBVIOUS
  <1> HIDE DEF N, f, field
  <1>4. Len(f) = N
    BY <1>1, <1>3
  <1> QED
    BY <1>1, <1>2, <1>4 DEF N, f

LEMMA FieldsType ==
    ASSUME NEW text, NEW sep, NEW n, NEW at, CutsAt(text, sep, n, at), NEW S,
           \A k \in 1 .. n + 1 : SubSeq(text, at[k - 1] + 1, at[k] - 1) \in S
    PROVE  Fields(text, n, at) \in Seq(S)
  <1> DEFINE N == n + 1
             field == [k \in 1 .. N |-> SubSeq(text, at[k - 1] + 1, at[k] - 1)]
  <1>1. N \in Nat /\ Fields(text, n, at) = field
    BY DEF CutsAt, Fields
  <1>2. field = [k \in 1 .. N |-> field[k]] /\ \A k \in 1 .. N : field[k] \in S
    OBVIOUS
  <1> HIDE DEF N, field
  <1>3. field \in Seq(S)
    BY <1>1, <1>2
  <1> QED
    BY <1>1, <1>3

\* Split cuts a text at its separators, all of them.
LEMMA SplitLayout ==
    ASSUME NEW U, NEW text \in Seq(U), NEW sep
    PROVE  \E n, at : CutsAt(text, sep, n, at) /\ Split(text, sep) = Fields(text, n, at)
  <1> DEFINE L == Len(text)
             seps == { i \in DOMAIN text : text[i] = sep }
             n == Cardinality(seps)
             upTo(i) == { j \in seps : j <= i }
             c == [i \in 0 .. L |-> Cardinality(upTo(i))]
  <1>1. L \in Nat /\ DOMAIN text = 1 .. L
    BY LenProperties
  <1>2. seps \subseteq 1 .. L /\ \A i \in 1 .. L : i \in seps <=> text[i] = sep
    BY <1>1
  <1> HIDE DEF L
  <1>3. IsFiniteSet(seps) /\ n \in Nat
    <2>1. IsFiniteSet(1 .. L)
      BY <1>1, FS_Interval
    <2> HIDE DEF seps
    <2> QED
      BY <1>2, <2>1, FS_Subset, FS_CardinalityType
  <1>4. \A i \in 0 .. L : IsFiniteSet(upTo(i)) /\ Cardinality(upTo(i)) \in Nat
    <2> SUFFICES ASSUME NEW i \in 0 .. L PROVE IsFiniteSet(upTo(i)) /\ Cardinality(upTo(i)) \in Nat
      OBVIOUS
    <2>1. upTo(i) \subseteq seps
      OBVIOUS
    <2> HIDE DEF upTo, seps
    <2> QED
      BY <1>3, <2>1, FS_Subset, FS_CardinalityType
  <1>5. c \in [0 .. L -> Nat] /\ \A i \in 0 .. L : c[i] = Cardinality(upTo(i))
    BY <1>4
  <1> HIDE DEF c
  <1>6. c[0] = 0
    <2>1. upTo(0) = {}
      BY <1>1, <1>2
    <2> HIDE DEF upTo
    <2>2. 0 \in 0 .. L
      BY <1>1
    <2>3. Cardinality(upTo(0)) = 0
      BY <2>1, FS_EmptySet, Zenon
    <2> QED
      BY <1>5, <2>2, <2>3
  <1>7. c[L] = n
    <2>1. upTo(L) = seps
      BY <1>1, <1>2
    <2> HIDE DEF upTo, seps
    <2> QED
      BY <1>1, <1>5, <2>1
  <1>8. ASSUME NEW i \in 0 .. L, NEW j \in 0 .. L, i <= j
        PROVE  c[i] <= c[j]
    <2>1. upTo(i) \subseteq upTo(j)
      BY <1>1, <1>2, <1>8
    <2> HIDE DEF upTo
    <2> QED
      BY <1>4, <1>5, <2>1, FS_Subset
  <1>9. ASSUME NEW i \in 1 .. L
        PROVE  c[i] = IF i \in seps THEN c[i - 1] + 1 ELSE c[i - 1]
    <2>1. i - 1 \in 0 .. L /\ i \in 0 .. L
      BY <1>1
    <2>2. CASE i \in seps
      <3>1. upTo(i) = upTo(i - 1) \cup {i} /\ i \notin upTo(i - 1)
        BY <1>1, <1>2, <2>2
      <3> HIDE DEF upTo, seps
      <3>2. Cardinality(upTo(i)) = Cardinality(upTo(i - 1)) + 1
        BY <1>4, <2>1, <3>1, FS_AddElement
      <3> QED
        BY <1>5, <2>1, <2>2, <3>2
    <2>3. CASE i \notin seps
      <3>1. upTo(i) = upTo(i - 1)
        <4>1. \A j \in seps : j <= i <=> j <= i - 1
          BY <1>1, <1>2, <2>3
        <4> QED
          BY <4>1
      <3> HIDE DEF upTo, seps
      <3> QED
        BY <1>5, <2>1, <2>3, <3>1
    <2> QED
      BY <2>2, <2>3
  <1>10. ASSUME NEW i \in 0 .. L, NEW j \in seps, i < j
         PROVE  c[i] + 1 <= c[j] /\ j \in 1 .. L
    <2>1. j \in 1 .. L /\ j - 1 \in 0 .. L /\ j \in 0 .. L /\ i <= j - 1
      BY <1>1, <1>2, <1>10
    <2>2. c[i] <= c[j - 1] /\ c[j] = c[j - 1] + 1
      BY <1>8, <1>9, <2>1
    <2>3. c[i] \in Nat /\ c[j - 1] \in Nat
      BY <1>5, <2>1
    <2> QED
      BY <2>1, <2>2, <2>3
  <1>11. ASSUME NEW k \in 1 .. n
         PROVE  \E i \in seps : Cardinality(upTo(i)) = k
    <2> DEFINE S == { i \in 0 .. L : c[i] >= k }
    <2>1. S \in SUBSET Nat /\ S # {}
      <3>1. L \in S
        BY <1>1, <1>3, <1>7
      <3> QED
        BY <1>1, <3>1
    <2>2. PICK m \in S : \A i \in S : m <= i
      <3> HIDE DEF S
      <3> QED
        BY <2>1, LeastElement
    <2>3. m \in 0 .. L /\ c[m] >= k /\ m # 0
      BY <1>3, <1>6
    <2>4. m \in 1 .. L /\ m - 1 \in 0 .. L /\ c[m - 1] \in Nat /\ ~ (c[m - 1] >= k)
      <3>1. m \in 1 .. L /\ m - 1 \in 0 .. L
        BY <1>1, <2>3
      <3>2. m - 1 \notin S
        BY <2>2, <3>1
      <3> QED
        BY <1>5, <3>1, <3>2
    <2>5. m \in seps /\ c[m] = k
      <3>1. c[m] = IF m \in seps THEN c[m - 1] + 1 ELSE c[m - 1]
        BY <1>9, <2>4
      <3> HIDE DEF seps
      <3> QED
        BY <1>3, <2>3, <2>4, <3>1
    <2>6. Cardinality(upTo(m)) = k
      <3> HIDE DEF upTo
      <3> QED
        BY <1>5, <2>3, <2>5
    <2> QED
      BY <2>5, <2>6
  <1> DEFINE at == [k \in 0 .. n + 1 |->
                      CASE k = 0 -> 0
                        [] k = n + 1 -> L + 1
                        [] OTHER -> CHOOSE i \in seps : Cardinality(upTo(i)) = k]
  <1>12. Split(text, sep) = [k \in 1 .. n + 1 |-> SubSeq(text, at[k - 1] + 1, at[k] - 1)]
    BY DEF Split, L
  <1>13. at[0] = 0 /\ at[n + 1] = L + 1
    BY <1>3
  <1>14. \A k \in 1 .. n : at[k] \in seps /\ Cardinality(upTo(at[k])) = k
    <2> SUFFICES ASSUME NEW k \in 1 .. n PROVE at[k] \in seps /\ Cardinality(upTo(at[k])) = k
      OBVIOUS
    <2> DEFINE x == CHOOSE i \in seps : Cardinality(upTo(i)) = k
    <2>1. at[k] = x
      BY <1>3
    <2>2. x \in seps /\ Cardinality(upTo(x)) = k
      <3> HIDE DEF seps, upTo
      <3> QED
        BY <1>11
    <2> HIDE DEF x, at, upTo, seps
    <2> QED
      BY <2>1, <2>2
  <1> HIDE DEF at, n, upTo
  <1>15. /\ at[0] \in 0 .. L /\ c[at[0]] = 0
         /\ \A k \in 1 .. n : at[k] \in seps /\ at[k] \in 0 .. L /\ at[k] \in 1 .. L /\ c[at[k]] = k
    <2>1. \A k \in 1 .. n : at[k] \in seps /\ at[k] \in 0 .. L /\ at[k] \in 1 .. L
      BY <1>1, <1>2, <1>14
    <2> HIDE DEF seps
    <2> QED
      BY <1>1, <1>5, <1>6, <1>13, <1>14, <2>1
  <1>17. ASSUME NEW k \in 1 .. n + 1
         PROVE  /\ at[k - 1] < at[k]
                /\ \A i \in at[k - 1] + 1 .. at[k] - 1 : text[i] # sep
    <2>1. k - 1 \in 0 .. n /\ (k - 1 = 0 \/ k - 1 \in 1 .. n) /\ (k \in 1 .. n \/ k = n + 1)
      BY <1>3
    <2>2. at[k - 1] \in 0 .. L /\ c[at[k - 1]] = k - 1
      BY <1>15, <2>1
    <2>3. CASE k \in 1 .. n
      <3>1. at[k] \in seps /\ at[k] \in 1 .. L /\ c[at[k]] = k /\ at[k] \in 0 .. L
        BY <1>15, <2>3
      <3>2. at[k - 1] < at[k]
        <4> SUFFICES ASSUME at[k] <= at[k - 1] PROVE FALSE
          BY <1>1, <2>2, <3>1
        <4>1. k <= k - 1
          BY <1>8, <2>2, <3>1
        <4> QED
          BY <1>3, <4>1
      <3>3. ASSUME NEW i \in at[k - 1] + 1 .. at[k] - 1, text[i] = sep PROVE FALSE
        <4>1. i \in 1 .. L /\ i \in 0 .. L /\ at[k - 1] < i /\ i < at[k]
          BY <1>1, <2>2, <3>1
        <4>2. i \in seps
          BY <1>2, <3>3, <4>1
        <4>3. k - 1 + 1 <= c[i] /\ c[i] + 1 <= k
          BY <1>10, <2>2, <3>1, <4>1, <4>2
        <4>4. c[i] \in Nat
          BY <1>5, <4>1
        <4> QED
          BY <1>3, <4>3, <4>4
      <3> QED
        BY <3>2, <3>3
    <2>4. CASE k = n + 1
      <3>1. at[k] = L + 1
        BY <1>13, <2>4
      <3>2. at[k - 1] < at[k]
        BY <1>1, <2>2, <3>1
      <3>3. ASSUME NEW i \in at[k - 1] + 1 .. at[k] - 1, text[i] = sep PROVE FALSE
        <4>1. i \in 1 .. L /\ i \in 0 .. L /\ at[k - 1] < i /\ i <= L /\ L \in 0 .. L
          BY <1>1, <2>2, <3>1
        <4>2. i \in seps
          BY <1>2, <3>3, <4>1
        <4>3. k - 1 + 1 <= c[i] /\ c[i] <= n
          BY <1>7, <1>8, <1>10, <2>2, <4>1, <4>2
        <4>4. c[i] \in Nat
          BY <1>5, <4>1
        <4> QED
          BY <1>3, <2>4, <4>3, <4>4
      <3> QED
        BY <3>2, <3>3
    <2> QED
      BY <2>1, <2>3, <2>4
  <1>18. \A k \in 1 .. n : text[at[k]] = sep
    BY <1>2, <1>15
  <1> HIDE DEF seps
  <1>19. ASSUME NEW k \in 1 .. n + 1
         PROVE  /\ at[k - 1] \in 0 .. L /\ at[k] \in 1 .. L + 1
                /\ k <= n => at[k] <= L
    <2>1. (k - 1 = 0 \/ k - 1 \in 1 .. n) /\ (k \in 1 .. n \/ k = n + 1)
      BY <1>3
    <2> QED
      BY <1>1, <1>3, <1>13, <1>15, <2>1
  <1>20. CutsAt(text, sep, n, at)
    BY <1>3, <1>13, <1>17, <1>18, <1>19 DEF CutsAt, L
  <1>21. Split(text, sep) = Fields(text, n, at)
    BY <1>12 DEF Fields
  <1> HIDE DEF n, at
  <1> QED
    BY <1>20, <1>21

\* What a field holds.
LEMMA FieldType ==
    ASSUME NEW U, NEW V, NEW text \in Seq(U), NEW sep, NEW n, NEW at, CutsAt(text, sep, n, at),
           NEW k \in 1 .. n + 1, \A i \in at[k - 1] + 1 .. at[k] - 1 : i \in 1 .. Len(text) => text[i] \in V
    PROVE  SubSeq(text, at[k - 1] + 1, at[k] - 1) \in Seq(V)
  <1> DEFINE x == at[k - 1] + 1
             y == at[k] - 1
  <1>1. Len(text) \in Nat /\ at[k - 1] \in 0 .. Len(text) /\ at[k] \in 1 .. Len(text) + 1
    BY LenProperties DEF CutsAt
  <1>2. x \in Int /\ y \in Int /\ \A i \in x .. y : i \in 1 .. Len(text)
    BY <1>1
  <1>3. \A i \in x .. y : text[i] \in V
    BY <1>2
  <1> HIDE DEF x, y
  <1>4. SubSeq(text, x, y) \in Seq(V)
    BY <1>2, <1>3, SubSeqProperties
  <1> QED
    BY <1>4 DEF x, y

LEMMA SplitType ==
    ASSUME NEW U, NEW text \in Seq(U), NEW sep
    PROVE  Split(text, sep) \in Seq(Seq(U))
  <1>1. PICK n, at : CutsAt(text, sep, n, at) /\ Split(text, sep) = Fields(text, n, at)
    BY SplitLayout
  <1>2. \A i \in 1 .. Len(text) : text[i] \in U
    BY ElementOfSeq
  <1>3. ASSUME NEW k \in 1 .. n + 1 PROVE SubSeq(text, at[k - 1] + 1, at[k] - 1) \in Seq(U)
    BY <1>1, <1>2, FieldType
  <1> DEFINE S == Seq(U)
  <1>4. \A k \in 1 .. n + 1 : SubSeq(text, at[k - 1] + 1, at[k] - 1) \in S
    BY <1>3
  <1> HIDE DEF S
  <1>5. Fields(text, n, at) \in Seq(S)
    BY <1>1, <1>4, FieldsType
  <1> QED
    BY <1>1, <1>5 DEF S

\* A field of one token.
LEMMA OneToken ==
    ASSUME NEW U, NEW text \in Seq(U), NEW i \in 1 .. Len(text)
    PROVE  SubSeq(text, i, i)[1] = text[i]
  <1>1. Len(text) \in Nat /\ \A j \in 1 .. Len(text) : text[j] \in U
    BY LenProperties, ElementOfSeq
  <1>2. i \in Int /\ \A j \in i .. i : text[j] \in U
    BY <1>1
  <1>3. \A j \in 1 .. i - i + 1 : SubSeq(text, i, i)[j] = text[i + j - 1]
    BY <1>2, SubSeqProperties
  <1>4. 1 \in 1 .. i - i + 1 /\ i + 1 - 1 = i
    OBVIOUS
  <1> QED
    BY <1>3, <1>4

\* The beginning of a text.
LEMMA BeginningOf ==
    ASSUME NEW U, NEW text \in Seq(U), NEW m \in 0 .. Len(text)
    PROVE  /\ SubSeq(text, 1, m) \in Seq(U) /\ Len(SubSeq(text, 1, m)) = m
           /\ \A i \in 1 .. m : SubSeq(text, 1, m)[i] = text[i]
  <1>1. Len(text) \in Nat /\ \A i \in 1 .. Len(text) : text[i] \in U
    BY LenProperties, ElementOfSeq
  <1>2. m \in Int /\ m >= 0 /\ \A i \in 1 .. m : text[i] \in U
    BY <1>1
  <1>3. /\ SubSeq(text, 1, m) \in Seq(U)
        /\ Len(SubSeq(text, 1, m)) = IF 1 <= m THEN m - 1 + 1 ELSE 0
        /\ \A i \in 1 .. m - 1 + 1 : SubSeq(text, 1, m)[i] = text[1 + i - 1]
    BY <1>2, SubSeqProperties
  <1>4. \A i \in 1 .. m : 1 + i - 1 = i /\ i \in 1 .. m - 1 + 1
    BY <1>2
  <1> QED
    BY <1>2, <1>3, <1>4

\* A beginning of a block's line, as FromLine finds it.
Begins(line, b) ==
    /\ line \in Seq(Token) /\ Len(line) \in 1 .. Len(ToLine(b))
    /\ \A i \in 1 .. Len(line) : line[i] = ToLine(b)[i]

\* One bar of the first five after the other.
LEMMA NextBar ==
    ASSUME NEW b \in BlockSet, NEW line, Begins(line, b), NEW n, NEW at, CutsAt(line, Bar, n, at),
           NEW k \in 1 .. 5, k <= n + 1, at[k - 1] = 2 * (k - 1), n >= 5 \/ Len(line) >= 10
    PROVE  at[k] = 2 * k /\ k <= n /\ 2 * k <= Len(line)
  <1> DEFINE m == Len(line)
             x == at[k]
  <1>1. /\ \A i \in {1, 3, 5, 7, 9} : ToLine(b)[i] # Bar
        /\ \A i \in {2, 4, 6, 8, 10} : ToLine(b)[i] = Bar
    <2> DEFINE t == ToLine(b)
    <2>1. /\ t[1] = b.height /\ t[3] = b.stamp /\ t[5] = b.difficulty /\ t[7] = b.zeros
          /\ t[9] = b.prev /\ \A i \in {2, 4, 6, 8, 10} : t[i] = Bar
      BY ToLineLayout
    <2> HIDE DEF t
    <2>2. \A i \in {1, 3, 5, 7, 9} : t[i] # Bar
      BY <2>1, BlockFields, WireAssumption
    <2> QED
      BY <2>1, <2>2 DEF t
  <1>2. m \in Nat /\ n \in Nat /\ \A i \in 1 .. m : line[i] = ToLine(b)[i]
    BY LenProperties DEF Begins, CutsAt
  <1>3. /\ x \in 1 .. m + 1 /\ 2 * (k - 1) < x
        /\ k <= n => x <= m /\ line[x] = Bar
        /\ ~ (k <= n) => x = m + 1
        /\ \A i \in 2 * (k - 1) + 1 .. x - 1 : line[i] # Bar
    <2>1. k \in 1 .. n + 1 /\ (k <= n => k \in 1 .. n) /\ (~ (k <= n) => k = n + 1)
      BY <1>2
    <2> QED
      BY <2>1 DEF CutsAt
  <1> HIDE DEF m, x
  <1>4. 2 * k - 1 \in {1, 3, 5, 7, 9} /\ 2 * k \in {2, 4, 6, 8, 10} /\ 2 * k <= 10
    OBVIOUS
  <1>5. ~ (x > 2 * k /\ 2 * k <= m)
    <2> SUFFICES ASSUME x > 2 * k, 2 * k <= m PROVE FALSE
      OBVIOUS
    <2>1. 2 * k \in 2 * (k - 1) + 1 .. x - 1 /\ 2 * k \in 1 .. m
      BY <1>2, <1>3
    <2> QED
      BY <1>1, <1>2, <1>3, <1>4, <2>1
  <1>6. k <= n
    <2> SUFFICES ASSUME ~ (k <= n) PROVE FALSE
      OBVIOUS
    <2>1. m >= 10 /\ x = m + 1
      BY <1>2, <1>3 DEF m
    <2> QED
      BY <1>2, <1>4, <1>5, <2>1
  <1>7. x # 2 * k - 1
    BY <1>1, <1>2, <1>3, <1>4, <1>6
  <1>8. x = 2 * k
    BY <1>2, <1>3, <1>5, <1>6, <1>7
  <1> QED
    BY <1>3, <1>6, <1>8 DEF m, x

LEMMA FirstBars ==
    ASSUME NEW b \in BlockSet, NEW line, Begins(line, b), NEW n, NEW at, CutsAt(line, Bar, n, at),
           n >= 5 \/ Len(line) >= 10
    PROVE  /\ n >= 5 /\ Len(line) >= 10
           /\ at[0] = 0 /\ at[1] = 2 /\ at[2] = 4 /\ at[3] = 6 /\ at[4] = 8 /\ at[5] = 10
  <1>1. n \in Nat /\ at[0] = 0
    BY DEF CutsAt
  <1>2. at[1] = 2 /\ 1 <= n
    <2>1. 1 \in 1 .. 5 /\ 1 <= n + 1 /\ at[1 - 1] = 2 * (1 - 1) /\ 2 * 1 = 2
      BY <1>1
    <2> QED
      BY <2>1, NextBar
  <1>3. at[2] = 4 /\ 2 <= n
    <2>1. 2 \in 1 .. 5 /\ 2 <= n + 1 /\ at[2 - 1] = 2 * (2 - 1) /\ 2 * 2 = 4
      BY <1>1, <1>2
    <2> QED
      BY <2>1, NextBar
  <1>4. at[3] = 6 /\ 3 <= n
    <2>1. 3 \in 1 .. 5 /\ 3 <= n + 1 /\ at[3 - 1] = 2 * (3 - 1) /\ 2 * 3 = 6
      BY <1>1, <1>3
    <2> QED
      BY <2>1, NextBar
  <1>5. at[4] = 8 /\ 4 <= n
    <2>1. 4 \in 1 .. 5 /\ 4 <= n + 1 /\ at[4 - 1] = 2 * (4 - 1) /\ 2 * 4 = 8
      BY <1>1, <1>4
    <2> QED
      BY <2>1, NextBar
  <1>6. at[5] = 10 /\ 5 <= n /\ 10 <= Len(line)
    <2>1. 5 \in 1 .. 5 /\ 5 <= n + 1 /\ at[5 - 1] = 2 * (5 - 1) /\ 2 * 5 = 10
      BY <1>1, <1>5
    <2> QED
      BY <2>1, NextBar
  <1> QED
    BY <1>1, <1>2, <1>3, <1>4, <1>5, <1>6

\* The first five bars of a line, or of a beginning that holds them, part the
\* first five fields; what follows holds tokens of the texts.
LEMMA LineFields ==
    ASSUME NEW b \in BlockSet, NEW line, Begins(line, b), NEW f, f = Split(line, Bar)
    PROVE  /\ Len(f) \in Nat /\ Len(line) >= 10 => Len(f) >= 6
           /\ Len(f) >= 6 =>
                /\ f[1][1] = b.height /\ f[2][1] = b.stamp /\ f[3][1] = b.difficulty
                /\ f[4][1] = b.zeros /\ f[5][1] = b.prev
                /\ SubSeq(f, 6, Len(f)) \in Seq(Seq(Tokens))
  <1> DEFINE J == Join(b.txs, Comma)
             t == ToLine(b)
             m == Len(line)
  <1>1. /\ J \in Seq(Tokens) /\ t \in Seq(Token) /\ Len(t) = 10 + Len(J)
        /\ t[1] = b.height /\ t[3] = b.stamp /\ t[5] = b.difficulty
        /\ t[7] = b.zeros /\ t[9] = b.prev
        /\ \A i \in 1 .. Len(J) : t[10 + i] = J[i]
    BY ToLineLayout
  <1>2. Len(J) \in Nat /\ Len(t) \in Nat
    BY <1>1, LenProperties
  <1> HIDE DEF J, t
  <1>3. Len(line) = m /\ line \in Seq(Token) /\ \A i \in 1 .. m : line[i] = t[i]
    BY DEF t, Begins
  <1>4. m \in Nat /\ m <= 10 + Len(J)
    BY <1>1, <1>2 DEF t, Begins
  <1> HIDE DEF m
  <1>5. PICK n, at : CutsAt(line, Bar, n, at) /\ Split(line, Bar) = Fields(line, n, at)
    <2>1. line \in Seq(Token)
      BY <1>3
    <2> QED
      BY <2>1, SplitLayout
  <1>6. /\ n \in Nat /\ Len(f) = n + 1
        /\ \A k \in 1 .. n + 1 : f[k] = SubSeq(line, at[k - 1] + 1, at[k] - 1)
    <2>1. f = Fields(line, n, at)
      BY <1>5
    <2> QED
      BY <1>5, <2>1, FieldsAre
  <1>7. ASSUME Len(f) >= 6
        PROVE  /\ f[1][1] = b.height /\ f[2][1] = b.stamp /\ f[3][1] = b.difficulty
               /\ f[4][1] = b.zeros /\ f[5][1] = b.prev
               /\ SubSeq(f, 6, Len(f)) \in Seq(Seq(Tokens))
    <2>1. n >= 5
      BY <1>6, <1>7
    <2>2. /\ m >= 10 /\ at[0] = 0 /\ at[1] = 2 /\ at[2] = 4 /\ at[3] = 6 /\ at[4] = 8 /\ at[5] = 10
      BY <1>5, <2>1, FirstBars DEF m
    <2>3. ASSUME NEW k \in 1 .. 5 PROVE f[k][1] = t[2 * k - 1]
      <3>1. at[k - 1] = 2 * (k - 1) /\ at[k] = 2 * k
        <4>1. k = 1 \/ k = 2 \/ k = 3 \/ k = 4 \/ k = 5
          OBVIOUS
        <4>2. 1 - 1 = 0 /\ 2 - 1 = 1 /\ 3 - 1 = 2 /\ 4 - 1 = 3 /\ 5 - 1 = 4
          OBVIOUS
        <4> QED
          BY <2>2, <4>1, <4>2
      <3>2. k \in 1 .. n + 1 /\ 2 * (k - 1) + 1 = 2 * k - 1
        BY <1>6, <2>1
      <3>3. f[k] = SubSeq(line, 2 * k - 1, 2 * k - 1)
        BY <1>6, <3>1, <3>2
      <3>4. 2 * k - 1 \in 1 .. Len(line) /\ 2 * k - 1 \in 1 .. m
        BY <1>3, <2>2
      <3> QED
        BY <1>3, <3>3, <3>4, OneToken
    <2>4. /\ f[1][1] = b.height /\ f[2][1] = b.stamp /\ f[3][1] = b.difficulty
           /\ f[4][1] = b.zeros /\ f[5][1] = b.prev
      <3>1. /\ f[1][1] = t[2 * 1 - 1] /\ f[2][1] = t[2 * 2 - 1] /\ f[3][1] = t[2 * 3 - 1]
            /\ f[4][1] = t[2 * 4 - 1] /\ f[5][1] = t[2 * 5 - 1]
        BY <2>3
      <3>2. 2 * 1 - 1 = 1 /\ 2 * 2 - 1 = 3 /\ 2 * 3 - 1 = 5 /\ 2 * 4 - 1 = 7 /\ 2 * 5 - 1 = 9
        OBVIOUS
      <3> QED
        BY <1>1, <3>1, <3>2
    <2>5. \A i \in 11 .. m : line[i] \in Tokens
      <3> SUFFICES ASSUME NEW i \in 11 .. m PROVE line[i] \in Tokens
        OBVIOUS
      <3>1. i \in 1 .. m /\ i - 10 \in 1 .. Len(J) /\ 10 + (i - 10) = i
        BY <1>2, <1>4
      <3>2. line[i] = J[i - 10]
        BY <1>1, <1>3, <3>1
      <3> QED
        BY <1>1, <3>1, <3>2, ElementOfSeq
    <2> DEFINE Good == { k \in Nat : k \in 5 .. n + 1 => at[k] >= 10 }
    <2>6. Nat \subseteq Good
      <3>1. 0 \in Good
        OBVIOUS
      <3>2. ASSUME NEW k \in Nat, k \in Good PROVE k + 1 \in Good
        <4> SUFFICES ASSUME k + 1 \in 5 .. n + 1 PROVE at[k + 1] >= 10
          OBVIOUS
        <4>1. CASE k + 1 = 5
          BY <2>2, <4>1
        <4>2. CASE k + 1 # 5
          <5>1. k \in 5 .. n + 1 /\ k + 1 \in 1 .. n + 1 /\ (k + 1) - 1 = k
            BY <1>6, <4>2
          <5>2. /\ at[k] >= 10 /\ at[k] < at[k + 1]
                /\ at[k] \in 0 .. Len(line) /\ at[k + 1] \in 1 .. Len(line) + 1
            BY <1>5, <3>2, <5>1 DEF CutsAt
          <5> QED
            BY <5>2
        <4> QED
          BY <4>1, <4>2
      <3> HIDE DEF Good
      <3> QED
        BY <3>1, <3>2, NaturalsInSet
    <2>7. ASSUME NEW k \in 6 .. n + 1 PROVE f[k] \in Seq(Tokens)
      <3>1. k - 1 \in Nat /\ k - 1 \in 5 .. n + 1 /\ k \in 1 .. n + 1
        BY <1>6
      <3>2. at[k - 1] >= 10 /\ at[k - 1] \in 0 .. Len(line)
        BY <1>5, <2>6, <3>1 DEF CutsAt
      <3>3. ASSUME NEW i \in at[k - 1] + 1 .. at[k] - 1, i \in 1 .. Len(line) PROVE line[i] \in Tokens
        <4>1. i \in 11 .. m
          BY <1>3, <1>4, <3>2, <3>3
        <4> QED
          BY <2>5, <4>1
      <3>4. f[k] = SubSeq(line, at[k - 1] + 1, at[k] - 1)
        BY <1>6, <3>1
      <3> QED
        <4>1. line \in Seq(Token) /\ CutsAt(line, Bar, n, at) /\ k \in 1 .. n + 1
          BY <1>3, <1>5, <3>1
        <4>2. \A i \in at[k - 1] + 1 .. at[k] - 1 : i \in 1 .. Len(line) => line[i] \in Tokens
          BY <3>3
        <4>3. SubSeq(line, at[k - 1] + 1, at[k] - 1) \in Seq(Tokens)
          BY <4>1, <4>2, FieldType
        <4> QED
          BY <3>4, <4>3
    <2>8. SubSeq(f, 6, Len(f)) \in Seq(Seq(Tokens))
      <3> DEFINE S == Seq(Tokens)
      <3>1. \A k \in 6 .. Len(f) : f[k] \in S
        BY <1>6, <2>7
      <3>2. 6 \in Int /\ Len(f) \in Int
        BY <1>6
      <3> HIDE DEF S
      <3>3. SubSeq(f, 6, Len(f)) \in Seq(S)
        BY <3>1, <3>2, SubSeqProperties
      <3> QED
        BY <3>3 DEF S
    <2> QED
      BY <2>4, <2>8
  <1>8. m >= 10 => Len(f) >= 6
    <2>1. m >= 10 => n >= 5
      BY <1>5, FirstBars DEF m
    <2> QED
      BY <1>6, <2>1
  <1> QED
    BY <1>3, <1>6, <1>7, <1>8


SameFields(r, b) ==
    /\ r.height = b.height /\ r.stamp = b.stamp /\ r.difficulty = b.difficulty
    /\ r.zeros = b.zeros /\ r.prev = b.prev

\* What a beginning of a block's line reads as: a block with the five fields of
\* the one sent, or an empty one.
LEMMA FromLineReads ==
    ASSUME NEW b \in BlockSet, NEW m \in 1 .. Len(ToLine(b)), NEW line, line = SubSeq(ToLine(b), 1, m)
    PROVE  FromLine(line) \in BlockSet /\ (FromLine(line) = EmptyBlock \/ SameFields(FromLine(line), b))
  <1> DEFINE f == Split(line, Bar)
             blob == Join(SubSeq(f, 6, Len(f)), Bar)
             txs == IF blob = << >> THEN << >> ELSE Split(blob, Comma)
             r == [height |-> f[1][1], stamp |-> f[2][1], difficulty |-> f[3][1],
                   zeros |-> f[4][1], prev |-> f[5][1], txs |-> txs]
  <1>1. Begins(line, b)
    <2>1. ToLine(b) \in Seq(Token)
      BY ToLineLayout
    <2>2. Len(ToLine(b)) \in Nat /\ m \in 0 .. Len(ToLine(b))
      BY <2>1, LenProperties
    <2>3. line \in Seq(Token) /\ Len(line) = m /\ \A i \in 1 .. m : line[i] = ToLine(b)[i]
      BY <2>1, <2>2, BeginningOf
    <2> QED
      BY <2>3 DEF Begins
  <1>2. /\ Len(f) \in Nat
        /\ Len(f) >= 6 =>
             /\ f[1][1] = b.height /\ f[2][1] = b.stamp /\ f[3][1] = b.difficulty
             /\ f[4][1] = b.zeros /\ f[5][1] = b.prev
             /\ SubSeq(f, 6, Len(f)) \in Seq(Seq(Tokens))
    BY <1>1, LineFields
  <1>3. FromLine(line) = IF Len(f) < 6 THEN EmptyBlock ELSE r
    BY DEF FromLine
  <1>4. CASE Len(f) < 6
    <2>1. EmptyBlock \in BlockSet
      <3>1. 0 \in Nat /\ 0 \in Stamp /\ 1 \in UInt32 /\ 0 \in Zeros /\ << >> \in Seq(Line) /\ << >> \in Digest
        BY BlockAssumption, WireAssumption DEF UInt32, Zeros, Digest
      <3> QED
        BY <3>1 DEF EmptyBlock, BlockSet
    <2> QED
      BY <1>3, <1>4, <2>1
  <1>5. CASE ~ (Len(f) < 6)
    <2>1. /\ f[1][1] = b.height /\ f[2][1] = b.stamp /\ f[3][1] = b.difficulty
          /\ f[4][1] = b.zeros /\ f[5][1] = b.prev
          /\ SubSeq(f, 6, Len(f)) \in Seq(Seq(Tokens))
      BY <1>2, <1>5
    <2>2. blob \in Seq(Tokens)
      BY <2>1, WireAssumption, JoinType
    <2> HIDE DEF blob, f
    <2>3. txs \in Seq(Line)
      <3>1. Split(blob, Comma) \in Seq(Seq(Tokens)) /\ << >> \in Seq(Seq(Tokens))
        BY <2>2, SplitType
      <3> QED
        BY <3>1, WireAssumption
    <2> HIDE DEF txs
    <2>4. r \in BlockSet
      BY <2>1, <2>3 DEF BlockSet
    <2>5. SameFields(r, b)
      BY <2>1 DEF SameFields
    <2> HIDE DEF r
    <2> QED
      BY <1>3, <1>5, <2>4, <2>5
  <1> QED
    BY <1>4, <1>5

LEMMA FetchedBlocks ==
    ASSUME FetchInv
    PROVE  /\ Len(taken) \in Nat /\ Len(taken) <= Len(answer) /\ Len(answer) \in Nat
           /\ DOMAIN fetched = 1 .. Len(taken) /\ Len(fetched) = Len(taken) /\ fetched \in Seq(BlockSet)
           /\ \A i \in 1 .. Len(taken) :
                /\ answer[i] \in BlockSet /\ fetched[i] \in BlockSet
                /\ fetched[i] = EmptyBlock \/ SameFields(fetched[i], answer[i])
  <1>1. /\ Len(answer) \in Nat /\ Len(lines) = Len(answer)
        /\ \A i \in 1 .. Len(lines) : answer[i] \in BlockSet /\ lines[i] = ToLine(answer[i])
    BY SentLines DEF FetchInv
  <1>2. /\ Len(taken) \in Nat /\ Len(taken) <= Len(answer) /\ DOMAIN taken = 1 .. Len(taken)
    BY <1>1, LenProperties DEF FetchInv, TakenArePrefixes
  <1>3. ASSUME NEW i \in 1 .. Len(taken)
        PROVE  /\ answer[i] \in BlockSet /\ FromLine(taken[i]) \in BlockSet
               /\ FromLine(taken[i]) = EmptyBlock \/ SameFields(FromLine(taken[i]), answer[i])
    <2>1. i \in 1 .. Len(lines)
      BY <1>1, <1>2
    <2>2. PICK n \in 1 .. Len(lines[i]) : taken[i] = SubSeq(lines[i], 1, n)
      BY DEF FetchInv, TakenArePrefixes
    <2>3. lines[i] = ToLine(answer[i]) /\ answer[i] \in BlockSet
      BY <1>1, <2>1
    <2> QED
      BY <2>2, <2>3, FromLineReads
  <1>4. fetched = [i \in 1 .. Len(taken) |-> FromLine(taken[i])]
    BY <1>2 DEF fetched
  <1>5. fetched \in Seq(BlockSet) /\ Len(fetched) = Len(taken)
    BY <1>2, <1>3, <1>4
  <1>6. \A i \in 1 .. Len(taken) : fetched[i] = FromLine(taken[i])
    BY <1>4
  <1> QED
    BY <1>1, <1>2, <1>3, <1>4, <1>5, <1>6

\* Whatever separators texts bring along and wherever an answer is cut, what
\* fetchChain makes of its lines are blocks (block.hpp:62-93).
THEOREM TypeCorrect == Spec => []FetchTypeOK
  <1>1. FetchInv => FetchTypeOK
    BY FetchedBlocks DEF FetchTypeOK, FetchInv, WireIsRest, FlagsTyped
  <1> QED
    BY <1>1, FetchInvariant, PTL

LEMMA LinkedIsSentHolds ==
    ASSUME FetchInv
    PROVE  LinkedIsSent
  <1> SUFFICES ASSUME Linked(fetched)
               PROVE  /\ Len(fetched) <= Len(answer)
                      /\ \A i \in DOMAIN fetched :
                           IF i < Len(fetched) THEN fetched[i] = answer[i]
                           ELSE [fetched[i] EXCEPT !.txs = << >>] = [answer[i] EXCEPT !.txs = << >>]
    BY DEF LinkedIsSent
  <1> DEFINE N == Len(taken)
  <1>1. /\ N \in Nat /\ N <= Len(answer) /\ Len(answer) \in Nat
        /\ DOMAIN fetched = 1 .. N /\ Len(fetched) = N
        /\ \A i \in 1 .. N : /\ answer[i] \in BlockSet /\ fetched[i] \in BlockSet
                             /\ fetched[i] = EmptyBlock \/ SameFields(fetched[i], answer[i])
    BY FetchedBlocks
  <1> HIDE DEF N
  <1>2. /\ N > 1
        /\ \A i \in 2 .. N : /\ fetched[i].height = fetched[i - 1].height + 1
                             /\ fetched[i].prev = ComputeHash(fetched[i - 1])
    BY <1>1 DEF Linked
  <1>3. ASSUME NEW i \in 2 .. N PROVE SameFields(fetched[i], answer[i])
    <2>1. i \in 1 .. N /\ i - 1 \in 1 .. N
      BY <1>1
    <2>2. fetched[i - 1].height \in Nat /\ fetched[i].height = fetched[i - 1].height + 1
      BY <1>1, <1>2, <2>1 DEF BlockSet
    <2>3. fetched[i] # EmptyBlock
      BY <2>2 DEF EmptyBlock
    <2> QED
      BY <1>1, <2>1, <2>3
  <1>4. ASSUME NEW i \in 1 .. N, i < N PROVE fetched[i] = answer[i]
    <2> DEFINE x == fetched[i]
               y == answer[i]
               j == i + 1
    <2>1. j \in 2 .. N /\ j - 1 = i /\ j \in 2 .. Len(answer)
      BY <1>1, <1>4
    <2>2. x \in BlockSet /\ y \in BlockSet
      BY <1>1
    <2> HIDE DEF j
    <2>3. fetched[j].prev = ComputeHash(x) /\ fetched[j].prev = answer[j].prev
      BY <1>2, <1>3, <2>1 DEF SameFields
    <2>4. answer[j].prev = ComputeHash(y)
      <3>1. answer \in Answers
        BY DEF FetchInv, Sent
      <3> QED
        BY <2>1, <3>1, FetchAssumption
    <2> HIDE DEF x, y
    <2>5. /\ x.prev \in Seq(Header) /\ HeaderOf(x) \in Header
          /\ y.prev \in Seq(Header) /\ HeaderOf(y) \in Header
      BY <2>2 DEF BlockSet, Digest, HeaderOf, Header
    <2>6. Append(x.prev, HeaderOf(x)) = Append(y.prev, HeaderOf(y))
      BY <2>3, <2>4 DEF ComputeHash
    <2>7. x.prev = y.prev /\ HeaderOf(x) = HeaderOf(y)
      <3> DEFINE S == Header
                 hx == HeaderOf(x)
                 hy == HeaderOf(y)
                 px == x.prev
                 py == y.prev
      <3>1. px \in Seq(S) /\ hx \in S /\ py \in Seq(S) /\ hy \in S /\ Append(px, hx) = Append(py, hy)
        BY <2>5, <2>6
      <3> HIDE DEF S, hx, hy, px, py
      <3>2. px = py /\ hx = hy
        BY <3>1, AppendInjective
      <3> QED
        BY <3>2 DEF hx, hy, px, py
    <2>8. /\ x.height = y.height /\ x.stamp = y.stamp /\ x.difficulty = y.difficulty
          /\ x.zeros = y.zeros /\ x.txs = y.txs
      BY <2>7 DEF HeaderOf
    <2>9. x = y
      BY <2>2, <2>7, <2>8 DEF BlockSet
    <2> QED
      BY <2>9 DEF x, y
  <1>5. [fetched[N] EXCEPT !.txs = << >>] = [answer[N] EXCEPT !.txs = << >>]
    <2> DEFINE x == fetched[N]
               y == answer[N]
    <2>1. x \in BlockSet /\ y \in BlockSet /\ SameFields(x, y)
      BY <1>1, <1>2, <1>3
    <2> HIDE DEF x, y
    <2>2. [x EXCEPT !.txs = << >>] = [y EXCEPT !.txs = << >>]
      BY <2>1 DEF BlockSet, SameFields
    <2> QED
      BY <2>2 DEF x, y
  <1> QED
    BY <1>1, <1>4, <1>5

\* A list whose links hold is the peer's but for blocks missing at its end and
\* for the transactions of its last block (block.hpp:25-27).
THEOREM LinkedListIsSent == Spec => []LinkedIsSent
  <1>1. FetchInv => LinkedIsSent
    BY LinkedIsSentHolds
  <1> QED
    BY <1>1, FetchInvariant, PTL

------------------------------------------------------------------------------
\* Splitting and joining

\* A text has one way only to be cut at its separators.
LEMMA CutsAreUnique ==
    ASSUME NEW text, NEW sep, Len(text) \in Nat,
           NEW n, NEW at, CutsAt(text, sep, n, at), NEW m, NEW p, CutsAt(text, sep, m, p)
    PROVE  n = m /\ \A k \in 0 .. n + 1 : at[k] = p[k]
  <1> DEFINE Same(k) == k <= n + 1 => /\ k <= m + 1 /\ at[k] = p[k]
                                      /\ k <= n <=> k <= m
             Good == { k \in Nat : Same(k) }
  <1>1. n \in Nat /\ m \in Nat /\ at[0] = 0 /\ p[0] = 0
    BY DEF CutsAt
  <1>2. Same(0)
    BY <1>1
  <1>3. ASSUME NEW k \in 1 .. n + 1, k <= m + 1, at[k - 1] = p[k - 1]
        PROVE  at[k] = p[k] /\ (k <= n <=> k <= m)
    <2> DEFINE x == at[k]
               y == p[k]
    <2>1. k \in 1 .. m + 1
      BY <1>1, <1>3
    <2>2. /\ x \in 1 .. Len(text) + 1 /\ at[k - 1] < x /\ at[k - 1] \in Int
          /\ k <= n => x <= Len(text) /\ text[x] = sep
          /\ ~ (k <= n) => x = Len(text) + 1
          /\ \A i \in at[k - 1] + 1 .. x - 1 : text[i] # sep
      <3>1. (k <= n => k \in 1 .. n) /\ (~ (k <= n) => k = n + 1)
        BY <1>1, <1>3
      <3>2. /\ at[k - 1] \in 0 .. Len(text) /\ x \in 1 .. Len(text) + 1 /\ at[k - 1] < x
            /\ k <= n => x <= Len(text)
            /\ \A i \in at[k - 1] + 1 .. x - 1 : text[i] # sep
        BY <1>3 DEF CutsAt
      <3>3. \A l \in 1 .. n : text[at[l]] = sep
        BY DEF CutsAt
      <3>4. at[n + 1] = Len(text) + 1
        BY DEF CutsAt
      <3> QED
        BY <3>1, <3>2, <3>3, <3>4
    <2>3. /\ y \in 1 .. Len(text) + 1 /\ at[k - 1] < y
          /\ k <= m => y <= Len(text) /\ text[y] = sep
          /\ ~ (k <= m) => y = Len(text) + 1
          /\ \A i \in at[k - 1] + 1 .. y - 1 : text[i] # sep
      <3>1. (k <= m => k \in 1 .. m) /\ (~ (k <= m) => k = m + 1)
        BY <1>1, <2>1
      <3> QED
        BY <1>3, <2>1, <3>1 DEF CutsAt
    <2> HIDE DEF x, y
    <2>4. ~ (x < y)
      <3> SUFFICES ASSUME x < y PROVE FALSE
        OBVIOUS
      <3>1. x \in at[k - 1] + 1 .. y - 1 /\ x # Len(text) + 1
        BY <2>2, <2>3
      <3> QED
        BY <2>2, <2>3, <3>1
    <2>5. ~ (y < x)
      <3> SUFFICES ASSUME y < x PROVE FALSE
        OBVIOUS
      <3>1. y \in at[k - 1] + 1 .. x - 1 /\ y # Len(text) + 1
        BY <2>2, <2>3
      <3> QED
        BY <2>2, <2>3, <3>1
    <2>6. x = y
      BY <2>2, <2>3, <2>4, <2>5
    <2>7. (k <= n <=> x <= Len(text)) /\ (k <= m <=> y <= Len(text))
      BY <2>2, <2>3
    <2> QED
      BY <2>6, <2>7 DEF x, y
  <1>4. ASSUME NEW k \in Nat, Same(k) PROVE Same(k + 1)
    <2> SUFFICES ASSUME k + 1 <= n + 1
                 PROVE  /\ k + 1 <= m + 1 /\ at[k + 1] = p[k + 1]
                        /\ k + 1 <= n <=> k + 1 <= m
      OBVIOUS
    <2>1. k <= n /\ k <= m /\ at[k] = p[k] /\ (k + 1) - 1 = k
      BY <1>1, <1>4
    <2>2. k + 1 \in 1 .. n + 1 /\ k + 1 <= m + 1
      BY <1>1, <2>1
    <2> QED
      BY <1>3, <2>1, <2>2
  <1>5. Nat \subseteq Good
    <2> HIDE DEF Same
    <2>1. 0 \in Good /\ \A k \in Nat : k \in Good => k + 1 \in Good
      BY <1>2, <1>4
    <2> HIDE DEF Good
    <2> QED
      BY <2>1, NaturalsInSet
  <1>6. \A k \in 0 .. n + 1 : k <= m + 1 /\ at[k] = p[k] /\ (k <= n <=> k <= m)
    <2> SUFFICES ASSUME NEW k \in 0 .. n + 1
                 PROVE  k <= m + 1 /\ at[k] = p[k] /\ (k <= n <=> k <= m)
      OBVIOUS
    <2>1. Same(k)
      <3> HIDE DEF Same
      <3> QED
        BY <1>5
    <2> QED
      BY <1>1, <2>1
  <1>7. n + 1 \in 0 .. n + 1 /\ ~ (n + 1 <= n)
    BY <1>1
  <1> QED
    BY <1>1, <1>6, <1>7

\* `p` lists the ends of the texts in the joined text J, where their separators are.
JoinedAt(texts, sep, J, p) ==
    /\ p[0] = 0 /\ p[Len(texts)] = Len(J) + 1
    /\ \A k \in 1 .. Len(texts) :
         /\ p[k - 1] \in Nat /\ p[k] = p[k - 1] + Len(texts[k]) + 1 /\ p[k] <= Len(J) + 1
         /\ \A j \in 1 .. Len(texts[k]) : J[p[k - 1] + j] = texts[k][j]
         /\ k < Len(texts) => p[k] <= Len(J) /\ J[p[k]] = sep

\* In joined texts each is found behind those before it and their separators.
LEMMA JoinLayout ==
    ASSUME NEW U, NEW texts \in Seq(Seq(U)), NEW sep \in U, texts # << >>
    PROVE  /\ Join(texts, sep) \in Seq(U) /\ Len(Join(texts, sep)) \in Nat
           /\ \E p : JoinedAt(texts, sep, Join(texts, sep), p)
  <1> DEFINE J == Join(texts, sep)
             N == Len(texts)
             seqs == [i \in DOMAIN texts |-> IF i = 1 THEN texts[i] ELSE << sep >> \o texts[i]]
  <1>1. /\ N \in Nat /\ N > 0 /\ DOMAIN texts = 1 .. N
        /\ \A i \in 1 .. N : texts[i] \in Seq(U) /\ Len(texts[i]) \in Nat
    BY LenProperties, ElementOfSeq, EmptySeq
  <1>2. ASSUME NEW i \in 2 .. N
        PROVE  /\ << sep >> \o texts[i] \in Seq(U) /\ Len(<< sep >> \o texts[i]) = Len(texts[i]) + 1
               /\ (<< sep >> \o texts[i])[1] = sep
               /\ \A j \in 1 .. Len(texts[i]) : (<< sep >> \o texts[i])[j + 1] = texts[i][j]
    <2> DEFINE s == << sep >>
               t == texts[i]
    <2>1. s \in Seq(U) /\ Len(s) = 1 /\ s[1] = sep /\ t \in Seq(U) /\ Len(t) \in Nat
      BY <1>1
    <2> HIDE DEF s, t
    <2>2. /\ s \o t \in Seq(U) /\ Len(s \o t) = Len(s) + Len(t)
          /\ \A j \in 1 .. Len(s) + Len(t) : (s \o t)[j] = IF j <= Len(s) THEN s[j] ELSE t[j - Len(s)]
      BY <2>1, ConcatProperties
    <2>3. \A j \in 1 .. Len(t) : j + 1 \in 1 .. Len(s) + Len(t) /\ ~ (j + 1 <= Len(s)) /\ (j + 1) - Len(s) = j
      BY <2>1
    <2>4. 1 \in 1 .. Len(s) + Len(t) /\ 1 <= Len(s) /\ Len(s) + Len(t) = Len(t) + 1
      BY <2>1
    <2>5. \A j \in 1 .. Len(t) : (s \o t)[j + 1] = t[j]
      BY <2>2, <2>3
    <2>6. (s \o t)[1] = sep
      BY <2>1, <2>2, <2>4
    <2> QED
      BY <2>2, <2>4, <2>5, <2>6 DEF s, t
  <1>3. /\ \A i \in 1 .. N : seqs[i] = IF i = 1 THEN texts[i] ELSE << sep >> \o texts[i]
        /\ \A i \in 1 .. N : seqs[i] \in Seq(U)
        /\ seqs \in Seq(Seq(U)) /\ Len(seqs) = N
    <2>1. \A i \in 1 .. N : i = 1 \/ i \in 2 .. N
      BY <1>1
    <2>2. \A i \in 1 .. N : seqs[i] = IF i = 1 THEN texts[i] ELSE << sep >> \o texts[i]
      BY <1>1
    <2>3. \A i \in 1 .. N : seqs[i] \in Seq(U)
      BY <1>1, <1>2, <2>1, <2>2
    <2>4. seqs \in Seq(Seq(U)) /\ Len(seqs) = N
      BY <1>1, <2>3
    <2> QED
      BY <2>2, <2>3, <2>4
  <1>4. J = FlattenSeq(seqs)
    BY DEF Join
  <1> HIDE DEF seqs, N, J
  <1>5. J \in Seq(U) /\ Len(J) \in Nat /\ \E pos \in [0 .. N -> Nat] :
          /\ pos[0] = 0 /\ pos[N] = Len(J)
          /\ \A n \in 1 .. N : /\ pos[n] = pos[n - 1] + Len(seqs[n]) /\ pos[n] <= pos[N]
                               /\ \A j \in 1 .. Len(seqs[n]) : J[pos[n - 1] + j] = seqs[n][j]
    <2>1. J \in Seq(U) /\ \E pos \in [0 .. Len(seqs) -> Nat] :
            /\ pos[0] = 0 /\ pos[Len(seqs)] = Len(J)
            /\ \A n \in 1 .. Len(seqs) :
                 /\ pos[n] = pos[n - 1] + Len(seqs[n]) /\ pos[n] <= pos[Len(seqs)]
                 /\ \A j \in 1 .. Len(seqs[n]) : J[pos[n - 1] + j] = seqs[n][j]
      <3>1. seqs \in Seq(Seq(U))
        BY <1>3
      <3>2. FlattenSeq(seqs) \in Seq(U) /\ \E pos \in [0 .. Len(seqs) -> Nat] :
              /\ pos[0] = 0 /\ pos[Len(seqs)] = Len(FlattenSeq(seqs))
              /\ \A n \in 1 .. Len(seqs) :
                   /\ pos[n] = pos[n - 1] + Len(seqs[n]) /\ pos[n] <= pos[Len(seqs)]
                   /\ \A j \in 1 .. Len(seqs[n]) : FlattenSeq(seqs)[pos[n - 1] + j] = seqs[n][j]
        BY <3>1, FlattenLayout, Zenon
      <3> QED
        BY <1>4, <3>2
    <2>2. Len(seqs) = N
      BY <1>3
    <2> QED
      BY <2>1, <2>2, LenProperties
  <1>6. PICK pos \in [0 .. N -> Nat] :
          /\ pos[0] = 0 /\ pos[N] = Len(J)
          /\ \A n \in 1 .. N : /\ pos[n] = pos[n - 1] + Len(seqs[n]) /\ pos[n] <= pos[N]
                               /\ \A j \in 1 .. Len(seqs[n]) : J[pos[n - 1] + j] = seqs[n][j]
    BY <1>5
  <1> DEFINE p == [k \in 0 .. N |-> IF k = 0 THEN 0 ELSE pos[k] + 1]
  <1>7. p[0] = 0 /\ \A k \in 1 .. N : p[k] = pos[k] + 1 /\ pos[k] \in Nat
    <2>1. 0 \in 0 .. N /\ \A k \in 1 .. N : k # 0 /\ k \in 0 .. N
      BY <1>1
    <2> QED
      BY <1>6, <2>1
  <1> HIDE DEF p
  <1>8. ASSUME NEW k \in 1 .. N
        PROVE  /\ p[k - 1] \in Nat /\ p[k] = p[k - 1] + Len(texts[k]) + 1
               /\ \A j \in 1 .. Len(texts[k]) : J[p[k - 1] + j] = texts[k][j]
    <2>1. /\ pos[k] = pos[k - 1] + Len(seqs[k])
          /\ \A j \in 1 .. Len(seqs[k]) : J[pos[k - 1] + j] = seqs[k][j]
      BY <1>6
    <2>2. CASE k = 1
      <3>1. k - 1 = 0 /\ seqs[k] = texts[k] /\ p[k - 1] = 0 /\ pos[k - 1] = 0
        BY <1>3, <1>6, <1>7, <2>2
      <3>2. p[k] = pos[k] + 1 /\ Len(texts[k]) \in Nat
        BY <1>1, <1>7
      <3> QED
        BY <2>1, <3>1, <3>2
    <2>3. CASE k # 1
      <3>1. k \in 2 .. N /\ k - 1 \in 1 .. N
        BY <1>1, <2>3
      <3>2. /\ seqs[k] = << sep >> \o texts[k] /\ Len(seqs[k]) = Len(texts[k]) + 1
            /\ \A j \in 1 .. Len(texts[k]) : seqs[k][j + 1] = texts[k][j]
        BY <1>2, <1>3, <2>3, <3>1
      <3>3. p[k] = pos[k] + 1 /\ p[k - 1] = pos[k - 1] + 1 /\ pos[k - 1] \in Nat /\ Len(texts[k]) \in Nat
        BY <1>1, <1>7, <3>1
      <3>4. p[k] = p[k - 1] + Len(texts[k]) + 1
        <4> DEFINE a == pos[k - 1]
                   L == Len(texts[k])
        <4>1. pos[k] = a + (L + 1) /\ p[k] = pos[k] + 1 /\ p[k - 1] = a + 1 /\ a \in Nat /\ L \in Nat
          BY <2>1, <3>2, <3>3
        <4> HIDE DEF a, L
        <4>2. p[k] = (a + 1) + L + 1
          BY <4>1
        <4> QED
          BY <4>1, <4>2 DEF L
      <3>5. ASSUME NEW j \in 1 .. Len(texts[k]) PROVE J[p[k - 1] + j] = texts[k][j]
        <4>1. j + 1 \in 1 .. Len(texts[k]) + 1 /\ pos[k - 1] + (j + 1) = p[k - 1] + j
          <5> DEFINE a == pos[k - 1]
                     L == Len(texts[k])
          <5>1. a \in Nat /\ L \in Nat /\ p[k - 1] = a + 1 /\ j \in 1 .. L
            BY <3>3
          <5> HIDE DEF a, L
          <5>2. j + 1 \in 1 .. L + 1 /\ a + (j + 1) = (a + 1) + j
            BY <5>1
          <5> QED
            BY <5>1, <5>2 DEF a, L
        <4>2. J[pos[k - 1] + (j + 1)] = seqs[k][j + 1]
          BY <2>1, <3>2, <4>1
        <4> QED
          BY <3>2, <4>1, <4>2
      <3> QED
        BY <3>3, <3>4, <3>5
    <2> QED
      BY <2>2, <2>3
  <1>9. ASSUME NEW k \in 1 .. N PROVE p[k] <= Len(J) + 1
    BY <1>5, <1>6, <1>7
  <1>10. ASSUME NEW k \in 1 .. N, k < N PROVE p[k] <= Len(J) /\ J[p[k]] = sep
    <2> DEFINE n == k + 1
    <2>1. n \in 2 .. N /\ n \in 1 .. N /\ n - 1 = k /\ n # 1
      BY <1>1, <1>10
    <2> HIDE DEF n
    <2>2. /\ seqs[n] = << sep >> \o texts[n] /\ Len(seqs[n]) = Len(texts[n]) + 1
          /\ seqs[n][1] = sep /\ Len(texts[n]) \in Nat
      BY <1>1, <1>2, <1>3, <2>1
    <2>3. 1 \in 1 .. Len(seqs[n])
      BY <2>2
    <2>4. J[pos[n - 1] + 1] = seqs[n][1] /\ pos[n] = pos[n - 1] + Len(seqs[n]) /\ pos[n] <= pos[N]
      BY <1>6, <2>1, <2>3
    <2>5. p[k] = pos[n - 1] + 1 /\ pos[n - 1] \in Nat
      BY <1>7, <2>1
    <2> QED
      BY <1>5, <1>6, <2>2, <2>4, <2>5
  <1>11. p[N] = Len(J) + 1
    <2>1. N \in 1 .. N
      BY <1>1
    <2>2. p[N] = pos[N] + 1 /\ pos[N] = Len(J)
      BY <1>6, <1>7, <2>1
    <2> QED
      BY <2>2
  <1>12. JoinedAt(texts, sep, J, p)
    BY <1>7, <1>8, <1>9, <1>10, <1>11 DEF JoinedAt, N
  <1> QED
    BY <1>5, <1>12 DEF J

\* Texts without a separator in them come back from a split as they were joined.
LEMMA SplitOfJoin ==
    ASSUME NEW U, NEW texts \in Seq(Seq(U)), NEW sep \in U, texts # << >>,
           \A k \in 1 .. Len(texts) : \A j \in 1 .. Len(texts[k]) : texts[k][j] # sep
    PROVE  Split(Join(texts, sep), sep) = texts
  <1> DEFINE J == Join(texts, sep)
             N == Len(texts)
  <1>1. N \in Nat /\ N > 0 /\ \A k \in 1 .. N : texts[k] \in Seq(U) /\ Len(texts[k]) \in Nat
    BY LenProperties, ElementOfSeq, EmptySeq
  <1>2. J \in Seq(U) /\ Len(J) \in Nat /\ \E p : JoinedAt(texts, sep, J, p)
    BY JoinLayout
  <1> HIDE DEF J, N
  <1>3. PICK p : JoinedAt(texts, sep, J, p)
    BY <1>2
  <1>30. /\ p[0] = 0 /\ p[N] = Len(J) + 1
         /\ \A k \in 1 .. N :
              /\ p[k - 1] \in Nat /\ p[k] = p[k - 1] + Len(texts[k]) + 1
              /\ p[k] <= Len(J) + 1
              /\ \A j \in 1 .. Len(texts[k]) : J[p[k - 1] + j] = texts[k][j]
              /\ k < N => p[k] <= Len(J) /\ J[p[k]] = sep
    BY <1>3 DEF JoinedAt, N
  <1>4. CutsAt(J, sep, N - 1, p)
    <2>1. N - 1 \in Nat /\ (N - 1) + 1 = N
      BY <1>1
    <2>2. ASSUME NEW k \in 1 .. N - 1 PROVE J[p[k]] = sep
      <3>1. k \in 1 .. N /\ k < N
        BY <1>1
      <3> QED
        BY <1>30, <3>1
    <2>3. ASSUME NEW k \in 1 .. N
          PROVE  /\ p[k - 1] \in 0 .. Len(J) /\ p[k] \in 1 .. Len(J) + 1 /\ p[k - 1] < p[k]
                 /\ k <= N - 1 => p[k] <= Len(J)
                 /\ \A i \in p[k - 1] + 1 .. p[k] - 1 : J[i] # sep
      <3> DEFINE x == p[k - 1]
                 y == p[k]
                 L == Len(texts[k])
      <3>1. /\ x \in Nat /\ L \in Nat /\ y = x + L + 1 /\ y <= Len(J) + 1
            /\ \A j \in 1 .. L : J[x + j] = texts[k][j] /\ texts[k][j] # sep
            /\ k < N => y <= Len(J)
        BY <1>1, <1>30 DEF N
      <3> HIDE DEF x, y, L
      <3>2. x \in 0 .. Len(J) /\ y \in 1 .. Len(J) + 1 /\ x < y /\ (k <= N - 1 => y <= Len(J))
        BY <1>1, <1>2, <3>1
      <3>3. \A i \in x + 1 .. y - 1 : i - x \in 1 .. L /\ x + (i - x) = i
        BY <3>1
      <3>4. \A i \in x + 1 .. y - 1 : J[i] # sep
        BY <3>1, <3>3
      <3> QED
        BY <3>2, <3>4 DEF x, y
    <2> QED
      BY <1>30, <2>1, <2>2, <2>3 DEF CutsAt
  <1>5. PICK n, at : CutsAt(J, sep, n, at) /\ Split(J, sep) = Fields(J, n, at)
    <2>1. J \in Seq(U)
      BY <1>2
    <2> QED
      BY <2>1, SplitLayout
  <1>6. n = N - 1 /\ n + 1 = N /\ \A k \in 0 .. N : at[k] = p[k]
    <2> DEFINE m == N - 1
    <2>1. Len(J) \in Nat /\ CutsAt(J, sep, n, at) /\ CutsAt(J, sep, m, p)
      BY <1>2, <1>4, <1>5
    <2> HIDE DEF m
    <2>2. n = m /\ \A k \in 0 .. n + 1 : at[k] = p[k]
      BY <2>1, CutsAreUnique
    <2> QED
      BY <1>1, <2>2 DEF m
  <1>7. ASSUME NEW k \in 1 .. N PROVE SubSeq(J, at[k - 1] + 1, at[k] - 1) = texts[k]
    <2> DEFINE x == p[k - 1]
               L == Len(texts[k])
               s == SubSeq(J, x + 1, x + L)
    <2>1. /\ x \in Nat /\ L \in Nat /\ p[k] = x + L + 1 /\ p[k] <= Len(J) + 1
          /\ \A j \in 1 .. L : J[x + j] = texts[k][j]
      BY <1>1, <1>30
    <2>2. at[k - 1] = x /\ at[k] = p[k]
      <3>1. k - 1 \in 0 .. N /\ k \in 0 .. N
        BY <1>1
      <3> QED
        BY <1>6, <3>1
    <2>3. texts[k] \in Seq(U) /\ Len(texts[k]) = L
      BY <1>1
    <2> HIDE DEF x, L
    <2>4. SubSeq(J, at[k - 1] + 1, at[k] - 1) = s
      <3>1. at[k - 1] + 1 = x + 1 /\ at[k] - 1 = x + L
        BY <2>1, <2>2
      <3> QED
        BY <3>1
    <2>5. /\ s \in Seq(U) /\ Len(s) = IF x + 1 <= x + L THEN (x + L) - (x + 1) + 1 ELSE 0
          /\ \A i \in 1 .. (x + L) - (x + 1) + 1 : s[i] = J[(x + 1) + i - 1]
      <3>1. x + 1 \in Int /\ x + L \in Int /\ \A i \in x + 1 .. x + L : i \in 1 .. Len(J)
        BY <1>2, <2>1
      <3>2. \A i \in x + 1 .. x + L : J[i] \in U
        BY <1>2, <3>1, ElementOfSeq
      <3> QED
        BY <3>1, <3>2, SubSeqProperties
    <2> HIDE DEF s
    <2>6. Len(s) = L /\ \A i \in 1 .. L : (x + 1) + i - 1 = x + i /\ i \in 1 .. (x + L) - (x + 1) + 1
      BY <2>1, <2>5
    <2>7. \A i \in 1 .. L : s[i] = texts[k][i]
      BY <2>1, <2>5, <2>6
    <2>8. s = texts[k]
      BY <2>3, <2>5, <2>6, <2>7, SeqEqual
    <2> QED
      BY <2>4, <2>8
  <1> DEFINE f == Split(J, sep)
             S == Seq(U)
  <1>8. Len(f) = N /\ \A k \in 1 .. N : f[k] = texts[k]
    <2>1. f = Fields(J, n, at) /\ Len(Fields(J, n, at)) = n + 1
      BY <1>5, FieldsAre
    <2>2. \A k \in 1 .. n + 1 : Fields(J, n, at)[k] = SubSeq(J, at[k - 1] + 1, at[k] - 1)
      BY <1>5, FieldsAre
    <2> HIDE DEF f
    <2> QED
      BY <1>6, <1>7, <2>1, <2>2
  <1>9. f \in Seq(S) /\ texts \in Seq(S) /\ Len(texts) = N
    BY <1>2, SplitType DEF N
  <1> HIDE DEF f, S
  <1>10. f = texts
    BY <1>1, <1>8, <1>9, SeqEqual
  <1> QED
    BY <1>10 DEF f, J

\* The fields Split returns are what is between the separators.
SplitsAt(text, sep, n, at) ==
    /\ CutsAt(text, sep, n, at) /\ n \in Nat /\ Len(Split(text, sep)) = n + 1
    /\ \A k \in 1 .. n + 1 : Split(text, sep)[k] = SubSeq(text, at[k - 1] + 1, at[k] - 1)

LEMMA SplitFields ==
    ASSUME NEW U, NEW text \in Seq(U), NEW sep
    PROVE  \E n, at : SplitsAt(text, sep, n, at)
  <1>1. PICK n, at : CutsAt(text, sep, n, at) /\ Split(text, sep) = Fields(text, n, at)
    BY SplitLayout
  <1>2. /\ n \in Nat /\ Len(Split(text, sep)) = n + 1
        /\ \A k \in 1 .. n + 1 : Split(text, sep)[k] = SubSeq(text, at[k - 1] + 1, at[k] - 1)
    BY <1>1, FieldsAre
  <1> QED
    BY <1>1, <1>2 DEF SplitsAt

\* A text found inside another one.
LEMMA PieceOf ==
    ASSUME NEW U, NEW text \in Seq(U), NEW piece \in Seq(U), NEW x \in Nat, NEW y \in Nat,
           y = x + Len(piece), y <= Len(text), \A j \in 1 .. Len(piece) : text[x + j] = piece[j]
    PROVE  SubSeq(text, x + 1, y) = piece
  <1> DEFINE L == Len(piece)
             s == SubSeq(text, x + 1, y)
  <1>1. L \in Nat /\ Len(text) \in Nat
    BY LenProperties
  <1>2. x + 1 \in Int /\ y \in Int /\ \A i \in x + 1 .. y : text[i] \in U
    <2>1. \A i \in x + 1 .. y : i \in 1 .. Len(text)
      BY <1>1
    <2> QED
      BY <2>1, ElementOfSeq
  <1>3. /\ s \in Seq(U) /\ Len(s) = IF x + 1 <= y THEN y - (x + 1) + 1 ELSE 0
        /\ \A i \in 1 .. y - (x + 1) + 1 : s[i] = text[(x + 1) + i - 1]
    BY <1>2, SubSeqProperties
  <1> HIDE DEF s, L
  <1>4. Len(s) = L /\ \A i \in 1 .. L : (x + 1) + i - 1 = x + i /\ i \in 1 .. y - (x + 1) + 1
    BY <1>1, <1>3 DEF L
  <1>5. \A i \in 1 .. L : s[i] = piece[i]
    BY <1>3, <1>4 DEF L
  <1>6. s = piece
    BY <1>1, <1>3, <1>4, <1>5, SeqEqual DEF L
  <1> QED
    BY <1>6 DEF s

\* No separator is inside a text.
Free(texts, sep) == \A k \in 1 .. Len(texts) : \A j \in 1 .. Len(texts[k]) : texts[k][j] # sep

\* Every field but the last is the text in its place.
AllButLast(f, texts) == \A k \in 1 .. Len(texts) : k < Len(f) => f[k] = texts[k]

\* In the beginning of joined texts, every field but the last is the text that was
\* joined.
LEMMA SplitOfBeginning ==
    ASSUME NEW U, NEW texts \in Seq(Seq(U)), NEW sep \in U, texts # << >>,
           Free(texts, sep), NEW m \in 0 .. Len(Join(texts, sep))
    PROVE  AllButLast(Split(SubSeq(Join(texts, sep), 1, m), sep), texts)
  <1> SUFFICES ASSUME NEW line, line = SubSeq(Join(texts, sep), 1, m),
                      NEW k \in 1 .. Len(texts), k < Len(Split(line, sep))
               PROVE  Split(line, sep)[k] = texts[k]
    BY DEF AllButLast
  <1> DEFINE J == Join(texts, sep)
             N == Len(texts)
  <1>1. N \in Nat /\ \A i \in 1 .. N : texts[i] \in Seq(U) /\ Len(texts[i]) \in Nat
    BY LenProperties, ElementOfSeq
  <1>2. J \in Seq(U) /\ Len(J) \in Nat /\ \E p : JoinedAt(texts, sep, J, p)
    BY JoinLayout
  <1>3. /\ line \in Seq(U) /\ Len(line) = m /\ m \in 0 .. Len(J)
        /\ \A i \in 1 .. m : line[i] = J[i]
    BY <1>2, BeginningOf
  <1> HIDE DEF J, N
  <1>4. PICK p : JoinedAt(texts, sep, J, p)
    BY <1>2
  <1>5. /\ p[0] = 0 /\ p[N] = Len(J) + 1
        /\ \A i \in 1 .. N :
             /\ p[i - 1] \in Nat /\ p[i] = p[i - 1] + Len(texts[i]) + 1 /\ p[i] <= Len(J) + 1
             /\ \A j \in 1 .. Len(texts[i]) : J[p[i - 1] + j] = texts[i][j] /\ texts[i][j] # sep
             /\ i < N => p[i] <= Len(J) /\ J[p[i]] = sep
    BY <1>4 DEF JoinedAt, Free, N
  <1>a. PICK n, at : SplitsAt(line, sep, n, at)
    BY <1>3, SplitFields, ZenonT(30)
  <1>6. /\ CutsAt(line, sep, n, at) /\ n \in Nat /\ Len(Split(line, sep)) = n + 1
        /\ \A i \in 1 .. n + 1 : Split(line, sep)[i] = SubSeq(line, at[i - 1] + 1, at[i] - 1)
    BY <1>a, ZenonT(30) DEF SplitsAt
  <1>7. /\ n \in Nat /\ at[0] = 0 /\ k \in 1 .. N /\ k <= n
        /\ Split(line, sep)[k] = SubSeq(line, at[k - 1] + 1, at[k] - 1)
        /\ \A i \in 1 .. n :
             /\ at[i - 1] < at[i] /\ at[i] \in 1 .. m /\ line[at[i]] = sep /\ at[i - 1] \in 0 .. m
             /\ \A j \in at[i - 1] + 1 .. at[i] - 1 : line[j] # sep
    <2>1. k \in 1 .. N /\ k <= n /\ k \in 1 .. n + 1
      BY <1>1, <1>6 DEF N
    <2>2. Split(line, sep)[k] = SubSeq(line, at[k - 1] + 1, at[k] - 1)
      BY <1>6, <2>1, ZenonT(30)
    <2>4. at[0] = 0
      BY <1>6 DEF CutsAt
    <2>5. ASSUME NEW i \in 1 .. n
          PROVE  /\ at[i - 1] < at[i] /\ at[i] \in 1 .. m /\ line[at[i]] = sep /\ at[i - 1] \in 0 .. m
                 /\ \A j \in at[i - 1] + 1 .. at[i] - 1 : line[j] # sep
      <3>1. i \in 1 .. n + 1 /\ i <= n
        BY <1>6
      <3>2. line[at[i]] = sep
        BY <1>6 DEF CutsAt
      <3>3. /\ at[i - 1] \in 0 .. Len(line) /\ at[i] \in 1 .. Len(line) + 1 /\ at[i - 1] < at[i]
            /\ i <= n => at[i] <= Len(line)
            /\ \A j \in at[i - 1] + 1 .. at[i] - 1 : line[j] # sep
        BY <1>6, <3>1 DEF CutsAt
      <3> DEFINE v == at[i - 1]
                 z == at[i]
      <3>4. v \in 0 .. Len(line) /\ z \in 1 .. Len(line) + 1 /\ v < z /\ z <= Len(line)
        BY <3>1, <3>3
      <3> HIDE DEF v, z
      <3>5. v < z /\ v \in 0 .. m /\ z \in 1 .. m
        BY <1>3, <3>4
      <3> QED
        BY <3>2, <3>3, <3>5, ZenonT(30) DEF v, z
    <2> QED
      BY <1>6, <2>1, <2>2, <2>4, <2>5, ZenonT(30)
  <1>8. ASSUME NEW i \in 1 .. n, i <= N, at[i - 1] = p[i - 1] PROVE at[i] = p[i]
    <2> DEFINE x == p[i - 1]
               y == p[i]
               z == at[i]
               L == Len(texts[i])
    <2>1. /\ x \in Nat /\ L \in Nat /\ y = x + L + 1 /\ y <= Len(J) + 1
          /\ \A j \in 1 .. L : J[x + j] # sep
          /\ i < N => J[y] = sep
          /\ i = N => y = Len(J) + 1
      <3>1. i \in 1 .. N
        BY <1>1, <1>7, <1>8
      <3>2. /\ p[i - 1] \in Nat /\ p[i] = p[i - 1] + Len(texts[i]) + 1 /\ p[i] <= Len(J) + 1
            /\ \A j \in 1 .. Len(texts[i]) : J[p[i - 1] + j] = texts[i][j] /\ texts[i][j] # sep
            /\ i < N => p[i] <= Len(J) /\ J[p[i]] = sep
        BY <1>5, <3>1, ZenonT(30)
      <3>3. \A j \in 1 .. L : J[x + j] # sep
        BY <3>2, ZenonT(30)
      <3>4. L \in Nat
        BY <1>1, <3>1
      <3>5. i = N => y = Len(J) + 1
        BY <1>5, ZenonT(30)
      <3> QED
        BY <3>2, <3>3, <3>4, <3>5, ZenonT(30)
    <2>2. /\ x < z /\ z \in 1 .. m /\ line[z] = sep
          /\ \A j \in x + 1 .. z - 1 : line[j] # sep
      BY <1>7, <1>8
    <2> HIDE DEF x, y, z, L
    <2>3. ~ (z < y)
      <3> SUFFICES ASSUME z < y PROVE FALSE
        OBVIOUS
      <3>1. z - x \in 1 .. L /\ x + (z - x) = z
        BY <2>1, <2>2
      <3> QED
        BY <1>3, <2>1, <2>2, <3>1
    <2>4. ~ (y < z)
      <3> SUFFICES ASSUME y < z PROVE FALSE
        OBVIOUS
      <3>1. y \in x + 1 .. z - 1 /\ y \in 1 .. m /\ i < N
        BY <1>1, <1>3, <1>7, <1>8, <2>1, <2>2
      <3> QED
        BY <1>3, <2>1, <2>2, <3>1
    <2> QED
      BY <2>1, <2>2, <2>3, <2>4 DEF y, z
  <1> DEFINE Good == { i \in Nat : i <= k => at[i] = p[i] }
  <1>9. Nat \subseteq Good
    <2>1. 0 \in Good
      BY <1>5, <1>7
    <2>2. ASSUME NEW i \in Nat, i \in Good PROVE i + 1 \in Good
      <3> SUFFICES ASSUME i + 1 <= k PROVE at[i + 1] = p[i + 1]
        OBVIOUS
      <3>1. i + 1 \in 1 .. n /\ i + 1 <= N /\ (i + 1) - 1 = i /\ i <= k
        BY <1>1, <1>7
      <3> QED
        BY <1>8, <2>2, <3>1
    <2> HIDE DEF Good
    <2> QED
      BY <2>1, <2>2, NaturalsInSet
  <1>10. at[k - 1] = p[k - 1] /\ at[k] = p[k]
    <2>1. k \in Nat /\ k - 1 \in Nat /\ k <= k /\ k - 1 <= k
      BY <1>7
    <2> QED
      BY <1>9, <2>1
  <1>11. /\ p[k - 1] \in Nat /\ p[k] = p[k - 1] + Len(texts[k]) + 1 /\ p[k] \in 1 .. m
         /\ \A j \in 1 .. Len(texts[k]) : J[p[k - 1] + j] = texts[k][j]
         /\ texts[k] \in Seq(U) /\ Len(texts[k]) \in Nat
    <2>1. k \in 1 .. n
      BY <1>7
    <2>2. p[k] \in 1 .. m
      BY <1>7, <1>10, <2>1
    <2>3. /\ p[k - 1] \in Nat /\ p[k] = p[k - 1] + Len(texts[k]) + 1
          /\ \A j \in 1 .. Len(texts[k]) : J[p[k - 1] + j] = texts[k][j]
      BY <1>5, <1>7
    <2>4. texts[k] \in Seq(U) /\ Len(texts[k]) \in Nat
      BY <1>1, <1>7
    <2> QED
      BY <2>2, <2>3, <2>4
  <1>12. SubSeq(line, at[k - 1] + 1, at[k] - 1) = texts[k]
    <2> DEFINE x == p[k - 1]
               y == p[k] - 1
               piece == texts[k]
    <2>1. /\ at[k - 1] + 1 = x + 1 /\ at[k] - 1 = y
          /\ x \in Nat /\ y \in Nat /\ y = x + Len(piece) /\ y <= m /\ piece \in Seq(U)
      BY <1>3, <1>10, <1>11
    <2>2. ASSUME NEW j \in 1 .. Len(piece) PROVE line[x + j] = piece[j]
      <3>1. x + j \in 1 .. m
        <4> DEFINE L == Len(piece)
        <4>1. x \in Nat /\ L \in Nat /\ x + L <= m /\ j \in 1 .. L /\ m \in Nat
          BY <1>3, <1>11, <2>1
        <4> HIDE DEF x, L
        <4> QED
          BY <4>1
      <3>2. J[x + j] = piece[j]
        BY <1>11
      <3> QED
        BY <1>3, <3>1, <3>2
    <2> HIDE DEF x, y, piece
    <2>3. SubSeq(line, x + 1, y) = piece
      BY <1>3, <2>1, <2>2, PieceOf
    <2> QED
      BY <2>1, <2>3 DEF piece
  <1> QED
    BY <1>7, <1>12

\* Two stretches of a text and the separator between them.
LEMMA GlueAtSep ==
    ASSUME NEW U, NEW text \in Seq(U), NEW a \in 1 .. Len(text) + 1, NEW c \in 1 .. Len(text),
           NEW d \in 1 .. Len(text) + 1, a <= c, c < d, NEW sep, sep = text[c]
    PROVE  SubSeq(text, a, c - 1) \o (<< sep >> \o SubSeq(text, c + 1, d - 1)) = SubSeq(text, a, d - 1)
  <1>1. Len(text) \in Nat /\ \A i \in 1 .. Len(text) : text[i] \in U
    BY LenProperties, ElementOfSeq
  <1>2. ASSUME NEW x \in 1 .. Len(text) + 1, NEW y \in 0 .. Len(text), x <= y + 1
        PROVE  /\ SubSeq(text, x, y) \in Seq(U) /\ Len(SubSeq(text, x, y)) = y - x + 1
               /\ \A i \in 1 .. y - x + 1 : SubSeq(text, x, y)[i] = text[x + i - 1]
    <2>1. x \in Int /\ y \in Int /\ \A i \in x .. y : text[i] \in U
      BY <1>1
    <2>2. /\ SubSeq(text, x, y) \in Seq(U)
          /\ Len(SubSeq(text, x, y)) = IF x <= y THEN y - x + 1 ELSE 0
          /\ \A i \in 1 .. y - x + 1 : SubSeq(text, x, y)[i] = text[x + i - 1]
      BY <2>1, SubSeqProperties
    <2>3. ~ (x <= y) => y - x + 1 = 0
      BY <1>1, <1>2
    <2> QED
      BY <2>2, <2>3
  <1> DEFINE l == SubSeq(text, a, c - 1)
             r == SubSeq(text, c + 1, d - 1)
             s == << sep >>
             whole == SubSeq(text, a, d - 1)
             P == c - a
             R == d - c - 1
  <1>3. /\ l \in Seq(U) /\ Len(l) = P /\ P \in Nat
        /\ \A i \in 1 .. P : l[i] = text[a + i - 1]
    <2>1. c - 1 \in 0 .. Len(text) /\ a <= (c - 1) + 1 /\ (c - 1) - a + 1 = P /\ P \in Nat
      BY <1>1
    <2>2. /\ l \in Seq(U) /\ Len(l) = (c - 1) - a + 1
          /\ \A i \in 1 .. (c - 1) - a + 1 : l[i] = text[a + i - 1]
      BY <1>2, <2>1
    <2> HIDE DEF l, P
    <2> QED
      BY <2>1, <2>2
  <1>4. /\ r \in Seq(U) /\ Len(r) = R /\ R \in Nat
        /\ \A i \in 1 .. R : r[i] = text[c + i]
    <2>1. /\ c + 1 \in 1 .. Len(text) + 1 /\ d - 1 \in 0 .. Len(text) /\ c + 1 <= (d - 1) + 1
          /\ (d - 1) - (c + 1) + 1 = R /\ R \in Nat
      BY <1>1
    <2>2. /\ r \in Seq(U) /\ Len(r) = (d - 1) - (c + 1) + 1
          /\ \A i \in 1 .. (d - 1) - (c + 1) + 1 : r[i] = text[(c + 1) + i - 1]
      BY <1>2, <2>1
    <2>3. \A i \in 1 .. R : (c + 1) + i - 1 = c + i
      BY <2>1
    <2> HIDE DEF r, R
    <2> QED
      BY <2>1, <2>2, <2>3
  <1>5. /\ whole \in Seq(U) /\ Len(whole) = P + 1 + R
        /\ \A i \in 1 .. P + 1 + R : whole[i] = text[a + i - 1]
    <2>1. d - 1 \in 0 .. Len(text) /\ a <= (d - 1) + 1 /\ (d - 1) - a + 1 = P + 1 + R
      BY <1>1
    <2>2. /\ whole \in Seq(U) /\ Len(whole) = (d - 1) - a + 1
          /\ \A i \in 1 .. (d - 1) - a + 1 : whole[i] = text[a + i - 1]
      BY <1>2, <2>1
    <2> HIDE DEF whole, P, R
    <2> QED
      BY <2>1, <2>2
  <1>6. s \in Seq(U) /\ Len(s) = 1 /\ s[1] = sep
    BY <1>1
  <1>7. a + (P + 1) - 1 = c /\ \A i \in 1 .. R : a + (P + 1 + i) - 1 = c + i
    BY <1>4
  <1> HIDE DEF l, r, s, whole, P, R
  <1> DEFINE sr == s \o r
  <1>8. /\ sr \in Seq(U) /\ Len(sr) = 1 + R
        /\ \A i \in 1 .. 1 + R : sr[i] = IF i <= 1 THEN s[i] ELSE r[i - 1]
    <2>1. /\ sr \in Seq(U) /\ Len(sr) = Len(s) + Len(r)
          /\ \A i \in 1 .. Len(s) + Len(r) : sr[i] = IF i <= Len(s) THEN s[i] ELSE r[i - Len(s)]
      BY <1>4, <1>6, ConcatProperties
    <2>2. Len(s) = 1 /\ Len(r) = R
      BY <1>4, <1>6
    <2> HIDE DEF sr
    <2> QED
      BY <2>1, <2>2
  <1> HIDE DEF sr
  <1> DEFINE glued == l \o sr
  <1>9. /\ glued \in Seq(U) /\ Len(glued) = P + (1 + R)
        /\ \A i \in 1 .. P + (1 + R) : glued[i] = IF i <= P THEN l[i] ELSE sr[i - P]
    <2>1. /\ glued \in Seq(U) /\ Len(glued) = Len(l) + Len(sr)
          /\ \A i \in 1 .. Len(l) + Len(sr) : glued[i] = IF i <= Len(l) THEN l[i] ELSE sr[i - Len(l)]
      BY <1>3, <1>8, ConcatProperties
    <2>2. Len(l) = P /\ Len(sr) = 1 + R
      BY <1>3, <1>8
    <2> HIDE DEF glued
    <2> QED
      BY <2>1, <2>2
  <1> HIDE DEF glued
  <1>10. ASSUME NEW i \in 1 .. P + 1 + R PROVE glued[i] = whole[i]
    <2>1. i \in 1 .. P + (1 + R) /\ whole[i] = text[a + i - 1]
      BY <1>3, <1>4, <1>5
    <2>2. CASE i <= P
      <3>1. i \in 1 .. P
        BY <1>3, <2>2
      <3> QED
        BY <1>3, <1>9, <2>1, <2>2, <3>1
    <2>3. CASE i = P + 1
      <3>1. ~ (i <= P) /\ i - P = 1 /\ 1 \in 1 .. 1 + R /\ 1 <= 1
        BY <1>3, <1>4, <2>3
      <3>2. glued[i] = sep
        BY <1>6, <1>8, <1>9, <2>1, <3>1
      <3> QED
        BY <1>7, <2>1, <2>3, <3>2
    <2>4. CASE i > P + 1
      <3> DEFINE j == i - P - 1
      <3>1. /\ ~ (i <= P) /\ j \in 1 .. R /\ i - P = j + 1 /\ j + 1 \in 1 .. 1 + R /\ ~ (j + 1 <= 1)
            /\ (j + 1) - 1 = j /\ P + 1 + j = i
        BY <1>3, <1>4, <2>4
      <3> HIDE DEF j
      <3>2. glued[i] = r[j]
        BY <1>8, <1>9, <2>1, <3>1
      <3>3. text[a + i - 1] = text[c + j]
        BY <1>7, <3>1
      <3> QED
        BY <1>4, <2>1, <3>1, <3>2, <3>3
    <2> QED
      BY <1>3, <1>4, <2>2, <2>3, <2>4
  <1>11. Len(glued) = P + 1 + R
    BY <1>3, <1>4, <1>9
  <1>12. glued = whole
    BY <1>5, <1>9, <1>10, <1>11, SeqEqual
  <1> QED
    BY <1>12 DEF glued, sr, l, r, s, whole

\* The fields from one on, joined again, are the rest of the text.
LEMMA JoinOfSplit ==
    ASSUME NEW U, NEW text \in Seq(U), NEW sep \in U, NEW n, NEW at, CutsAt(text, sep, n, at),
           NEW k \in 1 .. n + 1, NEW f, f = Fields(text, n, at)
    PROVE  Join(SubSeq(f, k, Len(f)), sep) = SubSeq(text, at[k - 1] + 1, Len(text))
  <1> DEFINE c == k - 1
             M == n + 1 - c
             rest == SubSeq(f, k, Len(f))
             S == Seq(U)
             upTo(j) == SubSeq(text, at[c] + 1, at[c + j] - 1)
  <1>1. /\ n \in Nat /\ c \in Nat /\ M \in Nat /\ M > 0 /\ c + M = n + 1 /\ k = c + 1
        /\ Len(text) \in Nat /\ Len(f) = n + 1
    BY FieldsAre, LenProperties
  <1>2. \A i \in 1 .. n + 1 : f[i] \in S /\ f[i] = SubSeq(text, at[i - 1] + 1, at[i] - 1)
    <2>1. \A i \in 1 .. n + 1 : f[i] = SubSeq(text, at[i - 1] + 1, at[i] - 1)
      BY FieldsAre
    <2>2. \A i \in 1 .. Len(text) : text[i] \in U
      BY ElementOfSeq
    <2>3. \A i \in 1 .. n + 1 : SubSeq(text, at[i - 1] + 1, at[i] - 1) \in S
      BY <2>2, FieldType
    <2> QED
      BY <2>1, <2>3
  <1>3. /\ at[0] = 0 /\ at[n + 1] = Len(text) + 1
        /\ \A i \in 1 .. n : text[at[i]] = sep /\ at[i] <= Len(text)
        /\ \A i \in 1 .. n + 1 : /\ at[i - 1] \in 0 .. Len(text) /\ at[i] \in 1 .. Len(text) + 1
                                 /\ at[i - 1] < at[i]
    BY <1>1 DEF CutsAt
  <1> HIDE DEF S
  <1>4. /\ rest \in Seq(S) /\ Len(rest) = M
        /\ \A j \in 1 .. M : rest[j] = SubSeq(text, at[c + j - 1] + 1, at[c + j] - 1)
    <2> DEFINE N == n + 1
    <2>1. k \in Int /\ N \in Int /\ \A i \in k .. N : f[i] \in S
      BY <1>1, <1>2
    <2>3. rest = SubSeq(f, k, N) /\ k <= N /\ N - k + 1 = M
      BY <1>1
    <2> HIDE DEF rest, N, M
    <2>2. /\ rest \in Seq(S) /\ Len(rest) = IF k <= N THEN N - k + 1 ELSE 0
          /\ \A i \in 1 .. N - k + 1 : rest[i] = f[k + i - 1]
      BY <2>1, <2>3, SubSeqProperties
    <2>4. Len(rest) = M /\ rest \in Seq(S) /\ \A i \in 1 .. M : rest[i] = f[k + i - 1]
      BY <2>2, <2>3
    <2>5. \A j \in 1 .. M : k + j - 1 = c + j /\ c + j \in 1 .. n + 1
      BY <1>1 DEF M
    <2> HIDE DEF c
    <2>6. ASSUME NEW j \in 1 .. M PROVE rest[j] = SubSeq(text, at[c + j - 1] + 1, at[c + j] - 1)
      <3>1. c + j \in 1 .. n + 1 /\ rest[j] = f[c + j]
        BY <2>4, <2>5
      <3>2. \A i \in 1 .. n + 1 : f[i] = SubSeq(text, at[i - 1] + 1, at[i] - 1)
        BY <1>2
      <3>3. PICK i \in 1 .. n + 1 : i = c + j
        BY <3>1
      <3>4. f[i] = SubSeq(text, at[i - 1] + 1, at[i] - 1)
        BY <3>2
      <3>5. rest[j] = f[i]
        BY <3>1, <3>3
      <3>6. c + j - 1 = i - 1
        BY <1>1, <3>3
      <3> QED
        BY <3>3, <3>4, <3>5, <3>6
    <2> QED
      BY <2>4, <2>6
  <1> HIDE DEF c, M, rest
  <1>5. PICK g : /\ g \in [0 .. M -> Seq(U)] /\ g[1] = rest[1] /\ Join(rest, sep) = g[M]
                 /\ \A j \in 2 .. M : g[j] = g[j - 1] \o (<< sep >> \o rest[j])
    <2>1. rest \in Seq(Seq(U))
      BY <1>4 DEF S
    <2>2. \E h \in [0 .. Len(rest) -> Seq(U)] :
                 /\ h[0] = << >>
                 /\ Len(rest) > 0 => h[1] = rest[1]
                 /\ \A j \in 2 .. Len(rest) : h[j] = h[j - 1] \o (<< sep >> \o rest[j])
                 /\ Join(rest, sep) = h[Len(rest)]
      BY <2>1, JoinSteps
    <2>3. Len(rest) = M /\ M > 0
      BY <1>1, <1>4
    <2> QED
      BY <2>2, <2>3
  <1> DEFINE Same(j) == j + 1 <= M => g[j + 1] = upTo(j + 1) /\ at[c] < at[c + (j + 1)]
             Good == { j \in Nat : Same(j) }
  <1>6. Same(0)
    <2>1. 1 \in 1 .. M /\ c + 1 \in 1 .. n + 1 /\ (c + 1) - 1 = c /\ c + 1 - 1 = c /\ 0 + 1 = 1
      BY <1>1
    <2>2. rest[1] = SubSeq(text, at[c + 1 - 1] + 1, at[c + 1] - 1) /\ at[(c + 1) - 1] < at[c + 1]
      BY <1>3, <1>4, <2>1
    <2> QED
      BY <1>5, <2>1, <2>2
  <1>7. ASSUME NEW j \in Nat, Same(j) PROVE Same(j + 1)
    <2> SUFFICES ASSUME (j + 1) + 1 <= M
                 PROVE  g[(j + 1) + 1] = upTo((j + 1) + 1) /\ at[c] < at[c + ((j + 1) + 1)]
      OBVIOUS
    <2> DEFINE i == j + 1
               x == at[c] + 1
               y == at[c + i]
               z == at[c + (i + 1)]
    <2>1. i \in 1 .. M /\ i + 1 \in 2 .. M /\ i + 1 \in 1 .. M /\ (i + 1) - 1 = i /\ i <= M
      BY <1>1
    <2>2. /\ c + i \in 1 .. n /\ c + i \in 1 .. n + 1 /\ c + (i + 1) \in 1 .. n + 1
          /\ (c + (i + 1)) - 1 = c + i /\ c + (i + 1) - 1 = c + i /\ c + 1 \in 1 .. n + 1 /\ (c + 1) - 1 = c
      BY <1>1, <2>1
    <2>3. g[i] = SubSeq(text, x, y - 1) /\ at[c] < y
      BY <1>7, <2>1
    <2> HIDE DEF i
    <2>4. at[c] \in 0 .. Len(text)
      <3>1. at[(c + 1) - 1] \in 0 .. Len(text)
        BY <1>3, <2>2
      <3> QED
        BY <2>2, <3>1
    <2>5. y \in 1 .. Len(text) /\ text[y] = sep
      BY <1>1, <1>3, <2>2
    <2>6. z \in 1 .. Len(text) + 1 /\ y < z
      <3>1. at[(c + (i + 1)) - 1] < at[c + (i + 1)]
        BY <1>3, <2>2
      <3> QED
        BY <1>3, <2>2, <3>1
    <2>7. rest[i + 1] = SubSeq(text, y + 1, z - 1)
      <3>1. rest[i + 1] = SubSeq(text, at[c + (i + 1) - 1] + 1, at[c + (i + 1)] - 1)
        BY <1>4, <2>1
      <3> QED
        BY <2>2, <3>1
    <2>8. g[i + 1] = g[i] \o (<< sep >> \o rest[i + 1])
      <3>1. g[i + 1] = g[(i + 1) - 1] \o (<< sep >> \o rest[i + 1])
        BY <1>5, <2>1
      <3> QED
        BY <2>1, <3>1
    <2> DEFINE joined == g[i + 1]
    <2>9. joined = SubSeq(text, x, y - 1) \o (<< sep >> \o SubSeq(text, y + 1, z - 1))
      BY <2>3, <2>7, <2>8
    <2>10. x \in 1 .. Len(text) + 1 /\ x <= y /\ at[c] < z
      BY <1>1, <2>3, <2>4, <2>5, <2>6
    <2> HIDE DEF x, y, z, joined
    <2>11. SubSeq(text, x, y - 1) \o (<< sep >> \o SubSeq(text, y + 1, z - 1)) = SubSeq(text, x, z - 1)
      BY <2>5, <2>6, <2>10, GlueAtSep
    <2>12. joined = SubSeq(text, x, z - 1)
      BY <2>9, <2>11
    <2> QED
      BY <2>10, <2>12 DEF x, z, i, joined
  <1>8. Nat \subseteq Good
    <2> HIDE DEF Same
    <2>1. 0 \in Good /\ \A j \in Nat : j \in Good => j + 1 \in Good
      BY <1>6, <1>7
    <2> HIDE DEF Good
    <2> QED
      BY <2>1, NaturalsInSet
  <1>9. g[M] = upTo(M)
    <2> DEFINE j == M - 1
    <2>1. j \in Nat /\ j + 1 <= M /\ j + 1 = M
      BY <1>1
    <2>2. Same(j)
      <3> HIDE DEF Same, j
      <3> QED
        BY <1>8, <2>1
    <2> HIDE DEF j
    <2>3. g[j + 1] = upTo(j + 1)
      BY <2>1, <2>2
    <2> QED
      BY <2>1, <2>3
  <1>10. at[c + M] - 1 = Len(text)
    BY <1>1, <1>3
  <1>11. Join(rest, sep) = SubSeq(text, at[c] + 1, Len(text))
    BY <1>5, <1>9, <1>10
  <1> QED
    BY <1>11 DEF c, rest

\* No field holds a separator.
LEMMA FieldsAreClean ==
    ASSUME NEW U, NEW text \in Seq(U), NEW sep
    PROVE  \A k \in 1 .. Len(Split(text, sep)) : Split(text, sep)[k] \in Seq(U \ {sep})
  <1> DEFINE V == U \ {sep}
  <1>1. PICK n, at : CutsAt(text, sep, n, at) /\ Split(text, sep) = Fields(text, n, at)
    BY SplitLayout
  <1>2. /\ n \in Nat /\ Len(Split(text, sep)) = n + 1
        /\ \A k \in 1 .. n + 1 : Split(text, sep)[k] = SubSeq(text, at[k - 1] + 1, at[k] - 1)
    BY <1>1, FieldsAre
  <1>3. ASSUME NEW k \in 1 .. n + 1 PROVE SubSeq(text, at[k - 1] + 1, at[k] - 1) \in Seq(V)
    <2>1. \A i \in 1 .. Len(text) : text[i] \in U
      BY ElementOfSeq
    <2>2. \A i \in at[k - 1] + 1 .. at[k] - 1 : text[i] # sep
      BY <1>1 DEF CutsAt
    <2>3. \A i \in at[k - 1] + 1 .. at[k] - 1 : i \in 1 .. Len(text) => text[i] \in V
      BY <2>1, <2>2
    <2> HIDE DEF V
    <2> QED
      BY <1>1, <2>3, FieldType
  <1> QED
    BY <1>2, <1>3

\* Joining no text gives nothing.
LEMMA JoinOfNone ==
    ASSUME NEW U, NEW texts \in Seq(Seq(U)), NEW sep \in U
    PROVE  texts = << >> => Join(texts, sep) = << >>
  <1>1. PICK f \in [0 .. Len(texts) -> Seq(U)] : f[0] = << >> /\ Join(texts, sep) = f[Len(texts)]
    BY JoinSteps
  <1>2. texts = << >> => Len(texts) = 0
    OBVIOUS
  <1> QED
    BY <1>1, <1>2

\* Texts that are not all empty do not vanish when they are joined.
LEMMA JoinedNotEmpty ==
    ASSUME NEW U, NEW texts \in Seq(Seq(U)), NEW sep \in U, texts # << >>, texts # << << >> >>
    PROVE  Join(texts, sep) # << >>
  <1> DEFINE J == Join(texts, sep)
             N == Len(texts)
  <1>1. N \in Nat /\ N > 0 /\ \A k \in 1 .. N : texts[k] \in Seq(U) /\ Len(texts[k]) \in Nat
    BY LenProperties, ElementOfSeq, EmptySeq
  <1>2. J \in Seq(U) /\ Len(J) \in Nat /\ \E p : JoinedAt(texts, sep, J, p)
    BY JoinLayout
  <1> HIDE DEF J
  <1> SUFFICES ASSUME J = << >> PROVE FALSE
    BY DEF J
  <1>3. Len(J) = 0
    BY EmptySeq
  <1>4. PICK p : JoinedAt(texts, sep, J, p)
    BY <1>2
  <1>5. p[0] = 0 /\ p[1] = p[0] + Len(texts[1]) + 1 /\ p[1] <= Len(J) + 1 /\ (1 < N => p[1] <= Len(J))
    <2>1. 1 \in 1 .. N /\ 1 - 1 = 0
      BY <1>1
    <2> QED
      BY <1>4, <2>1 DEF JoinedAt
  <1>6. Len(texts[1]) \in Nat /\ texts[1] \in Seq(U) /\ 1 \in 1 .. N
    BY <1>1
  <1> HIDE DEF N
  <1>7. Len(texts[1]) = 0 /\ N = 1
    BY <1>1, <1>3, <1>5, <1>6
  <1>8. texts[1] = << >>
    BY <1>6, <1>7, EmptySeq
  <1>9. texts = << << >> >>
    <2> DEFINE S == Seq(U)
               one == << << >> >>
    <2>1. texts \in Seq(S) /\ one \in Seq(S) /\ Len(one) = 1 /\ one[1] = << >>
      OBVIOUS
    <2>2. Len(texts) = 1
      BY <1>7 DEF N
    <2> HIDE DEF S, one
    <2>3. texts = one
      <3>1. \A i \in 1 .. 1 : texts[i] = one[i]
        BY <1>8, <2>1
      <3> QED
        BY <2>1, <2>2, <3>1, SeqEqual
    <2> QED
      BY <2>3 DEF one
  <1> QED
    BY <1>9

\* A whole line reads as the block it was made from, unless a text has a comma.
LEMMA WholeLineReads ==
    ASSUME NEW b \in BlockSet, b.txs # << << >> >>
    PROVE  FromLine(ToLine(b)) = b <=> Clean(b)
  <1> DEFINE J == Join(b.txs, Comma)
             t == ToLine(b)
             f == Split(t, Bar)
             blob == Join(SubSeq(f, 6, Len(f)), Bar)
             txs == IF J = << >> THEN << >> ELSE Split(J, Comma)
  <1>1. /\ J \in Seq(Tokens) /\ t \in Seq(Token) /\ Len(t) = 10 + Len(J)
        /\ \A i \in 1 .. Len(J) : t[10 + i] = J[i]
    BY ToLineLayout
  <1>2. b.txs \in Seq(Seq(Tokens)) /\ Comma \in Tokens /\ Bar \in Token
    BY BlockFields, WireAssumption DEF Token
  <1>3. Len(J) \in Nat /\ Len(t) \in Nat /\ Len(t) >= 10
    <2>1. Len(J) \in Nat /\ Len(t) \in Nat
      BY <1>1, LenProperties
    <2> QED
      BY <1>1, <2>1
  <1>4. Begins(t, b)
    <2>1. Len(t) \in 1 .. Len(t)
      BY <1>3
    <2> QED
      BY <1>1, <2>1 DEF Begins
  <1>5. /\ Len(f) \in Nat /\ Len(f) >= 6
        /\ f[1][1] = b.height /\ f[2][1] = b.stamp /\ f[3][1] = b.difficulty
        /\ f[4][1] = b.zeros /\ f[5][1] = b.prev
    BY <1>3, <1>4, LineFields
  <1>6. PICK n, at : CutsAt(t, Bar, n, at) /\ f = Fields(t, n, at)
    BY <1>1, SplitLayout
  <1>7. n >= 5 /\ at[5] = 10
    BY <1>3, <1>4, <1>6, FirstBars
  <1>8. n \in Nat /\ 6 \in 1 .. n + 1 /\ 6 - 1 = 5 /\ 10 + 1 = 11
    BY <1>6, <1>7 DEF CutsAt
  <1> HIDE DEF J, t, f
  <1>9. blob = SubSeq(t, 11, Len(t))
    <2>1. blob = SubSeq(t, at[6 - 1] + 1, Len(t))
      BY <1>1, <1>2, <1>6, <1>8, JoinOfSplit
    <2> QED
      BY <1>7, <1>8, <2>1
  <1>10. SubSeq(t, 11, Len(t)) = J
    <2> DEFINE s == SubSeq(t, 11, Len(t))
               L == Len(J)
    <2>1. \A i \in 1 .. Len(t) : t[i] \in Token
      BY <1>1, ElementOfSeq
    <2>2. 11 \in Int /\ Len(t) \in Int /\ \A i \in 11 .. Len(t) : t[i] \in Token
      BY <1>3, <2>1
    <2>3. /\ s \in Seq(Token) /\ Len(s) = IF 11 <= Len(t) THEN Len(t) - 11 + 1 ELSE 0
          /\ \A i \in 1 .. Len(t) - 11 + 1 : s[i] = t[11 + i - 1]
      BY <2>2, SubSeqProperties
    <2>4. Len(t) = 10 + L /\ L \in Nat
      BY <1>1, <1>3
    <2> HIDE DEF s, L
    <2>5. Len(s) = L /\ \A i \in 1 .. L : s[i] = t[10 + i]
      <3>1. Len(s) = L /\ \A i \in 1 .. L : 11 + i - 1 = 10 + i /\ i \in 1 .. Len(t) - 11 + 1
        BY <2>3, <2>4
      <3> QED
        BY <2>3, <3>1
    <2>6. J \in Seq(Token)
      <3>1. Tokens \subseteq Token
        BY DEF Token
      <3> QED
        BY <1>1, <3>1, SeqMonotonic
    <2>7. \A i \in 1 .. L : s[i] = J[i]
      BY <1>1, <2>5 DEF L
    <2>8. s = J
      BY <2>3, <2>4, <2>5, <2>6, <2>7, SeqEqual DEF L
    <2> QED
      BY <2>8 DEF s
  <1>11. FromLine(t) = [height |-> b.height, stamp |-> b.stamp, difficulty |-> b.difficulty,
                        zeros |-> b.zeros, prev |-> b.prev, txs |-> txs]
    <2>1a. ~ (Len(f) < 6)
      BY <1>5
    <2>1b. blob = J
      BY <1>9, <1>10
    <2>1. ~ (Len(f) < 6) /\ blob = J
      BY <2>1a, <2>1b
    <2>2. FromLine(t) = IF Len(f) < 6 THEN EmptyBlock
                        ELSE [height |-> f[1][1], stamp |-> f[2][1], difficulty |-> f[3][1],
                              zeros |-> f[4][1], prev |-> f[5][1],
                              txs |-> IF blob = << >> THEN << >> ELSE Split(blob, Comma)]
      BY DEF FromLine, f
    <2> HIDE DEF blob
    <2> QED
      BY <1>5, <2>1, <2>2
  <1> HIDE DEF txs
  <1>12. FromLine(t) = b <=> txs = b.txs
    BY <1>11 DEF BlockSet
  <1>13. Clean(b) <=> \A k \in 1 .. Len(b.txs) : \A j \in 1 .. Len(b.txs[k]) : b.txs[k][j] # Comma
    <2> DEFINE S == Seq(Tokens)
    <2>1. DOMAIN b.txs = 1 .. Len(b.txs) /\ \A k \in 1 .. Len(b.txs) : b.txs[k] \in S
      <3> HIDE DEF S
      <3>1. b.txs \in Seq(S)
        BY <1>2 DEF S
      <3> QED
        BY <3>1, LenProperties, ElementOfSeq
    <2>2. \A k \in 1 .. Len(b.txs) : DOMAIN b.txs[k] = 1 .. Len(b.txs[k])
      BY <2>1, LenProperties
    <2>3. \A k \in 1 .. Len(b.txs) :
            Comma \notin ToSet(b.txs[k]) <=> \A j \in 1 .. Len(b.txs[k]) : b.txs[k][j] # Comma
      BY <2>2 DEF ToSet
    <2> QED
      BY <2>1, <2>3 DEF Clean
  <1>14. CASE b.txs = << >>
    <2>1. J = << >>
      BY <1>2, <1>14, JoinOfNone DEF J
    <2>2. Clean(b)
      BY <1>14 DEF Clean
    <2> QED
      BY <1>12, <1>14, <2>1, <2>2 DEF txs, t
  <1>15. CASE b.txs # << >>
    <2>1. txs = Split(J, Comma)
      BY <1>2, <1>15, JoinedNotEmpty DEF txs, J
    <2>2. ASSUME Clean(b) PROVE Split(J, Comma) = b.txs
      BY <1>2, <1>13, <1>15, <2>2, SplitOfJoin DEF J
    <2>3. ASSUME Split(J, Comma) = b.txs PROVE Clean(b)
      <3>1. \A k \in 1 .. Len(b.txs) : b.txs[k] \in Seq(Tokens \ {Comma})
        BY <1>1, <2>3, FieldsAreClean
      <3>2. ASSUME NEW s \in Seq(Tokens \ {Comma}), NEW j \in 1 .. Len(s) PROVE s[j] # Comma
        BY ElementOfSeq
      <3>3. \A k \in 1 .. Len(b.txs) : \A j \in 1 .. Len(b.txs[k]) : b.txs[k][j] # Comma
        BY <3>1, <3>2
      <3> QED
        BY <1>13, <3>3
    <2> QED
      BY <1>12, <2>1, <2>2, <2>3 DEF t
  <1> QED
    BY <1>14, <1>15

------------------------------------------------------------------------------
\* An answer that arrives whole reads back

\* Up to a break the stream does not end, and the loop ends at the end mark.
Unbroken ==
    ~ lost =>
        /\ ~ atEof
        /\ ~ reading => \/ wire = Payload
                        \/ Len(taken) = Len(lines) /\ \A i \in 1 .. Len(taken) : taken[i] = lines[i]

\* recv has no end of a connection to report before the end mark was sent.
LEMMA EndIsLoss ==
    ASSUME FetchInv, RecvEnd
    PROVE  lost
  <1> SUFFICES ASSUME ~ lost PROVE FALSE
    OBVIOUS
  <1> DEFINE k == Len(taken)
             p == Begin[k]
             q == p + Len(buf)
  <1>1. reading /\ ~ HasLine /\ ~ atEof /\ wire = << >> /\ Sent
    BY DEF RecvEnd, FetchInv
  <1>2. Payload \in Seq(Char) /\ Len(Payload) \in Nat /\ Layout(Begin) /\ Len(lines) \in Nat
    BY <1>1, SentLines, BeginIsLayout
  <1>3. k \in 0 .. Len(lines) /\ buf \in Seq(Char) /\ Len(buf) \in Nat
    BY <1>2, LenProperties DEF FetchInv, TakenArePrefixes, FlagsTyped
  <1>4. InStep /\ wire = SubSeq(Payload, q + 1, Len(Payload)) /\ q <= Len(Payload)
    BY <1>1 DEF FetchInv, Over, InStep
  <1>5. k + 1 \in 1 .. Len(lines) + 1 /\ (k + 1) - 1 = k /\ k \in 0 .. Len(lines) + 1
    BY <1>2, <1>3
  <1>6. p \in Nat /\ Begin[k + 1] = p + Len(Wanted(k + 1)) + 1 /\ Begin[k + 1] <= Len(Payload)
    BY <1>2, <1>5 DEF Layout
  <1>7. Len(buf) <= Len(Wanted(k + 1)) /\ Len(Wanted(k + 1)) \in Nat
    BY <1>1, <1>3, <1>4, CutLineBegins
  <1> HIDE DEF p, k
  <1>8. q \in 0 .. Len(Payload) /\ q < Len(Payload)
    BY <1>2, <1>3, <1>6, <1>7
  <1> HIDE DEF q
  <1>9. Len(wire) = Len(Payload) - q
    <2>1. Len(wire) = 0 /\ 0 \in 0 .. Len(wire)
      BY <1>1
    <2> QED
      BY <1>2, <1>4, <1>8, <2>1, RestOfRest
  <1> QED
    BY <1>1, <1>2, <1>8, <1>9

LEMMA StepUnbroken ==
    ASSUME FetchInv, Unbroken, [Next]_vars
    PROVE  Unbroken'
  <1>1. CASE NoConnection
    <2>1. Payload' = Payload
      BY <1>1, BeginStays DEF NoConnection
    <2> QED
      BY <1>1, <2>1 DEF NoConnection, Unbroken, readerVars
  <1>2. CASE Lose
    BY <1>2 DEF Lose, Unbroken
  <1>3. CASE Recv
    BY <1>3 DEF Recv, Unbroken
  <1>4. CASE RecvEnd
    BY <1>4, EndIsLoss DEF RecvEnd, Unbroken
  <1>5. CASE TakeLine
    <2> SUFFICES ASSUME ~ lost' PROVE Unbroken'
      BY DEF Unbroken
    <2>1. ~ lost /\ reading /\ ~ atEof /\ ~ atEof' /\ lines' = lines
      BY <1>5 DEF TakeLine, Unbroken
    <2>2. CASE Ends
      <3>1. Len(taken) = Len(lines) /\ taken' = taken
        BY <2>1, <2>2 DEF Ends, Over
      <3>2. InStep
        BY <2>1 DEF FetchInv, Over
      <3> QED
        BY <2>1, <3>1, <3>2 DEF Unbroken, InStep
    <2>3. CASE TakesWhole \/ TakesCut
      BY <2>1, <2>3 DEF TakesWhole, TakesCut, Unbroken
    <2> QED
      BY <1>5, <2>2, <2>3, ReadLineReturns
  <1>6. CASE UNCHANGED vars
    <2>1. Payload' = Payload
      BY <1>6, BeginStays DEF vars
    <2> QED
      BY <1>6, <2>1 DEF vars, readerVars, Unbroken
  <1> QED
    BY <1>1, <1>2, <1>3, <1>4, <1>5, <1>6 DEF Next

LEMMA ReadsBackHolds ==
    ASSUME FetchInv, Unbroken
    PROVE  ReadsBackWhenClean
  <1> SUFFICES ASSUME ~ reading, ~ lost, wire = << >>
               PROVE  fetched = answer <=> \A i \in DOMAIN answer : Clean(answer[i])
    BY DEF ReadsBackWhenClean
  <1>1. Payload # << >>
    BY PayloadNotEmpty, EmptySeq DEF FetchInv
  <1>2. Len(taken) = Len(lines) /\ \A i \in 1 .. Len(taken) : taken[i] = lines[i]
    BY <1>1 DEF Unbroken
  <1>3. /\ Len(answer) \in Nat /\ Len(lines) = Len(answer)
        /\ \A i \in 1 .. Len(lines) : answer[i] \in BlockSet /\ lines[i] = ToLine(answer[i])
    BY SentLines DEF FetchInv
  <1>4. /\ fetched \in Seq(BlockSet) /\ Len(fetched) = Len(answer)
        /\ \A i \in 1 .. Len(answer) : fetched[i] = FromLine(ToLine(answer[i]))
    <2>1. DOMAIN taken = 1 .. Len(answer)
      BY <1>2, <1>3, LenProperties DEF FetchInv, TakenArePrefixes
    <2>2. \A i \in 1 .. Len(answer) : fetched[i] = FromLine(taken[i])
      BY <2>1 DEF fetched
    <2> QED
      BY <1>2, <1>3, <2>2, FetchedBlocks
  <1>5. answer \in Seq(BlockSet) /\ DOMAIN answer = 1 .. Len(answer)
        /\ \A i \in 1 .. Len(answer) : answer[i].txs # << << >> >>
    BY FetchAssumption, LenProperties DEF FetchInv, Sent
  <1>6. \A i \in 1 .. Len(answer) : fetched[i] = answer[i] <=> Clean(answer[i])
    BY <1>3, <1>4, <1>5, WholeLineReads
  <1>7. fetched = answer <=> \A i \in 1 .. Len(answer) : fetched[i] = answer[i]
    BY <1>4, <1>5, SeqEqual
  <1> QED
    BY <1>5, <1>6, <1>7

\* An answer that arrives whole reads back as the peer's chain if and only if no
\* text in it has a comma, whatever the chain and however its bytes were cut
\* into sends and receives (block.hpp:47-93, sockets_compat.hpp:125-149).
THEOREM ReadsBack == Spec => []ReadsBackWhenClean
  <1>1. Init => Unbroken
    BY DEF Init, Unbroken
  <1>2. FetchInv /\ Unbroken /\ [Next]_vars => Unbroken'
    BY StepUnbroken
  <1>3. FetchInv /\ Unbroken => ReadsBackWhenClean
    BY ReadsBackHolds
  <1> QED
    BY <1>1, <1>2, <1>3, FetchInvariant, PTL DEF Spec

------------------------------------------------------------------------------
\* A transaction is read back or refused

\* The six joined texts that are signed.
PayloadTexts(tx) ==
    << << tx.type >>, << tx.sender >>, tx.receiver, << tx.amount >>, << tx.nonce >>,
       << tx.timestamp >> >>

\* What is signed says which token is which, whatever the receiver brings along.
LEMMA PayloadIsLaid ==
    ASSUME NEW U, Bar \in U, NEW tx, tx.receiver \in Seq(U),
           tx.type \in U, tx.sender \in U, tx.amount \in U, tx.nonce \in U, tx.timestamp \in U
    PROVE  LET p == SigningPayload(tx)
               L == Len(tx.receiver)
           IN  /\ p \in Seq(U) /\ L \in Nat /\ Len(p) = L + 10
               /\ p[1] = tx.type /\ p[3] = tx.sender
               /\ \A j \in 1 .. L : p[4 + j] = tx.receiver[j]
               /\ p[L + 6] = tx.amount /\ p[L + 8] = tx.nonce /\ p[L + 10] = tx.timestamp
  <1> DEFINE texts == PayloadTexts(tx)
             p == SigningPayload(tx)
             L == Len(tx.receiver)
  <1>1. texts \in Seq(Seq(U)) /\ Len(texts) = 6
    BY DEF PayloadTexts
  <1>2. /\ texts[1] = << tx.type >> /\ texts[2] = << tx.sender >> /\ texts[3] = tx.receiver
        /\ texts[4] = << tx.amount >> /\ texts[5] = << tx.nonce >> /\ texts[6] = << tx.timestamp >>
    BY DEF PayloadTexts
  <1>3. L \in Nat
    BY LenProperties
  <1>4. p = Join(texts, Bar)
    BY DEF SigningPayload, PayloadTexts
  <1> HIDE DEF texts, p, L
  <1>5. texts # << >>
    BY <1>1
  <1>6. PICK at : JoinedAt(texts, Bar, p, at)
    BY <1>1, <1>4, <1>5, JoinLayout
  <1>7. p \in Seq(U) /\ Len(p) \in Nat
    BY <1>1, <1>4, <1>5, JoinLayout
  <1>8. /\ at[0] = 0 /\ at[6] = Len(p) + 1
        /\ \A k \in 1 .. 6 :
             /\ at[k - 1] \in Nat /\ at[k] = at[k - 1] + Len(texts[k]) + 1
             /\ \A j \in 1 .. Len(texts[k]) : p[at[k - 1] + j] = texts[k][j]
    BY <1>1, <1>6 DEF JoinedAt
  <1>9. /\ at[1] = at[0] + Len(texts[1]) + 1 /\ at[2] = at[1] + Len(texts[2]) + 1
        /\ at[3] = at[2] + Len(texts[3]) + 1 /\ at[4] = at[3] + Len(texts[4]) + 1
        /\ at[5] = at[4] + Len(texts[5]) + 1 /\ at[6] = at[5] + Len(texts[6]) + 1
    <2>0. {1, 2, 3, 4, 5, 6} \subseteq 1 .. 6
      OBVIOUS
    <2>a. \A k \in 1 .. 6 : at[k] = at[k - 1] + Len(texts[k]) + 1
      BY <1>8
    <2>1. \A k \in {1, 2, 3, 4, 5, 6} : at[k] = at[k - 1] + Len(texts[k]) + 1
      BY <2>0, <2>a
    <2>2. 1 - 1 = 0 /\ 2 - 1 = 1 /\ 3 - 1 = 2 /\ 4 - 1 = 3 /\ 5 - 1 = 4 /\ 6 - 1 = 5
      OBVIOUS
    <2> QED
      BY <2>1, <2>2
  <1>10. /\ Len(texts[1]) = 1 /\ Len(texts[2]) = 1 /\ Len(texts[3]) = L
         /\ Len(texts[4]) = 1 /\ Len(texts[5]) = 1 /\ Len(texts[6]) = 1
    BY <1>2 DEF L
  <1>11. /\ at[0] = 0 /\ at[1] = 2 /\ at[2] = 4 /\ at[3] = L + 5 /\ at[4] = L + 7 /\ at[5] = L + 9
         /\ at[6] = L + 11
    BY <1>3, <1>8, <1>9, <1>10
  <1>12. Len(p) = L + 10
    BY <1>3, <1>7, <1>8, <1>11
  <1>13. /\ p[at[0] + 1] = texts[1][1] /\ p[at[1] + 1] = texts[2][1]
         /\ \A j \in 1 .. L : p[at[2] + j] = texts[3][j]
         /\ p[at[3] + 1] = texts[4][1] /\ p[at[4] + 1] = texts[5][1] /\ p[at[5] + 1] = texts[6][1]
    <2>0. {1, 2, 3, 4, 5, 6} \subseteq 1 .. 6
      OBVIOUS
    <2>a. \A k \in 1 .. 6 : \A j \in 1 .. Len(texts[k]) : p[at[k - 1] + j] = texts[k][j]
      BY <1>8
    <2>1. \A k \in {1, 2, 3, 4, 5, 6} :
            \A j \in 1 .. Len(texts[k]) : p[at[k - 1] + j] = texts[k][j]
      BY <2>0, <2>a
    <2>2. 1 - 1 = 0 /\ 2 - 1 = 1 /\ 3 - 1 = 2 /\ 4 - 1 = 3 /\ 5 - 1 = 4 /\ 6 - 1 = 5 /\ 1 \in 1 .. 1
      OBVIOUS
    <2> QED
      BY <1>10, <2>1, <2>2
  <1>14. /\ texts[1][1] = tx.type /\ texts[2][1] = tx.sender /\ texts[3] = tx.receiver
         /\ texts[4][1] = tx.amount /\ texts[5][1] = tx.nonce /\ texts[6][1] = tx.timestamp
    BY <1>2
  <1>15. (L + 5) + 1 = L + 6 /\ (L + 7) + 1 = L + 8 /\ (L + 9) + 1 = L + 10 /\ 0 + 1 = 1 /\ 2 + 1 = 3
    BY <1>3
  <1> QED
    BY <1>3, <1>7, <1>11, <1>12, <1>13, <1>14, <1>15 DEF p, L

\* So two transactions with one payload are one transaction: a signature is for
\* one receiver, one amount, one nonce and one time.
LEMMA PayloadIsOfOne ==
    ASSUME NEW U, Bar \in U,
           NEW a, a.receiver \in Seq(U), a.type \in U, a.sender \in U, a.amount \in U,
           a.nonce \in U, a.timestamp \in U,
           NEW b, b.receiver \in Seq(U), b.type \in U, b.sender \in U, b.amount \in U,
           b.nonce \in U, b.timestamp \in U,
           SigningPayload(a) = SigningPayload(b)
    PROVE  /\ a.type = b.type /\ a.sender = b.sender /\ a.receiver = b.receiver
           /\ a.amount = b.amount /\ a.nonce = b.nonce /\ a.timestamp = b.timestamp
  <1> DEFINE p == SigningPayload(a)
             q == SigningPayload(b)
             L == Len(a.receiver)
             M == Len(b.receiver)
  <1>1. /\ p \in Seq(U) /\ L \in Nat /\ Len(p) = L + 10
        /\ p[1] = a.type /\ p[3] = a.sender
        /\ \A j \in 1 .. L : p[4 + j] = a.receiver[j]
        /\ p[L + 6] = a.amount /\ p[L + 8] = a.nonce /\ p[L + 10] = a.timestamp
    BY PayloadIsLaid
  <1>2. /\ q \in Seq(U) /\ M \in Nat /\ Len(q) = M + 10
        /\ q[1] = b.type /\ q[3] = b.sender
        /\ \A j \in 1 .. M : q[4 + j] = b.receiver[j]
        /\ q[M + 6] = b.amount /\ q[M + 8] = b.nonce /\ q[M + 10] = b.timestamp
    BY PayloadIsLaid
  <1>3. p = q
    OBVIOUS
  <1> HIDE DEF p, q
  <1>4. L = M
    <2> HIDE DEF L, M
    <2>1. L + 10 = M + 10
      BY <1>1, <1>2, <1>3
    <2> QED
      BY <1>1, <1>2, <2>1
  <1>5. \A j \in 1 .. L : a.receiver[j] = b.receiver[j]
    BY <1>1, <1>2, <1>3, <1>4
  <1>6. a.receiver = b.receiver
    <2> DEFINE r == a.receiver
               s == b.receiver
    <2>1. r \in Seq(U) /\ s \in Seq(U) /\ Len(r) = Len(s) /\ \A j \in 1 .. Len(r) : r[j] = s[j]
      BY <1>4, <1>5
    <2> HIDE DEF r, s
    <2>2. r = s
      BY <2>1, SeqEqual
    <2> QED
      BY <2>2 DEF r, s
  <1> QED
    BY <1>1, <1>2, <1>3, <1>4, <1>6

\* Whatever text is read: what verify() accepts as a transaction is that transaction.
LEMMA VerifiedIsSigned ==
    ASSUME NEW T, Bar \in T, NEW line \in Seq(T), NEW tx \in TxSet
    PROVE  ~ TxLineThrows(line) /\ VerifiesAs(TxFromLine(line), tx) => TxFromLine(line) = tx
  <1> DEFINE f == Split(line, Bar)
             got == TxFromLine(line)
             read == [type |-> f[1][1], sender |-> f[2][1], receiver |-> f[3], amount |-> f[4][1],
                      nonce |-> f[5][1], timestamp |-> f[6][1], pubKey |-> Only(f[7]),
                      signature |-> Only(f[8])]
  <1> SUFFICES ASSUME ~ TxLineThrows(line), VerifiesAs(got, tx) PROVE got = tx
    OBVIOUS
  <1>1. f \in Seq(Seq(T))
    BY SplitType
  <1>2. \/ Len(f) < 8 /\ got = EmptyTx
        \/ ~ (Len(f) < 8) /\ got = read
    BY DEF TxFromLine
  <1>3. \E V : got.receiver \in Seq(V)
    <2>1. CASE got = EmptyTx
      <3>1. EmptyTx.receiver = << >> /\ << >> \in Seq(T)
        BY DEF EmptyTx
      <3> QED
        BY <2>1, <3>1
    <2>2. CASE ~ (Len(f) < 8) /\ got = read
      <3>1. got.receiver = f[3]
        <4> HIDE DEF f, got
        <4> QED
          BY <2>2
      <3> HIDE DEF f, got, read
      <3>2. f[3] \in Seq(T)
        <4> DEFINE S == Seq(T)
        <4>1. f \in Seq(S)
          BY <1>1
        <4> HIDE DEF S
        <4>2. Len(f) \in Nat
          BY <4>1, LenProperties
        <4>3. 3 \in 1 .. Len(f)
          BY <2>2, <4>2
        <4>4. f[3] \in S
          BY <4>1, <4>3, ElementOfSeq
        <4> QED
          BY <4>4 DEF S
      <3> QED
        BY <3>1, <3>2
    <2> QED
      BY <1>2, <2>1, <2>2
  <1>4. got = [type |-> got.type, sender |-> got.sender, receiver |-> got.receiver,
               amount |-> got.amount, nonce |-> got.nonce, timestamp |-> got.timestamp,
               pubKey |-> got.pubKey, signature |-> got.signature]
    <2>1. CASE got = EmptyTx
      <3> HIDE DEF got
      <3> QED
        BY <2>1 DEF EmptyTx
    <2>2. CASE got = read
      <3> HIDE DEF got, f
      <3> QED
        BY <2>2
    <2> QED
      BY <1>2, <2>1, <2>2
  <1> HIDE DEF got
  <1>5. PICK V : got.receiver \in Seq(V)
    BY <1>3
  <1> DEFINE U == V \cup Tokens \cup {Bar, got.type, got.sender, got.amount, got.nonce, got.timestamp}
  <1>6. /\ tx.receiver \in Seq(Tokens) /\ tx.type \in Tokens /\ tx.sender \in Tokens
        /\ tx.amount \in Tokens /\ tx.nonce \in Tokens /\ tx.timestamp \in Tokens
        /\ tx = [type |-> tx.type, sender |-> tx.sender, receiver |-> tx.receiver,
                 amount |-> tx.amount, nonce |-> tx.nonce, timestamp |-> tx.timestamp,
                 pubKey |-> tx.pubKey, signature |-> tx.signature]
    BY DEF TxSet, Word, Number
  <1>7. /\ Bar \in U /\ got.type \in U /\ got.sender \in U /\ got.amount \in U
        /\ got.nonce \in U /\ got.timestamp \in U
        /\ tx.type \in U /\ tx.sender \in U /\ tx.amount \in U /\ tx.nonce \in U /\ tx.timestamp \in U
        /\ V \subseteq U /\ Tokens \subseteq U
    BY <1>6
  <1> HIDE DEF U
  <1>8. got.receiver \in Seq(U) /\ tx.receiver \in Seq(U)
    BY <1>5, <1>6, <1>7, SeqMonotonic
  <1>9. /\ SigningPayload(got) = SigningPayload(tx)
        /\ got.pubKey = tx.pubKey /\ got.signature = tx.signature
    BY DEF VerifiesAs
  <1>10. /\ got.type = tx.type /\ got.sender = tx.sender /\ got.receiver = tx.receiver
         /\ got.amount = tx.amount /\ got.nonce = tx.nonce /\ got.timestamp = tx.timestamp
    BY <1>7, <1>8, <1>9, PayloadIsOfOne
  <1> QED
    BY <1>4, <1>6, <1>9, <1>10

\* The eight texts of a transaction's line.
LineTexts(tx) ==
    << << tx.type >>, << tx.sender >>, tx.receiver, << tx.amount >>, << tx.nonce >>,
       << tx.timestamp >>, << tx.pubKey >>, << tx.signature >> >>

\* Joined texts with one more behind them.
LEMMA JoinOneMore ==
    ASSUME NEW U, NEW sep \in U, NEW texts \in Seq(Seq(U)), texts # << >>, NEW more \in Seq(Seq(U)),
           Len(more) = Len(texts) + 1, \A k \in 1 .. Len(texts) : more[k] = texts[k]
    PROVE  Join(more, sep) = Join(texts, sep) \o (<< sep >> \o more[Len(more)])
  <1> DEFINE N == Len(texts)
             M == Len(more)
             S == Seq(U)
  <1>1. N \in Nat /\ N >= 1 /\ M = N + 1 /\ \A k \in 1 .. N : more[k] = texts[k]
    <2>1. texts \in Seq(S) /\ texts # << >>
      OBVIOUS
    <2> HIDE DEF S
    <2>2. N \in Nat /\ N # 0
      BY <2>1
    <2> QED
      BY <2>2
  <1>a. \E f \in [0 .. Len(texts) -> Seq(U)] :
          /\ f[0] = << >>
          /\ Len(texts) > 0 => f[1] = texts[1]
          /\ \A n \in 2 .. Len(texts) : f[n] = f[n - 1] \o (<< sep >> \o texts[n])
          /\ Join(texts, sep) = f[Len(texts)]
    BY JoinSteps
  <1>b. \E f \in [0 .. Len(more) -> Seq(U)] :
          /\ f[0] = << >>
          /\ Len(more) > 0 => f[1] = more[1]
          /\ \A n \in 2 .. Len(more) : f[n] = f[n - 1] \o (<< sep >> \o more[n])
          /\ Join(more, sep) = f[Len(more)]
    BY JoinSteps
  <1> HIDE DEF S, N, M
  <1>2. PICK f : /\ N > 0 => f[1] = texts[1]
                 /\ \A k \in 2 .. N : f[k] = f[k - 1] \o (<< sep >> \o texts[k])
                 /\ Join(texts, sep) = f[N]
    BY <1>a DEF N
  <1>3. PICK g : /\ M > 0 => g[1] = more[1]
                 /\ \A k \in 2 .. M : g[k] = g[k - 1] \o (<< sep >> \o more[k])
                 /\ Join(more, sep) = g[M]
    BY <1>b DEF M
  <1> DEFINE Fine(k) == k \in 1 .. N => g[k] = f[k]
             Good == { k \in Nat : Fine(k) }
  <1>4. Fine(1)
    <2>1. 1 \in 1 .. N /\ N > 0 /\ M > 0
      BY <1>1
    <2> QED
      BY <1>1, <1>2, <1>3, <2>1
  <1>5. ASSUME NEW k \in Nat, Fine(k) PROVE Fine(k + 1)
    <2>1. CASE k = 0
      BY <1>4, <2>1
    <2>2. CASE k # 0
      <3> SUFFICES ASSUME k + 1 \in 1 .. N PROVE g[k + 1] = f[k + 1]
        OBVIOUS
      <3>1. k \in 1 .. N /\ k + 1 \in 2 .. N /\ k + 1 \in 2 .. M /\ (k + 1) - 1 = k
        BY <1>1, <2>2
      <3>2. f[k + 1] = f[(k + 1) - 1] \o (<< sep >> \o texts[k + 1])
        BY <1>2, <3>1
      <3>3. g[k + 1] = g[(k + 1) - 1] \o (<< sep >> \o more[k + 1])
        BY <1>3, <3>1
      <3>4. more[k + 1] = texts[k + 1] /\ g[k] = f[k]
        BY <1>1, <1>5, <3>1
      <3> QED
        BY <3>1, <3>2, <3>3, <3>4
    <2> QED
      BY <2>1, <2>2
  <1>6. Fine(0)
    OBVIOUS
  <1>7. \A k \in Nat : k \in Good => k + 1 \in Good
    <2> HIDE DEF Fine
    <2> QED
      BY <1>5
  <1>8. Nat \subseteq Good
    <2>1. 0 \in Good
      BY <1>6
    <2> HIDE DEF Good
    <2> QED
      BY <1>7, <2>1, NaturalsInSet
  <1>9. Fine(N)
    <2> HIDE DEF Fine
    <2> QED
      BY <1>1, <1>8
  <1>10. g[N] = f[N]
    BY <1>1, <1>9
  <1>11. g[N + 1] = g[(N + 1) - 1] \o (<< sep >> \o more[N + 1])
    <2>1. N + 1 \in 2 .. M
      BY <1>1
    <2> QED
      BY <1>3, <2>1
  <1>12. (N + 1) - 1 = N
    BY <1>1
  <1> QED
    BY <1>1, <1>2, <1>3, <1>10, <1>11, <1>12 DEF M

\* The key and the signature are two fields more.
LEMMA TxLineIsJoin ==
    ASSUME NEW tx \in TxSet
    PROVE  TxToLine(tx) = Join(LineTexts(tx), Bar)
  <1> DEFINE S == Seq(Tokens)
             p == SigningPayload(tx)
             six == PayloadTexts(tx)
             seven == Append(six, << tx.pubKey >>)
             key == << tx.pubKey >>
             sig == << tx.signature >>
  <1>1. /\ tx.receiver \in S /\ tx.type \in Tokens /\ tx.sender \in Tokens /\ tx.amount \in Tokens
        /\ tx.nonce \in Tokens /\ tx.timestamp \in Tokens /\ tx.pubKey \in Tokens
        /\ tx.signature \in Tokens /\ Bar \in Tokens
    BY WireAssumption DEF TxSet, Word, Number
  <1>2. key \in S /\ sig \in S /\ << tx.type >> \in S /\ << tx.sender >> \in S /\ << tx.amount >> \in S
        /\ << tx.nonce >> \in S /\ << tx.timestamp >> \in S
    BY <1>1
  <1>3. LineTexts(tx) = Append(seven, sig)
    BY DEF LineTexts, PayloadTexts
  <1>4. p = Join(six, Bar)
    BY DEF SigningPayload, PayloadTexts
  <1>5. TxToLine(tx) = Join(<< p, key, sig >>, Bar)
    BY DEF TxToLine
  <1> HIDE DEF p, key, sig
  <1>6. six \in Seq(S) /\ six # << >> /\ seven \in Seq(S) /\ seven # << >>
    <2> HIDE DEF S
    <2>1. six \in Seq(S) /\ six # << >>
      BY <1>1, <1>2 DEF PayloadTexts
    <2> HIDE DEF six
    <2>2. seven \in Seq(S) /\ seven # << >>
      BY <1>2, <2>1 DEF key
    <2> QED
      BY <2>1, <2>2
  <1>7. seven = Append(six, key)
    BY DEF key
  <1> HIDE DEF six, seven
  <1> DEFINE Joins(texts, last) == Join(Append(texts, last), Bar) = Join(texts, Bar) \o (<< Bar >> \o last)
  <1>a. ASSUME NEW texts \in Seq(S), texts # << >>, NEW last \in S PROVE Joins(texts, last)
    <2> DEFINE more == Append(texts, last)
    <2>1. /\ more \in Seq(S) /\ Len(more) = Len(texts) + 1 /\ more[Len(more)] = last
          /\ \A k \in 1 .. Len(texts) : more[k] = texts[k]
      <3> HIDE DEF S
      <3> QED
        OBVIOUS
    <2> HIDE DEF more
    <2>2. Join(more, Bar) = Join(texts, Bar) \o (<< Bar >> \o more[Len(more)])
      BY <1>1, <1>a, <2>1, JoinOneMore
    <2> QED
      BY <2>1, <2>2 DEF more
  <1>b. p \in S
    BY <1>1, <1>4, <1>6, JoinType
  <1>8. p \in S /\ Join(seven, Bar) = p \o (<< Bar >> \o key)
    BY <1>2, <1>4, <1>6, <1>7, <1>a, <1>b
  <1>9. Join(Append(seven, sig), Bar) = Join(seven, Bar) \o (<< Bar >> \o sig)
    BY <1>2, <1>6, <1>a
  <1>10. Join(<< p, key, sig >>, Bar) = (p \o (<< Bar >> \o key)) \o (<< Bar >> \o sig)
    <2>1. << p >> \in Seq(S) /\ << p, key >> \in Seq(S) /\ << p, key, sig >> \in Seq(S)
      <3> HIDE DEF S
      <3> QED
        BY <1>2, <1>8
    <2>2. Join(<< p >>, Bar) = p
      <3> DEFINE one == << p >>
      <3>1. one \in Seq(Seq(Tokens)) /\ Len(one) = 1 /\ one[1] = p
        BY <2>1
      <3> HIDE DEF one
      <3>2. \E f \in [0 .. Len(one) -> Seq(Tokens)] :
              /\ f[0] = << >>
              /\ Len(one) > 0 => f[1] = one[1]
              /\ \A n \in 2 .. Len(one) : f[n] = f[n - 1] \o (<< Bar >> \o one[n])
              /\ Join(one, Bar) = f[Len(one)]
        BY <1>1, <3>1, JoinSteps, ZenonT(60)
      <3>3. Join(one, Bar) = p
        BY <3>1, <3>2
      <3> QED
        BY <3>3 DEF one
    <2>3. << p, key >> = Append(<< p >>, key) /\ << p, key, sig >> = Append(<< p, key >>, sig)
      OBVIOUS
    <2>4. << p >> # << >> /\ << p, key >> # << >>
      OBVIOUS
    <2>5. Join(<< p, key >>, Bar) = Join(<< p >>, Bar) \o (<< Bar >> \o key)
      BY <1>2, <1>a, <2>1, <2>3, <2>4
    <2>6. Join(<< p, key, sig >>, Bar) = Join(<< p, key >>, Bar) \o (<< Bar >> \o sig)
      BY <1>2, <1>a, <2>1, <2>3, <2>4
    <2> QED
      BY <2>2, <2>5, <2>6
  <1> QED
    BY <1>3, <1>5, <1>8, <1>9, <1>10

\* A whole line is cut into its eight texts, unless the receiver has a bar, and
\* then no field holds it.
LEMMA WholeTxReads ==
    ASSUME NEW tx \in TxSet
    PROVE  /\ TxToLine(tx) \in Seq(Tokens)
           /\ TxFromLine(TxToLine(tx)) = tx <=> Bar \notin ToSet(tx.receiver)
  <1> DEFINE S == Seq(Tokens)
             texts == LineTexts(tx)
             line == TxToLine(tx)
             f == Split(line, Bar)
             r == tx.receiver
             read == [type |-> f[1][1], sender |-> f[2][1], receiver |-> f[3], amount |-> f[4][1],
                      nonce |-> f[5][1], timestamp |-> f[6][1], pubKey |-> Only(f[7]),
                      signature |-> Only(f[8])]
             numbers == IsNumber(f[4]) /\ IsNumber(f[5]) /\ IsNumber(f[6])
  <1>1. /\ r \in S /\ tx.type \in Tokens /\ tx.sender \in Tokens /\ tx.amount \in Tokens
        /\ tx.nonce \in Tokens /\ tx.timestamp \in Tokens /\ tx.pubKey \in Tokens
        /\ tx.signature \in Tokens /\ Bar \in Tokens
        /\ tx.type # Bar /\ tx.sender # Bar /\ tx.amount # Bar /\ tx.nonce # Bar
        /\ tx.timestamp # Bar /\ tx.pubKey # Bar /\ tx.signature # Bar
        /\ tx.amount \in Nat /\ tx.nonce \in Nat /\ tx.timestamp \in Nat
    BY WireAssumption DEF TxSet, Word, Number
  <1>2. tx = [type |-> tx.type, sender |-> tx.sender, receiver |-> tx.receiver,
              amount |-> tx.amount, nonce |-> tx.nonce, timestamp |-> tx.timestamp,
              pubKey |-> tx.pubKey, signature |-> tx.signature]
    BY DEF TxSet
  <1>3. /\ Len(texts) = 8 /\ texts # << >>
        /\ texts[1] = << tx.type >> /\ texts[2] = << tx.sender >> /\ texts[3] = r
        /\ texts[4] = << tx.amount >> /\ texts[5] = << tx.nonce >> /\ texts[6] = << tx.timestamp >>
        /\ texts[7] = << tx.pubKey >> /\ texts[8] = << tx.signature >>
    BY DEF LineTexts
  <1>4. texts \in Seq(S)
    <2>1. << tx.type >> \in S /\ << tx.sender >> \in S /\ << tx.amount >> \in S /\ << tx.nonce >> \in S
          /\ << tx.timestamp >> \in S /\ << tx.pubKey >> \in S /\ << tx.signature >> \in S
      BY <1>1
    <2> HIDE DEF S
    <2> QED
      BY <1>1, <2>1 DEF LineTexts
  <1>5. line = Join(texts, Bar)
    BY TxLineIsJoin
  <1> HIDE DEF texts, line
  <1>6. line \in Seq(Tokens)
    BY <1>1, <1>4, <1>5, JoinType
  <1>7. TxFromLine(line) = IF Len(f) < 8 THEN EmptyTx ELSE IF ~ numbers THEN Throws ELSE read
    <2>1. Len(f) \in Nat
      BY <1>6, SplitType, LenProperties
    <2>2. ~ (Len(f) < 8) => (TxLineThrows(line) <=> ~ numbers)
      BY <2>1 DEF TxLineThrows
    <2> QED
      BY <2>2 DEF TxFromLine
  <1>8. Bar \notin ToSet(r) <=> \A j \in 1 .. Len(r) : r[j] # Bar
    <2>1. DOMAIN r = 1 .. Len(r)
      BY <1>1, LenProperties
    <2> HIDE DEF r
    <2> QED
      BY <2>1 DEF ToSet
  <1>9. ASSUME \A j \in 1 .. Len(r) : r[j] # Bar PROVE TxFromLine(line) = tx
    <2>1. ASSUME NEW k \in 1 .. 8 PROVE \A j \in 1 .. Len(texts[k]) : texts[k][j] # Bar
      <3>1. CASE k = 3
        BY <1>3, <1>9, <3>1
      <3>2. CASE k # 3
        <4>1. \E x : texts[k] = << x >> /\ x # Bar
          <5>1. k \in {1, 2, 4, 5, 6, 7, 8}
            BY <3>2
          <5> HIDE DEF r
          <5> QED
            BY <1>1, <1>3, <5>1
        <4>2. PICK x : texts[k] = << x >> /\ x # Bar
          BY <4>1
        <4> QED
          BY <4>2
      <3> QED
        BY <3>1, <3>2
    <2>2. \A k \in 1 .. Len(texts) : \A j \in 1 .. Len(texts[k]) : texts[k][j] # Bar
      BY <1>3, <2>1
    <2>3. f = texts
      <3>1. texts \in Seq(Seq(Tokens)) /\ Bar \in Tokens /\ texts # << >>
        BY <1>1, <1>3, <1>4
      <3>2. Split(Join(texts, Bar), Bar) = texts
        BY <2>2, <3>1, SplitOfJoin
      <3> QED
        BY <1>5, <3>2
    <2> HIDE DEF f
    <2>4. /\ f[1][1] = tx.type /\ f[2][1] = tx.sender /\ f[3] = r /\ f[4][1] = tx.amount
          /\ f[5][1] = tx.nonce /\ f[6][1] = tx.timestamp
      BY <1>3, <2>3
    <2>5. Only(f[7]) = tx.pubKey /\ Only(f[8]) = tx.signature
      <3>1. f[7] = << tx.pubKey >> /\ f[8] = << tx.signature >>
        BY <1>3, <2>3
      <3>2. \A x : Only(<< x >>) = x
        BY DEF Only
      <3> QED
        BY <3>1, <3>2
    <2>6. numbers
      BY <1>1, <1>3, <2>3 DEF IsNumber
    <2>7. ~ (Len(f) < 8)
      <3>1. Len(f) = 8
        BY <1>3, <2>3, Zenon
      <3> QED
        BY <3>1
    <2>8. read = tx
      <3>1. read = [type |-> tx.type, sender |-> tx.sender, receiver |-> r, amount |-> tx.amount,
                    nonce |-> tx.nonce, timestamp |-> tx.timestamp, pubKey |-> tx.pubKey,
                    signature |-> tx.signature]
        BY <2>4, <2>5
      <3> HIDE DEF read
      <3> QED
        BY <1>2, <3>1
    <2> HIDE DEF numbers, read
    <2> QED
      BY <1>7, <2>6, <2>7, <2>8
  <1>10. ASSUME TxFromLine(line) = tx PROVE \A j \in 1 .. Len(r) : r[j] # Bar
    <2>1. tx # Throws
      BY WireAssumption
    <2>2. CASE Len(f) < 8
      <3>1. tx = EmptyTx
        BY <1>7, <1>10, <2>2
      <3>2. r = << >>
        BY <3>1 DEF EmptyTx
      <3> HIDE DEF r
      <3> QED
        BY <3>2
    <2>3. CASE ~ (Len(f) < 8)
      <3>1. tx = read
        BY <1>7, <1>10, <2>1, <2>3
      <3>2. r = f[3]
        <4> HIDE DEF f
        <4> QED
          BY <3>1
      <3>3. f[3] \in Seq(Tokens \ {Bar})
        <4>1. f \in Seq(Seq(Tokens))
          BY <1>6, SplitType
        <4>2. \A k \in 1 .. Len(f) : f[k] \in Seq(Tokens \ {Bar})
          BY <1>6, FieldsAreClean
        <4> HIDE DEF f
        <4>3. 3 \in 1 .. Len(f)
          <5>1. Len(f) \in Nat
            BY <4>1, LenProperties
          <5> QED
            BY <2>3, <5>1
        <4> QED
          BY <4>2, <4>3
      <3> HIDE DEF f, r
      <3>4. r \in Seq(Tokens \ {Bar})
        BY <3>2, <3>3
      <3>5. \A j \in 1 .. Len(r) : r[j] \in Tokens \ {Bar}
        BY <3>4, ElementOfSeq
      <3> QED
        BY <3>5
    <2> QED
      BY <2>2, <2>3
  <1> QED
    BY <1>6, <1>8, <1>9, <1>10 DEF line

\* No beginning of a line whose receiver has no bar throws: where there are eight
\* fields the three numbers are whole.
LEMMA BeginningReads ==
    ASSUME NEW tx \in TxSet, Bar \notin ToSet(tx.receiver), NEW line \in Prefixes(TxToLine(tx))
    PROVE  ~ TxLineThrows(line)
  <1> DEFINE S == Seq(Tokens)
             texts == LineTexts(tx)
             f == Split(line, Bar)
             r == tx.receiver
  <1>1. /\ r \in S /\ tx.type \in Tokens /\ tx.sender \in Tokens /\ tx.amount \in Tokens
        /\ tx.nonce \in Tokens /\ tx.timestamp \in Tokens /\ tx.pubKey \in Tokens
        /\ tx.signature \in Tokens /\ Bar \in Tokens
        /\ tx.type # Bar /\ tx.sender # Bar /\ tx.amount # Bar /\ tx.nonce # Bar
        /\ tx.timestamp # Bar /\ tx.pubKey # Bar /\ tx.signature # Bar
        /\ tx.amount \in Nat /\ tx.nonce \in Nat /\ tx.timestamp \in Nat
    BY WireAssumption DEF TxSet, Word, Number
  <1>2. /\ Len(texts) = 8 /\ texts # << >>
        /\ texts[1] = << tx.type >> /\ texts[2] = << tx.sender >> /\ texts[3] = r
        /\ texts[4] = << tx.amount >> /\ texts[5] = << tx.nonce >> /\ texts[6] = << tx.timestamp >>
        /\ texts[7] = << tx.pubKey >> /\ texts[8] = << tx.signature >>
    BY DEF LineTexts
  <1>3. texts \in Seq(S)
    <2>1. << tx.type >> \in S /\ << tx.sender >> \in S /\ << tx.amount >> \in S /\ << tx.nonce >> \in S
          /\ << tx.timestamp >> \in S /\ << tx.pubKey >> \in S /\ << tx.signature >> \in S
      BY <1>1
    <2> HIDE DEF S
    <2> QED
      BY <1>1, <2>1 DEF LineTexts
  <1>4. PICK m \in 0 .. Len(Join(texts, Bar)) : line = SubSeq(Join(texts, Bar), 1, m)
    BY TxLineIsJoin DEF Prefixes
  <1> HIDE DEF texts
  <1>5. \A j \in 1 .. Len(r) : r[j] # Bar
    <2>1. DOMAIN r = 1 .. Len(r)
      BY <1>1, LenProperties
    <2> QED
      BY <2>1 DEF ToSet
  <1>6. ASSUME NEW k \in 1 .. Len(texts) PROVE \A j \in 1 .. Len(texts[k]) : texts[k][j] # Bar
    <2>1. CASE k = 3
      BY <1>2, <1>5, <2>1
    <2>2. CASE k # 3
      <3>1. k \in {1, 2, 4, 5, 6, 7, 8}
        BY <1>2, <2>2
      <3> HIDE DEF r
      <3>2. PICK x : texts[k] = << x >> /\ x # Bar
        BY <1>1, <1>2, <3>1
      <3> QED
        BY <3>2
    <2> QED
      BY <2>1, <2>2
  <1>7. line \in Seq(Tokens)
    <2>1. Join(texts, Bar) \in Seq(Tokens)
      BY <1>1, <1>3, JoinType
    <2> QED
      BY <1>4, <2>1, BeginningOf
  <1> SUFFICES ASSUME Len(f) >= 8 PROVE IsNumber(f[4]) /\ IsNumber(f[5]) /\ IsNumber(f[6])
    BY DEF TxLineThrows
  <1>8. ASSUME NEW k \in 1 .. 7 PROVE f[k] = texts[k]
    <2>1. Len(f) \in Nat
      BY <1>7, SplitType, LenProperties
    <2>2. k \in 1 .. Len(texts) /\ k < Len(f)
      BY <1>2, <2>1
    <2>3. Bar \in Tokens /\ texts \in Seq(Seq(Tokens)) /\ texts # << >> /\ Free(texts, Bar)
      BY <1>1, <1>2, <1>3, <1>6 DEF Free
    <2>4. AllButLast(Split(SubSeq(Join(texts, Bar), 1, m), Bar), texts)
      BY <2>3, SplitOfBeginning, ZenonT(60)
    <2> QED
      BY <1>4, <2>2, <2>4 DEF AllButLast
  <1> HIDE DEF f
  <1>9. f[4] = << tx.amount >> /\ f[5] = << tx.nonce >> /\ f[6] = << tx.timestamp >>
    BY <1>2, <1>8
  <1> QED
    BY <1>1, <1>9 DEF IsNumber

\* A transaction in a chain is read back as it was signed exactly if its receiver has
\* no bar; then no part of its line throws; and whatever verify() accepts as a
\* transaction that a user signed, of all a peer may read in its place, is that
\* transaction, for any answer and any cut (transaction.hpp:29-33 and 88-107).
THEOREM TxIsIntactOrRefused == Spec => []TxIntactOrRefused
  <1>1. FetchInv => TxIntactOrRefused
    <2> SUFFICES ASSUME FetchInv, NEW tx \in Transfers
                 PROVE  /\ TxFromLine(TxToLine(tx)) = tx <=> Bar \notin ToSet(tx.receiver)
                        /\ Bar \notin ToSet(tx.receiver) =>
                             \A line \in Prefixes(TxToLine(tx)) : ~ TxLineThrows(line)
                        /\ \A line \in Prefixes(TxToLine(tx)) \cup TextsOf(fetched) :
                             ~ TxLineThrows(line) /\ VerifiesAs(TxFromLine(line), tx)
                                 => TxFromLine(line) = tx
      BY DEF TxIntactOrRefused
    <2>1. tx \in TxSet
      BY FetchAssumption
    <2>2. Bar \in Tokens /\ TxToLine(tx) \in Seq(Tokens)
      BY <2>1, WholeTxReads, WireAssumption
    <2>3. ASSUME NEW line \in Prefixes(TxToLine(tx)) PROVE line \in Seq(Tokens)
      <3>1. PICK l \in 0 .. Len(TxToLine(tx)) : line = SubSeq(TxToLine(tx), 1, l)
        BY DEF Prefixes
      <3>2. \A i \in 1 .. l : TxToLine(tx)[i] \in Tokens
        <4>1. \A i \in 1 .. Len(TxToLine(tx)) : TxToLine(tx)[i] \in Tokens
          BY <2>2, ElementOfSeq
        <4>2. Len(TxToLine(tx)) \in Nat
          BY <2>2, LenProperties
        <4>3. \A i \in 1 .. l : i \in 1 .. Len(TxToLine(tx))
          BY <4>2
        <4> QED
          BY <4>1, <4>3
      <3>3. SubSeq(TxToLine(tx), 1, l) \in Seq(Tokens)
        BY <3>2, SubSeqProperties
      <3> QED
        BY <3>1, <3>3
    <2>4. ASSUME NEW line \in TextsOf(fetched) PROVE line \in Seq(Tokens)
      <3>1. /\ DOMAIN fetched = 1 .. Len(taken) /\ \A i \in 1 .. Len(taken) : fetched[i] \in BlockSet
        BY FetchedBlocks
      <3>2. PICK b \in BlockSet : line \in ToSet(b.txs)
        BY <3>1 DEF TextsOf, ToSet
      <3>3. b.txs \in Seq(Seq(Tokens))
        BY BlockFields
      <3> DEFINE S == Seq(Tokens)
                 ts == b.txs
      <3>4. ts \in Seq(S) /\ line \in ToSet(ts)
        BY <3>2, <3>3
      <3> HIDE DEF S, ts
      <3>5. line \in S
        BY <3>4 DEF ToSet
      <3> QED
        BY <3>5 DEF S
    <2> QED
      BY <2>1, <2>2, <2>3, <2>4, WholeTxReads, BeginningReads, VerifiedIsSigned
  <1> QED
    BY <1>1, FetchInvariant, PTL
==============================================================================
