------------------------ MODULE SemanticChunker_proofs ------------------------
(***************************************************************************)
(* Proofs about SemanticChunker, for every chunk size and overlap that     *)
(* SizesAssumption admits and every set of documents, however long: its    *)
(* types, that chunks are one chain, that each names the page and the      *)
(* section its letters stand in, that the chunks keep the text and its     *)
(* order, that clauses are cut only to fit, and that the character         *)
(* fallback moves forward.                                                 *)
(*                                                                         *)
(* Sections, clauses, joined and merged texts are folds.  A fold is what   *)
(* its recursive definition says only if that definition has a solution,   *)
(* and it has a type only by induction; the first part of the module gets  *)
(* both from least counterexamples, which the library's theorems about     *)
(* well-founded relations provide without an operator as a parameter.      *)
(*                                                                         *)
(* ChunkerInv says of each chunk and each group where its letters stand.   *)
(* TextInv says what all of them together have: it needs, of every         *)
(* operator that the module folds, that it keeps all letters and their     *)
(* order, and so of every step that what it writes is what comes next.     *)
(* CutInv says where the pieces stand: one that is too long is an excerpt  *)
(* of one paragraph of one block, and of one sentence where it is cut at   *)
(* characters, so that chunks share letters only there.                    *)
(***************************************************************************)
EXTENDS SemanticChunker, FiniteSetTheorems, SequenceTheorems, TLAPS

-----------------------------------------------------------------------------
(* Folds                                                                   *)

\* A non-empty set of numbers has a least one: with this, induction is a proof by
\* a least counterexample.
LEMMA LeastNatural ==
  ASSUME NEW bad \in SUBSET Nat, bad # {}
  PROVE  \E n \in bad : \A m \in bad : n <= m
<1>1. IsWellFoundedOn(OpToRel(<, Nat), Nat)
  BY NatLessThanWellFounded
<1>2. PICK n \in bad : \A m \in bad : <<m, n>> \notin OpToRel(<, Nat)
  BY <1>1, WFMin
<1>3. ASSUME NEW m \in bad PROVE n <= m
  <2>1. CASE m < n
    <3>1. <<m, n>> \in {ss \in Nat \X Nat : ss[1] < ss[2]}
      BY <2>1
    <3>2. <<m, n>> \in OpToRel(<, Nat)
      BY <3>1, Zenon DEF OpToRel
    <3> QED BY <1>2, <3>2
  <2>2. CASE ~(m < n)
    BY <2>2
  <2> QED BY <2>1, <2>2
<1> QED BY <1>3

\* A non-empty set of numbers up to n has a greatest one.
LEMMA Greatest ==
  ASSUME NEW n \in Nat, NEW S \in SUBSET (0..n), S # {}
  PROVE  Max(S) \in S /\ \A y \in S : y <= Max(S)
<1> DEFINE below == {n - x : x \in S}
<1>1. below \in SUBSET Nat /\ below # {}
  <2>1. \A x \in S : n - x \in Nat
    OBVIOUS
  <2> QED BY <2>1
<1>2. PICK m \in below : \A k \in below : m <= k
  <2> HIDE DEF below
  <2> QED BY <1>1, LeastNatural
<1>3. PICK x \in S : m = n - x
  OBVIOUS
<1>4. \A y \in S : x >= y
  BY <1>2, <1>3
<1> QED BY <1>3, <1>4 DEF Max

\* The same of indices, and what is left of the set is one of indices.
LEMMA GreatestIndex ==
  ASSUME NEW n \in Nat, NEW s \in SUBSET (1..n), s # {}
  PROVE  Max(s) \in 1..n /\ s \ {Max(s)} \in SUBSET (1..n)
<1>1. s \in SUBSET (0..n)
  OBVIOUS
<1>2. Max(s) \in s
  BY <1>1, Greatest
<1> QED BY <1>2

\* g folds the functions F[1], ..., F[n], the last applied last, over every set of
\* indices: the recursive definition of FoldLeft.
Folds(g, F, base, n) ==
  g = [s \in SUBSET (1..n) |-> IF s = {} THEN base ELSE F[Max(s)][g[s \ {Max(s)}]]]

\* There is such a g if the functions keep some type T.
LEMMA FoldExists ==
  ASSUME NEW n \in Nat, NEW T, NEW base \in T, NEW F,
         \A x \in T, i \in 1..n : F[i][x] \in T
  PROVE  \E g : Folds(g, F, base, n) /\ \A s \in SUBSET (1..n) : g[s] \in T
<1> DEFINE has(m) == \E g : Folds(g, F, base, m) /\ \A s \in SUBSET (1..m) : g[s] \in T
           bad == {m \in 0..n : ~has(m)}
<1> SUFFICES ASSUME bad # {} PROVE FALSE
  <2>1. n \in 0..n
    OBVIOUS
  <2>2. CASE has(n)
    BY <2>2
  <2>3. CASE ~has(n)
    <3>1. n \in bad
      BY <2>1, <2>3
    <3> HIDE DEF bad
    <3> QED BY <3>1
  <2> QED BY <2>2, <2>3
<1>1. PICK m \in bad : \A k \in bad : m <= k
  <2>1. bad \in SUBSET Nat
    OBVIOUS
  <2> HIDE DEF bad
  <2> QED BY <2>1, LeastNatural
<1>2. CASE m = 0
  <2> DEFINE g == [s \in SUBSET (1..0) |-> base]
  <2>1. SUBSET (1..0) = {{}}
    OBVIOUS
  <2>2. Folds(g, F, base, 0) /\ \A s \in SUBSET (1..0) : g[s] \in T
    BY <2>1 DEF Folds
  <2> QED BY <1>2, <2>2
<1>3. CASE m # 0
  <2>1. m - 1 \in 0..n /\ m \in 1..n
    BY <1>3
  <2>2. has(m - 1)
    <3>1. ~(m <= m - 1)
      BY <2>1
    <3>2. m - 1 \notin bad
      BY <1>1, <3>1
    <3> QED BY <2>1, <3>2
  <2>3. PICK g : Folds(g, F, base, m - 1) /\ \A s \in SUBSET (1..(m - 1)) : g[s] \in T
    BY <2>2
  <2> DEFINE h == [s \in SUBSET (1..m) |-> IF m \in s THEN F[m][g[s \ {m}]] ELSE g[s]]
  <2>4. ASSUME NEW s \in SUBSET (1..m), s # {}
        PROVE  /\ h[s] = F[Max(s)][h[s \ {Max(s)}]]
               /\ h[s] \in T
    <3>1. Max(s) \in s /\ \A y \in s : y <= Max(s)
      <4>1. m \in Nat /\ s \in SUBSET (0..m)
        BY <2>1
      <4> QED BY <2>4, <4>1, Greatest
    <3>2. CASE m \in s
      <4>1. Max(s) = m
        <5>1. \A k \in 1..m : m <= k => k = m
          BY <2>1
        <5> QED BY <3>1, <3>2, <5>1
      <4>2. s \ {m} \in SUBSET (1..(m - 1)) /\ s \ {m} \in SUBSET (1..m) /\ m \notin s \ {m}
        BY <2>1
      <4>3. h[s] = F[m][g[s \ {m}]] /\ h[s \ {m}] = g[s \ {m}]
        BY <3>2, <4>2
      <4>4. F[m][g[s \ {m}]] \in T
        BY <2>1, <2>3, <4>2
      <4> QED BY <4>1, <4>3, <4>4
    <3>3. CASE m \notin s
      <4>1. s \in SUBSET (1..(m - 1)) /\ s \ {Max(s)} \in SUBSET (1..(m - 1))
        <5>1. \A k \in 1..m : k # m => k \in 1..(m - 1)
          BY <2>1
        <5>2. s \subseteq 1..(m - 1)
          BY <3>3, <5>1
        <5> QED BY <5>2
      <4>2. h[s] = g[s] /\ h[s \ {Max(s)}] = g[s \ {Max(s)}]
        BY <2>1, <3>3, <4>1
      <4>3. g[s] = F[Max(s)][g[s \ {Max(s)}]] /\ g[s] \in T
        BY <2>3, <2>4, <4>1 DEF Folds
      <4> QED BY <4>2, <4>3
    <3> QED BY <3>2, <3>3
  <2>5. h[{}] = base
    BY <2>3 DEF Folds
  <2>6. Folds(h, F, base, m)
    <3>1. \A s \in SUBSET (1..m) : h[s] = IF s = {} THEN base ELSE F[Max(s)][h[s \ {Max(s)}]]
      BY <2>4, <2>5
    <3>2. h = [s \in SUBSET (1..m) |-> h[s]]
      OBVIOUS
    <3> HIDE DEF h
    <3> QED BY <3>1, <3>2, ZenonT(40) DEF Folds
  <2>7. \A s \in SUBSET (1..m) : h[s] \in T
    BY <2>4, <2>5
  <2> HIDE DEF h
  <2> QED BY <2>6, <2>7
<1> QED BY <1>2, <1>3

\* What the first i steps make has type A[i], if every step preserves it.
LEMMA FoldPrefix ==
  ASSUME NEW n \in Nat, NEW F, NEW base, NEW g, Folds(g, F, base, n),
         NEW A, base \in A[0], \A i \in 1..n : \A x \in A[i - 1] : F[i][x] \in A[i]
  PROVE  g[1..n] \in A[n]
<1> DEFINE bad == {i \in 0..n : g[1..i] \notin A[i]}
<1> SUFFICES ASSUME bad # {} PROVE FALSE
  OBVIOUS
<1>1. PICK m \in bad : \A k \in bad : m <= k
  <2>1. bad \in SUBSET Nat
    OBVIOUS
  <2> HIDE DEF bad
  <2> QED BY <2>1, LeastNatural
<1>2. CASE m = 0
  <2>1. 1..0 = {} /\ {} \in SUBSET (1..n)
    OBVIOUS
  <2> QED BY <1>2, <2>1 DEF Folds
<1>3. CASE m # 0
  <2>1. m - 1 \in 0..n /\ m \in 1..n
    BY <1>3
  <2>2. g[1..(m - 1)] \in A[m - 1]
    BY <1>1, <2>1
  <2>3. 1..m \in SUBSET (1..n) /\ 1..m # {}
    BY <2>1
  <2>4. Max(1..m) = m
    <3>1. m \in Nat /\ 1..m \in SUBSET (0..m) /\ m \in 1..m
      BY <2>1
    <3>2. Max(1..m) \in 1..m /\ \A y \in 1..m : y <= Max(1..m)
      BY <2>3, <3>1, Greatest
    <3>3. PICK k \in 1..m : k = Max(1..m)
      BY <3>2
    <3>4. m <= k
      BY <3>1, <3>2, <3>3
    <3> QED BY <3>1, <3>3, <3>4
  <2>5. (1..m) \ {m} = 1..(m - 1)
    BY <2>1
  <2>6. g[1..m] = F[m][g[1..(m - 1)]]
    <3>1. g[1..m] = F[Max(1..m)][g[(1..m) \ {Max(1..m)}]]
      BY <2>3, Zenon DEF Folds
    <3> QED BY <2>4, <2>5, <3>1
  <2> QED BY <2>1, <2>2, <2>6
<1> QED BY <1>2, <1>3

\* The same with one type for all steps.

LEMMA FoldType ==
  ASSUME NEW n \in Nat, NEW F, NEW base, NEW g, Folds(g, F, base, n),
         NEW T, base \in T, \A i \in 1..n : \A x \in T : F[i][x] \in T
  PROVE  g[1..n] \in T
<1> DEFINE A == [i \in 0..n |-> T]
<1>1. A[0] = T /\ A[n] = T /\ \A i \in 1..n : A[i] = T /\ A[i - 1] = T
  OBVIOUS
<1>2. base \in A[0] /\ \A i \in 1..n : \A x \in A[i - 1] : F[i][x] \in A[i]
  <2> HIDE DEF A
  <2> QED BY <1>1
<1>3. g[1..n] \in A[n]
  <2> HIDE DEF A
  <2> QED BY <1>2, FoldPrefix
<1> QED BY <1>1, <1>3

-----------------------------------------------------------------------------
(* Text                                                                    *)

\* Texts without a letter that is not in L.
TextsOf(L) == {t \in Seq(Nat) : Letters(t) \subseteq L}
PartsOf(L) == TextsOf(L) \ {<<>>}

\* The empty text.
LEMMA NoText == ASSUME NEW L PROVE <<>> \in TextsOf(L)
  BY DEF TextsOf, Letters, Range

\* Joining adds no letter.
LEMMA BreakBetween ==
  ASSUME NEW L, NEW s \in TextsOf(L), NEW t \in TextsOf(L)
  PROVE  s \o Break \o t \in TextsOf(L)
<1>1. Break \in Seq(Nat) /\ Range(Break) = {NewLine} /\ s \in Seq(Nat) /\ t \in Seq(Nat)
  BY DEF Break, NewLine, Range, TextsOf
<1>2. PICK u \in Seq(Nat) : u = s \o Break /\ Range(u) = Range(s) \cup Range(Break)
  <2>1. Range(s \o Break) = Range(s) \cup Range(Break)
    BY <1>1, RangeConcatenation
  <2>2. s \o Break \in Seq(Nat)
    BY <1>1, ConcatProperties
  <2> QED BY <2>1, <2>2
<1>3. u \o t \in Seq(Nat) /\ Range(u \o t) = Range(u) \cup Range(t)
  <2>1. t \in Seq(Nat)
    BY <1>1
  <2>2. Range(u \o t) = Range(u) \cup Range(t)
    BY <2>1, RangeConcatenation
  <2>3. u \o t \in Seq(Nat)
    BY <2>1, ConcatProperties
  <2> QED BY <2>2, <2>3
<1>4. ~IsLetter(NewLine)
  BY DEF IsLetter, NewLine
<1> QED BY <1>1, <1>2, <1>3, <1>4 DEF Letters, TextsOf

\* A step of _merge_small_parts.
LEMMA AddPartType ==
  ASSUME NEW L, NEW merged \in Seq(PartsOf(L)), NEW part \in PartsOf(L)
  PROVE  AddPart(merged, part) \in Seq(PartsOf(L))
<1>1. Append(merged, part) \in Seq(PartsOf(L))
  BY AppendProperties
<1>2. CASE merged # <<>>
  <2>1. Last(merged) \in PartsOf(L) /\ Front(merged) \in Seq(PartsOf(L))
    BY <1>2 DEF Last, Front
  <2>2. PICK candidate \in TextsOf(L) : candidate = Last(merged) \o Break \o part
    BY <2>1, BreakBetween DEF PartsOf
  <2>3. candidate # <<>>
    BY <2>1, <2>2 DEF PartsOf, TextsOf, Break
  <2>4. Append(Front(merged), candidate) \in Seq(PartsOf(L))
    BY <2>1, <2>2, <2>3, AppendProperties DEF PartsOf
  <2> QED BY <1>1, <2>2, <2>4 DEF AddPart
<1> QED BY <1>1, <1>2 DEF AddPart

\* _merge_small_parts makes what its steps make, when they keep A.
LEMMA MergeFold ==
  ASSUME NEW L, NEW parts \in Seq(PartsOf(L)),
         NEW A, <<>> \in A[0],
         \A i \in 1..Len(parts) : \A x \in A[i - 1] : x \in Seq(PartsOf(L)) /\ AddPart(x, parts[i]) \in A[i]
  PROVE  MergeSmallParts(parts) \in A[Len(parts)]
<1> DEFINE T == Seq(PartsOf(L))
           n == Len(parts)
           IsFold(g) == g = [s \in SUBSET (1..n) |->
              IF s = {} THEN <<>> ELSE AddPart(g[s \ {Max(s)}], parts[Max(s)])]
           g == CHOOSE g : IsFold(g)
           F == [i \in 1..n |->
                  [x \in T \cup {g[s] : s \in SUBSET (1..n)} |-> AddPart(x, parts[i])]]
<1>1. n \in Nat /\ DOMAIN parts = 1..n /\ \A i \in 1..n : parts[i] \in PartsOf(L)
  OBVIOUS
<1>2. <<>> \in T /\ \A i \in 1..n : \A x \in T : F[i][x] = AddPart(x, parts[i]) /\ F[i][x] \in T
  BY <1>1, AddPartType
<1> HIDE DEF g
<1>3. IsFold(g)
  <2>1. PICK h : Folds(h, F, <<>>, n) /\ \A s \in SUBSET (1..n) : h[s] \in T
    <3> HIDE DEF T, n, F
    <3> QED BY <1>1, <1>2, FoldExists
  <2>2. ASSUME NEW s \in SUBSET (1..n), s # {}
        PROVE  F[Max(s)][h[s \ {Max(s)}]] = AddPart(h[s \ {Max(s)}], parts[Max(s)])
    <3> HIDE DEF F
    <3> QED BY <1>1, <1>2, <2>1, <2>2, GreatestIndex
  <2>3. IsFold(h)
    BY <2>1, <2>2, Zenon DEF Folds
  <2> QED BY <2>3 DEF g
<1>4. Folds(g, F, <<>>, n)
  <2>1. ASSUME NEW s \in SUBSET (1..n), s # {}
        PROVE  F[Max(s)][g[s \ {Max(s)}]] = AddPart(g[s \ {Max(s)}], parts[Max(s)])
    BY <1>1, <2>1, GreatestIndex
  <2> QED BY <1>3, <2>1, Zenon DEF Folds
<1>5. MergeSmallParts(parts) = g[1..n]
  BY <1>1, Zenon DEF MergeSmallParts, FoldLeft, MapThenFoldSet, g
<1>6. \A i \in 1..n : \A x \in A[i - 1] : F[i][x] \in A[i]
  <2> HIDE DEF F
  <2> QED BY <1>2
<1>7. g[1..n] \in A[n]
  <2> HIDE DEF F, T, n
  <2> QED BY <1>1, <1>4, <1>6, FoldPrefix
<1> QED BY <1>5, <1>7

\* What is merged are texts of the parts' letters, none of them empty.
LEMMA MergeType ==
  ASSUME NEW L, NEW parts \in Seq(PartsOf(L))
  PROVE  MergeSmallParts(parts) \in Seq(PartsOf(L))
<1> DEFINE A == [i \in 0..Len(parts) |-> Seq(PartsOf(L))]
<1>1. A[0] = Seq(PartsOf(L)) /\ \A i \in 1..Len(parts) : A[i] = Seq(PartsOf(L)) /\ A[i - 1] = Seq(PartsOf(L))
  OBVIOUS
<1>2. \A i \in 1..Len(parts) : \A x \in Seq(PartsOf(L)) : AddPart(x, parts[i]) \in Seq(PartsOf(L))
  BY AddPartType
<1>3. <<>> \in Seq(PartsOf(L)) /\ A[Len(parts)] = Seq(PartsOf(L))
  BY NoText
<1> HIDE DEF A
<1>4. MergeSmallParts(parts) \in A[Len(parts)]
  BY <1>1, <1>2, <1>3, MergeFold
<1> QED BY <1>3, <1>4

\* A step of the join.
LEMMA AddTextType ==
  ASSUME NEW L, NEW text \in TextsOf(L), NEW s \in {b \in Block : Letters(b.text) \subseteq L}
  PROVE  AddText(text, s) \in TextsOf(L)
<1>1. s.text \in TextsOf(L)
  BY DEF Block, TextsOf
<1> QED BY <1>1, BreakBetween DEF AddText

\* The same of the join.
LEMMA JoinFold ==
  ASSUME NEW L, NEW segments \in Seq({b \in Block : Letters(b.text) \subseteq L}),
         NEW A, <<>> \in A[0],
         \A i \in 1..Len(segments) : \A x \in A[i - 1] : x \in TextsOf(L) /\ AddText(x, segments[i]) \in A[i]
  PROVE  JoinTexts(segments) \in A[Len(segments)]
<1> DEFINE T == TextsOf(L)
           n == Len(segments)
           IsFold(g) == g = [s \in SUBSET (1..n) |->
              IF s = {} THEN <<>> ELSE AddText(g[s \ {Max(s)}], segments[Max(s)])]
           g == CHOOSE g : IsFold(g)
           F == [i \in 1..n |->
                  [x \in T \cup {g[s] : s \in SUBSET (1..n)} |-> AddText(x, segments[i])]]
<1>1. n \in Nat /\ DOMAIN segments = 1..n /\ \A i \in 1..n : segments[i] \in {b \in Block : Letters(b.text) \subseteq L}
  OBVIOUS
<1>2. <<>> \in T /\ \A i \in 1..n : \A x \in T : F[i][x] = AddText(x, segments[i]) /\ F[i][x] \in T
  BY <1>1, AddTextType, NoText
<1> HIDE DEF g
<1>3. IsFold(g)
  <2>1. PICK h : Folds(h, F, <<>>, n) /\ \A s \in SUBSET (1..n) : h[s] \in T
    <3> HIDE DEF T, n, F
    <3> QED BY <1>1, <1>2, FoldExists
  <2>2. ASSUME NEW s \in SUBSET (1..n), s # {}
        PROVE  F[Max(s)][h[s \ {Max(s)}]] = AddText(h[s \ {Max(s)}], segments[Max(s)])
    <3> HIDE DEF F
    <3> QED BY <1>1, <1>2, <2>1, <2>2, GreatestIndex
  <2>3. IsFold(h)
    BY <2>1, <2>2, Zenon DEF Folds
  <2> QED BY <2>3 DEF g
<1>4. Folds(g, F, <<>>, n)
  <2>1. ASSUME NEW s \in SUBSET (1..n), s # {}
        PROVE  F[Max(s)][g[s \ {Max(s)}]] = AddText(g[s \ {Max(s)}], segments[Max(s)])
    BY <1>1, <2>1, GreatestIndex
  <2> QED BY <1>3, <2>1, Zenon DEF Folds
<1>5. JoinTexts(segments) = g[1..n]
  BY <1>1, Zenon DEF JoinTexts, FoldLeft, MapThenFoldSet, g
<1>6. \A i \in 1..n : \A x \in A[i - 1] : F[i][x] \in A[i]
  <2> HIDE DEF F
  <2> QED BY <1>2
<1>7. g[1..n] \in A[n]
  <2> HIDE DEF F, T, n
  <2> QED BY <1>1, <1>4, <1>6, FoldPrefix
<1> QED BY <1>5, <1>7

\* Joined texts have the letters of the segments only.
LEMMA JoinType ==
  ASSUME NEW L, NEW segments \in Seq({b \in Block : Letters(b.text) \subseteq L})
  PROVE  JoinTexts(segments) \in TextsOf(L)
<1> DEFINE A == [i \in 0..Len(segments) |-> TextsOf(L)]
<1>1. A[0] = TextsOf(L) /\ \A i \in 1..Len(segments) : A[i] = TextsOf(L) /\ A[i - 1] = TextsOf(L)
  OBVIOUS
<1>2. \A i \in 1..Len(segments) : \A x \in TextsOf(L) : AddText(x, segments[i]) \in TextsOf(L)
  BY AddTextType
<1>3. <<>> \in TextsOf(L) /\ A[Len(segments)] = TextsOf(L)
  BY NoText
<1> HIDE DEF A
<1>4. JoinTexts(segments) \in A[Len(segments)]
  BY <1>1, <1>2, <1>3, JoinFold
<1> QED BY <1>3, <1>4

-----------------------------------------------------------------------------
(* Clauses                                                                 *)

\* Segments of S on one page.
ClausesOf(S) ==
  {c \in Seq(S) : c # <<>> /\ \A k \in 1..Len(c) : c[k].page = Head(c).page}

\* A step of _group_into_clauses.
LEMMA AddToClausesType ==
  ASSUME NEW S, NEW clauses \in Seq(ClausesOf(S)), NEW s \in S
  PROVE  AddToClauses(clauses, s) \in Seq(ClausesOf(S))
<1>1. <<s>> \in ClausesOf(S)
  BY DEF ClausesOf
<1>2. Append(clauses, <<s>>) \in Seq(ClausesOf(S))
  BY <1>1, AppendProperties
<1>3. CASE clauses # <<>> /\ s.page = Head(Last(clauses)).page
  <2>1. PICK c \in ClausesOf(S) : c = clauses[Len(clauses)] /\ Len(clauses) \in 1..Len(clauses)
    BY <1>3
  <2>2. /\ c \in Seq(S) /\ c # <<>>
        /\ \A k \in 1..Len(c) : c[k].page = Head(c).page
        /\ s.page = Head(c).page
    BY <1>3, <2>1 DEF ClausesOf, Last
  <2>3. PICK d \in Seq(S) : d = Append(c, s)
    BY <2>2, AppendProperties
  <2>4. d # <<>> /\ Head(d) = Head(c) /\ \A k \in 1..Len(d) : d[k].page = Head(d).page
    BY <2>2, <2>3, AppendProperties
  <2>5. d \in ClausesOf(S)
    BY <2>4 DEF ClausesOf
  <2>6. [clauses EXCEPT ![Len(clauses)] = d] \in Seq(ClausesOf(S))
    BY <2>1, <2>5, ExceptSeq
  <2>7. \/ AddToClauses(clauses, s) = Append(clauses, <<s>>)
        \/ AddToClauses(clauses, s)
             = [clauses EXCEPT ![Len(clauses)] = Append(clauses[Len(clauses)], s)]
    BY DEF AddToClauses
  <2> QED BY <1>2, <2>1, <2>3, <2>6, <2>7
<1>4. CASE clauses = <<>> \/ s.page # Head(Last(clauses)).page
  BY <1>2, <1>4 DEF AddToClauses
<1> QED BY <1>3, <1>4

\* The same of _group_into_clauses.
LEMMA ClausesFold ==
  ASSUME NEW S, NEW segments \in Seq(S),
         NEW A, <<>> \in A[0],
         \A i \in 1..Len(segments) : \A x \in A[i - 1] : x \in Seq(ClausesOf(S)) /\ AddToClauses(x, segments[i]) \in A[i]
  PROVE  Clauses(segments) \in A[Len(segments)]
<1> DEFINE T == Seq(ClausesOf(S))
           n == Len(segments)
           IsFold(g) == g = [s \in SUBSET (1..n) |->
              IF s = {} THEN <<>> ELSE AddToClauses(g[s \ {Max(s)}], segments[Max(s)])]
           g == CHOOSE g : IsFold(g)
           F == [i \in 1..n |->
                  [x \in T \cup {g[s] : s \in SUBSET (1..n)} |-> AddToClauses(x, segments[i])]]
<1>1. n \in Nat /\ DOMAIN segments = 1..n /\ \A i \in 1..n : segments[i] \in S
  OBVIOUS
<1>2. <<>> \in T /\ \A i \in 1..n : \A x \in T : F[i][x] = AddToClauses(x, segments[i]) /\ F[i][x] \in T
  BY <1>1, AddToClausesType
<1> HIDE DEF g
<1>3. IsFold(g)
  <2>1. PICK h : Folds(h, F, <<>>, n) /\ \A s \in SUBSET (1..n) : h[s] \in T
    <3> HIDE DEF T, n, F
    <3> QED BY <1>1, <1>2, FoldExists
  <2>2. ASSUME NEW s \in SUBSET (1..n), s # {}
        PROVE  F[Max(s)][h[s \ {Max(s)}]] = AddToClauses(h[s \ {Max(s)}], segments[Max(s)])
    <3> HIDE DEF F
    <3> QED BY <1>1, <1>2, <2>1, <2>2, GreatestIndex
  <2>3. IsFold(h)
    BY <2>1, <2>2, Zenon DEF Folds
  <2> QED BY <2>3 DEF g
<1>4. Folds(g, F, <<>>, n)
  <2>1. ASSUME NEW s \in SUBSET (1..n), s # {}
        PROVE  F[Max(s)][g[s \ {Max(s)}]] = AddToClauses(g[s \ {Max(s)}], segments[Max(s)])
    BY <1>1, <2>1, GreatestIndex
  <2> QED BY <1>3, <2>1, Zenon DEF Folds
<1>5. Clauses(segments) = g[1..n]
  BY <1>1, Zenon DEF Clauses, FoldLeft, MapThenFoldSet, g
<1>6. \A i \in 1..n : \A x \in A[i - 1] : F[i][x] \in A[i]
  <2> HIDE DEF F
  <2> QED BY <1>2
<1>7. g[1..n] \in A[n]
  <2> HIDE DEF F, T, n
  <2> QED BY <1>1, <1>4, <1>6, FoldPrefix
<1> QED BY <1>5, <1>7

\* A clause group is not empty and lies on one page.
LEMMA ClausesType ==
  ASSUME NEW S, NEW segments \in Seq(S)
  PROVE  Clauses(segments) \in Seq(ClausesOf(S))
<1> DEFINE A == [i \in 0..Len(segments) |-> Seq(ClausesOf(S))]
<1>1. A[0] = Seq(ClausesOf(S)) /\ \A i \in 1..Len(segments) : A[i] = Seq(ClausesOf(S)) /\ A[i - 1] = Seq(ClausesOf(S))
  OBVIOUS
<1>2. \A i \in 1..Len(segments) : \A x \in Seq(ClausesOf(S)) : AddToClauses(x, segments[i]) \in Seq(ClausesOf(S))
  BY AddToClausesType
<1>3. <<>> \in Seq(ClausesOf(S)) /\ A[Len(segments)] = Seq(ClausesOf(S))
  BY NoText
<1> HIDE DEF A
<1>4. Clauses(segments) \in A[Len(segments)]
  BY <1>1, <1>2, <1>3, ClausesFold
<1> QED BY <1>3, <1>4

-----------------------------------------------------------------------------
(* Sections and groups                                                     *)

\* FlattenSeq makes what putting one sequence behind another makes, when that
\* keeps A.
LEMMA FlattenPrefix ==
  ASSUME NEW S, NEW seqs \in Seq(Seq(S)),
         NEW A, <<>> \in A[0], seqs # <<>> => seqs[1] \in A[1],
         \A i \in 2..Len(seqs) : \A x \in A[i - 1] : x \in Seq(S) => x \o seqs[i] \in A[i]
  PROVE  FlattenSeq(seqs) \in A[Len(seqs)]
<1> DEFINE n == Len(seqs)
           IsFlat(f) == f = [i \in 1..n |-> IF i = 1 THEN seqs[i] ELSE f[i - 1] \o seqs[i]]
<1>1. n \in Nat /\ \A i \in 1..n : seqs[i] \in Seq(S)
  OBVIOUS
<1>2. CASE n = 0
  BY <1>2 DEF FlattenSeq
<1>3. CASE n # 0
  <2> DEFINE flat(m) == \E f : f = [i \in 1..m |-> IF i = 1 THEN seqs[i] ELSE f[i - 1] \o seqs[i]]
             bad == {m \in 1..n : ~flat(m)}
  <2>1. flat(n)
    <3> SUFFICES ASSUME ~flat(n) PROVE FALSE
      OBVIOUS
    <3>0. n \in bad
      <4>1. n \in 1..n
        BY <1>1, <1>3
      <4> HIDE DEF flat, n
      <4> QED BY <4>1
    <3>1. PICK m \in bad : \A k \in bad : m <= k
      <4>1. bad \in SUBSET Nat /\ bad # {}
        <5>1. \A k \in bad : k \in Nat
          OBVIOUS
        <5> HIDE DEF bad
        <5> QED BY <3>0, <5>1
      <4> HIDE DEF bad
      <4> QED BY <4>1, LeastNatural
    <3>2. CASE m = 1
      <4> DEFINE f == [i \in 1..1 |-> seqs[1]]
      <4>1. f = [i \in 1..1 |-> IF i = 1 THEN seqs[i] ELSE f[i - 1] \o seqs[i]]
        OBVIOUS
      <4> QED BY <3>1, <3>2, <4>1
    <3>3. CASE m # 1
      <4>1. m \in 1..n /\ m - 1 \in 1..n /\ ~(m <= m - 1)
        BY <1>1, <3>1, <3>3
      <4>2. flat(m - 1)
        BY <3>1, <4>1
      <4>3. PICK f : f = [i \in 1..(m - 1) |-> IF i = 1 THEN seqs[i] ELSE f[i - 1] \o seqs[i]]
        BY <4>2
      <4> DEFINE h == [i \in 1..m |-> IF i = m THEN f[m - 1] \o seqs[m] ELSE f[i]]
      <4>4. \A i \in 1..m : h[i] = IF i = 1 THEN seqs[i] ELSE h[i - 1] \o seqs[i]
        <5> SUFFICES ASSUME NEW i \in 1..m
                     PROVE  h[i] = IF i = 1 THEN seqs[i] ELSE h[i - 1] \o seqs[i]
          OBVIOUS
        <5>1. CASE i = m
          <6>1. m - 1 \in 1..m /\ m - 1 # m /\ m \in 1..m
            BY <4>1
          <6>2. h[m - 1] = f[m - 1] /\ h[m] = f[m - 1] \o seqs[m]
            BY <6>1
          <6> QED BY <3>3, <5>1, <6>2
        <5>2. CASE i # m
          <6>1. i \in 1..(m - 1)
            BY <4>1, <5>2
          <6>2. f[i] = IF i = 1 THEN seqs[i] ELSE f[i - 1] \o seqs[i]
            BY <4>3, <6>1
          <6>3. i # 1 => i - 1 \in 1..m /\ i - 1 # m
            BY <4>1, <6>1
          <6> QED BY <5>2, <6>2, <6>3
        <5> QED BY <5>1, <5>2
      <4>5. h = [i \in 1..m |-> h[i]]
        OBVIOUS
      <4> HIDE DEF h
      <4>6. h = [i \in 1..m |-> IF i = 1 THEN seqs[i] ELSE h[i - 1] \o seqs[i]]
        BY <4>4, <4>5, Zenon
      <4> QED BY <3>1, <4>6
    <3> QED BY <3>2, <3>3
  <2> DEFINE f == CHOOSE f : IsFlat(f)
  <2>2. FlattenSeq(seqs) = f[n]
    BY <1>3, Zenon DEF FlattenSeq
  <2>3. IsFlat(f)
    BY <2>1
  <2> HIDE DEF f
  <2> DEFINE wrong == {i \in 1..n : f[i] \notin Seq(S) \/ f[i] \notin A[i]}
  <2>4. wrong = {}
    <3> SUFFICES ASSUME wrong # {} PROVE FALSE
      OBVIOUS
    <3>1. PICK m \in wrong : \A k \in wrong : m <= k
      <4>1. wrong \in SUBSET Nat
        OBVIOUS
      <4> HIDE DEF wrong
      <4> QED BY <4>1, LeastNatural
    <3>2. CASE m = 1
      BY <1>1, <1>3, <2>3, <3>1, <3>2
    <3>3. CASE m # 1
      <4>1. m - 1 \in 1..n /\ m \in 2..n /\ ~(m <= m - 1)
        BY <1>1, <3>1, <3>3
      <4>2. f[m - 1] \in Seq(S) /\ f[m - 1] \in A[m - 1]
        BY <3>1, <4>1
      <4>3. f[m] = f[m - 1] \o seqs[m]
        BY <2>3, <3>1, <3>3
      <4>4. seqs[m] \in Seq(S)
        BY <1>1, <3>1
      <4>5. f[m - 1] \o seqs[m] \in Seq(S)
        BY <4>2, <4>4, ConcatProperties
      <4>6. f[m - 1] \o seqs[m] \in A[m]
        BY <4>1, <4>2
      <4> QED BY <3>1, <4>3, <4>5, <4>6
    <3> QED BY <3>2, <3>3
  <2> QED BY <1>1, <1>3, <2>2, <2>4
<1> QED BY <1>2, <1>3

\* So it adds no element.
LEMMA FlattenType ==
  ASSUME NEW S, NEW seqs \in Seq(Seq(S))
  PROVE  FlattenSeq(seqs) \in Seq(S)
<1> DEFINE A == [i \in 0..Len(seqs) |-> Seq(S)]
<1>1. /\ A[0] = Seq(S) /\ A[Len(seqs)] = Seq(S)
      /\ \A i \in 1..Len(seqs) : A[i] = Seq(S) /\ A[i - 1] = Seq(S)
  OBVIOUS
<1>2. /\ <<>> \in Seq(S)
      /\ \A i \in 1..Len(seqs) : seqs[i] \in Seq(S)
      /\ \A i \in 1..Len(seqs) : \A x \in Seq(S) : x \o seqs[i] \in Seq(S)
  BY ConcatProperties
<1>3. seqs # <<>> => 1 \in 1..Len(seqs)
  OBVIOUS
<1>4. \A i \in 2..Len(seqs) : i \in 1..Len(seqs)
  OBVIOUS
<1> HIDE DEF A
<1>5. FlattenSeq(seqs) \in A[Len(seqs)]
  BY <1>1, <1>2, <1>3, <1>4, FlattenPrefix
<1> QED BY <1>1, <1>5

\* The section of a block is the heading itself or that of the block before.
LEMMA SectionMoves ==
  ASSUME NEW d \in Seq(Block)
  PROVE  /\ SectionAt(d, 0) = <<>>
         /\ \A i \in 1..Len(d) :
              SectionAt(d, i) = IF d[i].kind = "heading" THEN d[i].text ELSE SectionAt(d, i - 1)
<1> DEFINE above(i) == {h \in 1..i : d[h].kind = "heading"}
<1>1. \A i : SectionAt(d, i) = IF above(i) = {} THEN <<>> ELSE d[Max(above(i))].text
  BY DEF SectionAt
<1>2. above(0) = {}
  OBVIOUS
<1>3. ASSUME NEW i \in 1..Len(d), d[i].kind = "heading" PROVE SectionAt(d, i) = d[i].text
  <2>1. i \in Nat /\ above(i) \in SUBSET (0..i) /\ i \in above(i)
    BY <1>3
  <2>2. Max(above(i)) \in above(i) /\ i <= Max(above(i))
    <3> HIDE DEF above
    <3> QED BY <2>1, Greatest
  <2>3. PICK k \in 1..i : k = Max(above(i))
    BY <2>2
  <2>4. k = i
    BY <2>1, <2>2, <2>3
  <2> QED BY <1>1, <2>1, <2>3, <2>4
<1>4. ASSUME NEW i \in 1..Len(d), d[i].kind # "heading" PROVE SectionAt(d, i) = SectionAt(d, i - 1)
  <2>1. \A h \in 1..i : h = i \/ h \in 1..(i - 1)
    OBVIOUS
  <2>2. \A h \in 1..(i - 1) : h \in 1..i
    OBVIOUS
  <2>3. above(i) = above(i - 1)
    BY <1>4, <2>1, <2>2
  <2> HIDE DEF above
  <2> QED BY <1>1, <2>3
<1> QED BY <1>1, <1>2, <1>3, <1>4

\* The bodies of d in the section under a heading with text h.
BodiesUnder(d, h) ==
  {d[b] : b \in {i \in 1..Len(d) : d[i].kind # "heading" /\ SectionAt(d, i) = h}}

\* Sections, and those of d: their segments stand under their heading.
AnySection == [heading : Block, segments : Seq(Block)]
SectionsOf(d) ==
  {s \in AnySection : s.heading.kind = "heading" /\ s.segments \in Seq(BodiesUnder(d, s.heading.text))}

\* The section that is open after some blocks.
OpenSection(sections) == IF sections = <<>> THEN <<>> ELSE Last(sections).heading.text
SectionsUpTo(d, i) == {ss \in Seq(SectionsOf(d)) : OpenSection(ss) = SectionAt(d, i)}

\* A step of _build_sections.
LEMMA AddToSectionsType ==
  ASSUME NEW ss \in Seq(AnySection), NEW b \in Block
  PROVE  AddToSections(ss, b) \in Seq(AnySection)
<1>1. [heading |-> b, segments |-> <<>>] \in AnySection
  BY DEF AnySection
<1>2. Append(ss, [heading |-> b, segments |-> <<>>]) \in Seq(AnySection)
  BY <1>1, AppendProperties
<1>3. [heading |-> NoHeading, segments |-> <<>>] \in AnySection
  BY DEF AnySection, Block, NoHeading, Kinds
<1>4. PICK open \in Seq(AnySection) :
        /\ open = IF ss = <<>> THEN <<[heading |-> NoHeading, segments |-> <<>>]>> ELSE ss
        /\ open # <<>>
  <2>1. PICK new \in AnySection : new = [heading |-> NoHeading, segments |-> <<>>]
    BY <1>3
  <2>2. <<new>> \in Seq(AnySection) /\ <<new>> # <<>>
    OBVIOUS
  <2>3. CASE ss = <<>>
    BY <2>1, <2>2, <2>3, Zenon
  <2>4. CASE ss # <<>>
    BY <2>4, Zenon
  <2> QED BY <2>3, <2>4
<1>5. PICK last \in AnySection : last = open[Len(open)] /\ Len(open) \in 1..Len(open)
  BY <1>4
<1>6. [last EXCEPT !.segments = Append(@, b)] \in AnySection
  BY <1>5, AppendProperties DEF AnySection
<1>7. [open EXCEPT ![Len(open)] = [last EXCEPT !.segments = Append(@, b)]] \in Seq(AnySection)
  BY <1>5, <1>6, ExceptSeq
<1>8. [open EXCEPT ![Len(open)].segments = Append(@, b)]
        = [open EXCEPT ![Len(open)] = [last EXCEPT !.segments = Append(@, b)]]
  BY <1>5
<1> QED BY <1>2, <1>4, <1>7, <1>8 DEF AddToSections

\* A section without segments is one of d's.
LEMMA NewSection ==
  ASSUME NEW d, NEW b \in Block, b.kind = "heading"
  PROVE  [heading |-> b, segments |-> <<>>] \in SectionsOf(d)
<1>1. PICK new : new = [heading |-> b, segments |-> <<>>]
  OBVIOUS
<1>2. new \in AnySection /\ new.heading = b /\ new.segments = <<>>
  BY <1>1 DEF AnySection
<1>3. <<>> \in Seq(BodiesUnder(d, b.text))
  OBVIOUS
<1> QED BY <1>1, <1>2, <1>3 DEF SectionsOf

\* The sections of the first i blocks come from those of the first i - 1.
LEMMA AddToSectionsStep ==
  ASSUME NEW d \in Seq(Block), NEW i \in 1..Len(d), NEW ss \in SectionsUpTo(d, i - 1)
  PROVE  AddToSections(ss, d[i]) \in SectionsUpTo(d, i)
<1>1. d[i] \in Block /\ ss \in Seq(SectionsOf(d)) /\ OpenSection(ss) = SectionAt(d, i - 1)
  BY DEF SectionsUpTo
<1>2. CASE d[i].kind = "heading"
  <2>1. [heading |-> d[i], segments |-> <<>>] \in SectionsOf(d)
    BY <1>1, <1>2, NewSection
  <2>2. PICK tt \in Seq(SectionsOf(d)) : tt = Append(ss, [heading |-> d[i], segments |-> <<>>])
    BY <1>1, <2>1, AppendProperties
  <2>3. tt # <<>> /\ Last(tt) = [heading |-> d[i], segments |-> <<>>]
    BY <1>1, <2>1, <2>2, AppendProperties DEF Last
  <2>4. OpenSection(tt) = SectionAt(d, i)
    BY <1>2, <2>3, SectionMoves DEF OpenSection
  <2> QED BY <1>2, <2>2, <2>4 DEF AddToSections, SectionsUpTo
<1>3. CASE d[i].kind # "heading"
  <2>1. [heading |-> NoHeading, segments |-> <<>>] \in SectionsOf(d)
    <3>1. NoHeading \in Block /\ NoHeading.kind = "heading"
      BY DEF Block, NoHeading, Kinds
    <3> QED BY <3>1, NewSection
  <2>2. PICK open \in Seq(SectionsOf(d)) :
          /\ open = IF ss = <<>> THEN <<[heading |-> NoHeading, segments |-> <<>>]>> ELSE ss
          /\ open # <<>>
    <3>1. PICK new \in SectionsOf(d) : new = [heading |-> NoHeading, segments |-> <<>>]
      BY <2>1
    <3>2. <<new>> \in Seq(SectionsOf(d)) /\ <<new>> # <<>>
      OBVIOUS
    <3>3. CASE ss = <<>>
      BY <3>1, <3>2, <3>3, Zenon
    <3>4. CASE ss # <<>>
      BY <1>1, <3>4, Zenon
    <3> QED BY <3>3, <3>4
  <2>3. PICK last \in SectionsOf(d) : last = open[Len(open)] /\ Len(open) \in 1..Len(open)
    BY <2>2
  <2>4. last.heading.text = SectionAt(d, i)
    <3>1. SectionAt(d, i) = SectionAt(d, i - 1)
      BY <1>3, SectionMoves
    <3>2. last.heading.text = OpenSection(ss)
      BY <2>2, <2>3 DEF OpenSection, Last, NoHeading
    <3> QED BY <1>1, <3>1, <3>2
  <2>5. d[i] \in BodiesUnder(d, last.heading.text)
    BY <1>3, <2>4 DEF BodiesUnder
  <2>6. last.segments \in Seq(BodiesUnder(d, last.heading.text)) /\ last.segments \in Seq(Block)
    BY DEF SectionsOf, AnySection
  <2>7. /\ Append(last.segments, d[i]) \in Seq(BodiesUnder(d, last.heading.text))
        /\ Append(last.segments, d[i]) \in Seq(Block)
    BY <1>1, <2>5, <2>6, AppendProperties
  <2>8. PICK next : next = [last EXCEPT !.segments = Append(@, d[i])]
    OBVIOUS
  <2>9. next \in SectionsOf(d) /\ next.heading = last.heading
    BY <2>7, <2>8 DEF SectionsOf, AnySection
  <2>10. PICK tt : tt = [open EXCEPT ![Len(open)] = next]
    OBVIOUS
  <2>11. tt \in Seq(SectionsOf(d)) /\ Len(tt) = Len(open) /\ tt[Len(open)] = next
    BY <2>3, <2>9, <2>10, ExceptSeq
  <2>12. tt # <<>> /\ OpenSection(tt) = SectionAt(d, i)
    BY <2>3, <2>4, <2>9, <2>11 DEF OpenSection, Last
  <2>13. AddToSections(ss, d[i]) = tt
    BY <1>3, <2>2, <2>3, <2>8, <2>10 DEF AddToSections
  <2> QED BY <2>11, <2>12, <2>13 DEF SectionsUpTo
<1> QED BY <1>2, <1>3

\* The same of _build_sections.
LEMMA SectionsFold ==
  ASSUME NEW d \in Seq(Block),
         NEW A, <<>> \in A[0],
         \A i \in 1..Len(d) : \A x \in A[i - 1] : x \in Seq(AnySection) /\ AddToSections(x, d[i]) \in A[i]
  PROVE  Sections(d) \in A[Len(d)]
<1> DEFINE T == Seq(AnySection)
           n == Len(d)
           IsFold(g) == g = [s \in SUBSET (1..n) |->
              IF s = {} THEN <<>> ELSE AddToSections(g[s \ {Max(s)}], d[Max(s)])]
           g == CHOOSE g : IsFold(g)
           F == [i \in 1..n |->
                  [x \in T \cup {g[s] : s \in SUBSET (1..n)} |-> AddToSections(x, d[i])]]
<1>1. n \in Nat /\ DOMAIN d = 1..n /\ \A i \in 1..n : d[i] \in Block
  OBVIOUS
<1>2. <<>> \in T /\ \A i \in 1..n : \A x \in T : F[i][x] = AddToSections(x, d[i]) /\ F[i][x] \in T
  BY <1>1, AddToSectionsType
<1> HIDE DEF g
<1>3. IsFold(g)
  <2>1. PICK h : Folds(h, F, <<>>, n) /\ \A s \in SUBSET (1..n) : h[s] \in T
    <3> HIDE DEF T, n, F
    <3> QED BY <1>1, <1>2, FoldExists
  <2>2. ASSUME NEW s \in SUBSET (1..n), s # {}
        PROVE  F[Max(s)][h[s \ {Max(s)}]] = AddToSections(h[s \ {Max(s)}], d[Max(s)])
    <3> HIDE DEF F
    <3> QED BY <1>1, <1>2, <2>1, <2>2, GreatestIndex
  <2>3. IsFold(h)
    BY <2>1, <2>2, Zenon DEF Folds
  <2> QED BY <2>3 DEF g
<1>4. Folds(g, F, <<>>, n)
  <2>1. ASSUME NEW s \in SUBSET (1..n), s # {}
        PROVE  F[Max(s)][g[s \ {Max(s)}]] = AddToSections(g[s \ {Max(s)}], d[Max(s)])
    BY <1>1, <2>1, GreatestIndex
  <2> QED BY <1>3, <2>1, Zenon DEF Folds
<1>5. Sections(d) = g[1..n]
  BY <1>1, Zenon DEF Sections, FoldLeft, MapThenFoldSet, g
<1>6. \A i \in 1..n : \A x \in A[i - 1] : F[i][x] \in A[i]
  <2> HIDE DEF F
  <2> QED BY <1>2
<1>7. g[1..n] \in A[n]
  <2> HIDE DEF F, T, n
  <2> QED BY <1>1, <1>4, <1>6, FoldPrefix
<1> QED BY <1>5, <1>7

\* A body is put under the heading that is the last before it.
LEMMA SectionsType ==
  ASSUME NEW d \in Seq(Block)
  PROVE  Sections(d) \in Seq(SectionsOf(d))
<1> DEFINE n == Len(d)
           A == [i \in 0..n |-> SectionsUpTo(d, i)]
<1>1. /\ n \in Nat /\ A[0] = SectionsUpTo(d, 0) /\ A[n] = SectionsUpTo(d, n)
      /\ \A i \in 1..n : A[i] = SectionsUpTo(d, i) /\ A[i - 1] = SectionsUpTo(d, i - 1)
  OBVIOUS
<1>2. <<>> \in SectionsUpTo(d, 0)
  BY SectionMoves DEF SectionsUpTo, OpenSection
<1>3. \A i \in 1..n : \A ss \in SectionsUpTo(d, i - 1) : AddToSections(ss, d[i]) \in SectionsUpTo(d, i)
  <2> SUFFICES ASSUME NEW i \in 1..n, NEW ss \in SectionsUpTo(d, i - 1)
               PROVE  AddToSections(ss, d[i]) \in SectionsUpTo(d, i)
    OBVIOUS
  <2> QED BY AddToSectionsStep
<1>4. \A i \in 1..n : \A ss \in SectionsUpTo(d, i - 1) : ss \in Seq(AnySection)
  <2>1. SectionsOf(d) \subseteq AnySection
    BY DEF SectionsOf
  <2> QED BY <2>1, SeqMonotonic DEF SectionsUpTo
<1> HIDE DEF A
<1>5. Sections(d) \in A[n]
  BY <1>1, <1>2, <1>3, <1>4, SectionsFold
<1> QED BY <1>1, <1>5 DEF SectionsUpTo

\* Clause groups with the heading of their section: all segments stand under it,
\* on one page.
GroupsFor(d) ==
  {g \in [heading : Block, segments : Seq(Block)] :
     /\ g.heading.kind = "heading"
     /\ g.segments \in ClausesOf(BodiesUnder(d, g.heading.text))}

\* The clauses of a section make such groups.
LEMMA GroupsInType ==
  ASSUME NEW d, NEW s \in SectionsOf(d)
  PROVE  GroupsIn(s) \in Seq(GroupsFor(d))
<1>1. /\ s.heading \in Block /\ s.heading.kind = "heading"
      /\ s.segments \in Seq(BodiesUnder(d, s.heading.text)) /\ s.segments \in Seq(Block)
  BY DEF SectionsOf, AnySection
<1>2. PICK cs \in Seq(ClausesOf(BodiesUnder(d, s.heading.text))) : cs = Clauses(s.segments)
  BY <1>1, ClausesType
<1>3. Clauses(s.segments) \in Seq(ClausesOf(Block))
  BY <1>1, ClausesType
<1>4. ASSUME NEW i \in 1..Len(cs)
      PROVE  [heading |-> s.heading, segments |-> cs[i]] \in GroupsFor(d)
  <2>1. cs[i] \in ClausesOf(BodiesUnder(d, s.heading.text)) /\ cs[i] \in ClausesOf(Block)
    BY <1>2, <1>3
  <2>2. cs[i] \in Seq(Block)
    BY <2>1 DEF ClausesOf
  <2> QED BY <1>1, <2>1, <2>2 DEF GroupsFor
<1>5. GroupsIn(s) = [i \in 1..Len(cs) |-> [heading |-> s.heading, segments |-> cs[i]]]
  BY <1>2 DEF GroupsIn
<1> QED BY <1>4, <1>5

\* _hierarchical_split finds such groups.
LEMMA GroupsType ==
  ASSUME NEW d \in Seq(Block)
  PROVE  GroupsOf(d) \in Seq(GroupsFor(d))
<1>1. \A s \in SectionsOf(d) : GroupsIn(s) \in Seq(GroupsFor(d))
  BY GroupsInType
<1>2. PICK ss \in Seq(SectionsOf(d)) : ss = Sections(d)
  BY SectionsType
<1>3. [i \in 1..Len(ss) |-> GroupsIn(ss[i])] \in Seq(Seq(GroupsFor(d)))
  <2>1. \A i \in 1..Len(ss) : GroupsIn(ss[i]) \in Seq(GroupsFor(d))
    BY <1>1
  <2> QED BY <2>1
<1>4. GroupsOf(d) = FlattenSeq([i \in 1..Len(ss) |-> GroupsIn(ss[i])])
  BY <1>2 DEF GroupsOf
<1> QED BY <1>3, <1>4, FlattenType

-----------------------------------------------------------------------------
(* Splitting                                                               *)

\* A part of a text has no other letters.
LEMMA SubText ==
  ASSUME NEW L, NEW text \in TextsOf(L), NEW m \in Nat, NEW n \in Nat, 1 <= m, n <= Len(text)
  PROVE  /\ SubSeq(text, m, n) \in TextsOf(L)
         /\ Len(SubSeq(text, m, n)) = IF m <= n THEN n - m + 1 ELSE 0
<1>1. text \in Seq(Nat) /\ \A i \in 1..Len(text) : IsLetter(text[i]) => text[i] \in L
  BY DEF TextsOf, Letters, Range
<1>2. \A i \in m..n : i \in 1..Len(text) /\ text[i] \in Nat
  BY <1>1
<1>3. /\ SubSeq(text, m, n) \in Seq(Nat)
      /\ Len(SubSeq(text, m, n)) = IF m <= n THEN n - m + 1 ELSE 0
      /\ \A i \in 1..(n - m + 1) : SubSeq(text, m, n)[i] = text[m + i - 1]
  <2>1. m \in Int /\ n \in Int /\ \A i \in m..n : text[i] \in Nat
    BY <1>2
  <2> QED BY <2>1, SubSeqProperties
<1> DEFINE part == SubSeq(text, m, n)
<1> HIDE DEF part
<1>4. ASSUME NEW i \in 1..Len(part), IsLetter(part[i]) PROVE part[i] \in L
  <2>1. i \in 1..(n - m + 1) /\ m + i - 1 \in m..n
    BY <1>3 DEF part
  <2> QED BY <1>1, <1>2, <1>3, <1>4, <2>1 DEF part
<1>5. Letters(part) \subseteq L
  BY <1>3, <1>4 DEF Letters, Range, part
<1> QED BY <1>3, <1>5 DEF TextsOf, part

\* Nor has a stripped one, and it is not longer.
LEMMA StripType ==
  ASSUME NEW L, NEW text \in TextsOf(L)
  PROVE  Strip(text) \in TextsOf(L) /\ Len(Strip(text)) <= Len(text)
<1> DEFINE kept == {i \in DOMAIN text : IsLetter(text[i])}
<1>1. text \in Seq(Nat) /\ Len(text) \in Nat /\ DOMAIN text = 1..Len(text)
  BY DEF TextsOf
<1>2. CASE kept = {}
  <2>1. Strip(text) = <<>>
    BY <1>2 DEF Strip
  <2> QED BY <1>1, <2>1, NoText
<1>3. CASE kept # {}
  <2>1. kept \in SUBSET Nat /\ kept \in SUBSET (0..Len(text))
    BY <1>1
  <2>2. \E i \in kept : \A j \in kept : i <= j
    <3> HIDE DEF kept
    <3> QED BY <1>3, <2>1, LeastNatural
  <2>3. \E i \in kept : \A j \in kept : j <= i
    <3> HIDE DEF kept
    <3> QED BY <1>1, <1>3, <2>1, Greatest
  <2>4. PICK i \in kept : i = CHOOSE k \in kept : \A j \in kept : k <= j
    BY <2>2
  <2>5. PICK j \in kept : j = CHOOSE k \in kept : \A l \in kept : l <= k
    BY <2>3
  <2>6. Strip(text) = SubSeq(text, i, j)
    BY <1>3, <2>4, <2>5 DEF Strip
  <2>7. i \in Nat /\ j \in Nat /\ 1 <= i /\ j <= Len(text)
    BY <1>1
  <2>8. SubSeq(text, i, j) \in TextsOf(L) /\ Len(SubSeq(text, i, j)) = IF i <= j THEN j - i + 1 ELSE 0
    BY <2>7, SubText
  <2> QED BY <1>1, <2>6, <2>7, <2>8
<1> QED BY <1>2, <1>3

\* Among a set of indices there is a k-th.
LEMMA KthIndex ==
  ASSUME NEW n \in Nat, NEW S \in SUBSET (1..n), NEW k \in 1..Cardinality(S)
  PROVE  \E i \in S : Cardinality({j \in S : j <= i}) = k
<1> DEFINE upTo(i) == {j \in S : j <= i}
           enough == {i \in 0..n : k <= Cardinality(upTo(i))}
<1>1. IsFiniteSet(S)
  <2>1. IsFiniteSet(1..n)
    BY FS_Interval
  <2> QED BY <2>1, FS_Subset
<1>2. \A i : IsFiniteSet(upTo(i)) /\ Cardinality(upTo(i)) \in Nat
  <2>1. \A i : upTo(i) \subseteq S
    OBVIOUS
  <2> HIDE DEF upTo
  <2> QED BY <1>1, <2>1, FS_Subset, FS_CardinalityType
<1>3. n \in enough
  <2>1. upTo(n) = S
    <3>1. \A j \in S : j <= n
      OBVIOUS
    <3> QED BY <3>1
  <2> HIDE DEF upTo
  <2> QED BY <2>1
<1>4. PICK m \in enough : \A i \in enough : m <= i
  <2>1. enough \in SUBSET Nat
    OBVIOUS
  <2> HIDE DEF enough
  <2> QED BY <1>3, <2>1, LeastNatural
<1>5. m # 0
  <2>1. upTo(0) = {}
    <3>1. \A j \in S : ~(j <= 0)
      OBVIOUS
    <3> QED BY <3>1
  <2> HIDE DEF upTo
  <2> QED BY <2>1, FS_EmptySet
<1>6. m \in 1..n /\ m - 1 \in 0..n /\ k <= Cardinality(upTo(m)) /\ Cardinality(upTo(m - 1)) < k
  <2>1. m \in 1..n /\ m - 1 \in 0..n /\ ~(m <= m - 1)
    BY <1>5
  <2>2. m - 1 \notin enough
    BY <1>4, <2>1
  <2>3. Cardinality(upTo(m - 1)) \in Nat /\ Cardinality(upTo(m)) \in Nat
    BY <1>2
  <2>4. ~(k <= Cardinality(upTo(m - 1)))
    BY <2>1, <2>2
  <2> HIDE DEF upTo
  <2> QED BY <2>1, <2>3, <2>4
<1>7. m \in S
  <2> SUFFICES ASSUME m \notin S PROVE FALSE
    OBVIOUS
  <2>1. upTo(m) = upTo(m - 1)
    <3>1. \A j \in S : j <= m <=> j <= m - 1
      BY <1>6
    <3> QED BY <3>1
  <2>2. Cardinality(upTo(m - 1)) \in Nat
    BY <1>2
  <2> HIDE DEF upTo
  <2> QED BY <1>6, <2>1, <2>2
<1>8. upTo(m) = upTo(m - 1) \cup {m} /\ m \notin upTo(m - 1)
  <2>1. \A j \in S : j <= m <=> (j <= m - 1 \/ j = m)
    BY <1>6
  <2>2. ~(m <= m - 1)
    BY <1>6
  <2> QED BY <1>7, <2>1, <2>2
<1>9. Cardinality(upTo(m)) = Cardinality(upTo(m - 1)) + 1
  <2> HIDE DEF upTo
  <2> QED BY <1>2, <1>8, FS_AddElement
<1>10. Cardinality(upTo(m)) = k
  <2>1. Cardinality(upTo(m - 1)) \in Nat
    BY <1>2
  <2> HIDE DEF upTo
  <2> QED BY <1>6, <1>9, <2>1
<1> QED BY <1>7, <1>10

\* A run of indices ends.
LEMMA RunEnds ==
  ASSUME NEW n \in Nat, NEW inside \in SUBSET (1..n), NEW i \in inside
  PROVE  \E e \in inside : i <= e /\ i..e \subseteq inside /\ e + 1 \notin inside
<1> DEFINE run == {e \in inside : i <= e /\ i..e \subseteq inside}
<1>1. run \in SUBSET (0..n) /\ i \in run
  <2>1. i \in Nat /\ \A j \in i..i : j = i
    OBVIOUS
  <2>2. \A e \in inside : e \in 0..n
    OBVIOUS
  <2>3. i <= i /\ i..i \subseteq inside
    BY <2>1
  <2>4. i \in run
    BY <2>3
  <2>5. run \subseteq 0..n
    BY <2>2
  <2> QED BY <2>4, <2>5
<1>2. PICK e \in run : \A f \in run : f <= e
  <2> HIDE DEF run
  <2> QED BY <1>1, Greatest
<1>3. e + 1 \notin inside
  <2> SUFFICES ASSUME e + 1 \in inside PROVE FALSE
    OBVIOUS
  <2>1. e \in Nat /\ i \in Nat /\ i <= e
    OBVIOUS
  <2>2. \A j \in i..(e + 1) : j \in i..e \/ j = e + 1
    BY <2>1
  <2>3. e + 1 \in run
    BY <2>1, <2>2
  <2>4. e + 1 <= e
    BY <1>2, <2>3
  <2> QED BY <2>1, <2>4
<1> QED BY <1>3

\* What a text is split into are parts of it, none of them empty.
LEMMA SplitType ==
  ASSUME NEW L, NEW text \in TextsOf(L), NEW seps
  PROVE  SplitText(text, seps) \in Seq(PartsOf(L))
<1> DEFINE n == Len(text)
           inside == DOMAIN text \ seps
           partAt(i) == Strip(SubSeq(text, i, CHOOSE e \in inside : i <= e /\ i..e \subseteq inside
                                                                    /\ e + 1 \notin inside))
           starts == {i \in inside : i - 1 \notin inside /\ partAt(i) # <<>>}
           nth(k) == CHOOSE i \in starts : Cardinality({j \in starts : j <= i}) = k
<1>1. n \in Nat /\ inside \in SUBSET (1..n)
  BY DEF TextsOf
<1>2. ASSUME NEW i \in inside PROVE partAt(i) \in TextsOf(L)
  <2>1. \E e \in inside : i <= e /\ i..e \subseteq inside /\ e + 1 \notin inside
    <3> HIDE DEF inside, n
    <3> QED BY <1>1, RunEnds
  <2>2. PICK e \in inside :
          e = CHOOSE f \in inside : i <= f /\ i..f \subseteq inside /\ f + 1 \notin inside
    BY <2>1
  <2>3. i \in Nat /\ e \in Nat /\ 1 <= i /\ e <= Len(text)
    BY <1>1
  <2>4. SubSeq(text, i, e) \in TextsOf(L)
    BY <2>3, SubText
  <2> QED BY <2>2, <2>4, StripType
<1>3. starts \in SUBSET (1..n) /\ \A i \in starts : partAt(i) \in PartsOf(L)
  <2>1. \A i \in starts : i \in inside /\ partAt(i) # <<>>
    OBVIOUS
  <2> HIDE DEF partAt, starts, inside, n
  <2> QED BY <1>1, <1>2, <2>1 DEF PartsOf
<1>4. ASSUME NEW k \in 1..Cardinality(starts) PROVE nth(k) \in starts
  <2> HIDE DEF starts, n
  <2>1. \E i \in starts : Cardinality({j \in starts : j <= i}) = k
    BY <1>1, <1>3, KthIndex
  <2> QED BY <2>1
<1>5. Cardinality(starts) \in Nat
  <2> HIDE DEF starts, n
  <2>1. IsFiniteSet(1..n)
    BY <1>1, FS_Interval
  <2> QED BY <1>3, <2>1, FS_Subset, FS_CardinalityType
<1>6. [k \in 1..Cardinality(starts) |-> partAt(nth(k))] \in Seq(PartsOf(L))
  <2>1. \A k \in 1..Cardinality(starts) : partAt(nth(k)) \in PartsOf(L)
    <3> HIDE DEF starts, partAt, nth
    <3> QED BY <1>3, <1>4
  <2> HIDE DEF starts, partAt, nth
  <2> QED BY <1>5, <2>1
<1> QED BY <1>6, Zenon DEF SplitText

\* Where a piece ends: not before it starts, within a chunk's length, and beyond
\* twice the overlap: what it repeats, and what the next piece steps back by.
LEMMA PieceEnds ==
  ASSUME NEW text \in Seq(Nat), NEW start \in Nat, start < Len(text)
  PROVE  /\ PieceEnd(text, start) \in (start + 1)..Len(text)
         /\ PieceEnd(text, start) <= start + MaxChunkSize
         /\ PieceEnd(text, start) < Len(text) =>
              /\ PieceEnd(text, start) > start + ChunkOverlap
              /\ PieceEnd(text, start) > start + 2 * ChunkOverlap
<1> DEFINE end == IF start + MaxChunkSize <= Len(text) THEN start + MaxChunkSize ELSE Len(text)
           spaces == {k \in 0..(end - start - 1) :
                        /\ 2 * k > MaxChunkSize
                        /\ text[start + k + 1] \in {Space, SentenceSpace}}
<1>1. MaxChunkSize \in Nat \ {0} /\ ChunkOverlap \in Nat /\ 4 * ChunkOverlap <= MaxChunkSize
  BY SizesAssumption
<1>2. /\ end \in (start + 1)..Len(text) /\ end <= start + MaxChunkSize
      /\ end < Len(text) => end = start + MaxChunkSize
  BY <1>1
<1>3. CASE end < Len(text) /\ spaces # {}
  <2>1. spaces \in SUBSET (0..(end - start - 1)) /\ end - start - 1 \in Nat
    BY <1>2
  <2>2. \E k \in spaces : \A l \in spaces : l <= k
    <3>1. PICK n \in Nat : n = end - start - 1
      BY <2>1
    <3> HIDE DEF spaces, end
    <3> QED BY <1>3, <2>1, <3>1, Greatest
  <2>3. PICK k \in spaces : k = CHOOSE m \in spaces : \A l \in spaces : l <= m
    BY <2>2
  <2>4. PieceEnd(text, start) = start + k
    BY <1>3, <2>3, Zenon DEF PieceEnd
  <2>5. k \in Nat /\ k <= end - start - 1 /\ 2 * k > MaxChunkSize
    BY <2>1
  <2> HIDE DEF end, spaces
  <2> QED BY <1>1, <1>2, <2>4, <2>5
<1>4. CASE ~(end < Len(text) /\ spaces # {})
  <2>1. PieceEnd(text, start) = end
    BY <1>4, Zenon DEF PieceEnd
  <2> HIDE DEF end, spaces
  <2> QED BY <1>1, <1>2, <2>1
<1> QED BY <1>3, <1>4

-----------------------------------------------------------------------------
(* The inductive invariant                                                 *)

\* The levels at which _split_oversized cuts.
Levels == {"paragraph", "sentence", "character"}

\* The letters of a group.
LettersOf(g) == UNION {Letters(g.segments[k].text) : k \in 1..Len(g.segments)}

\* Pieces still to cut, of a group with letters L.
PiecesOf(L) ==
  {p \in [level : Levels, text : PartsOf(L), start : Nat] : p.start < Len(p.text)}

\* A chunk of page and section of which every letter of d stands.
InPlace(d, content, page, section) ==
  \A b \in 1..Len(d) :
    d[b].kind # "heading" /\ Letters(d[b].text) \cap Letters(content) # {}
      => d[b].page = page /\ SectionAt(d, b) = section

\* Chunks that fit and name their place in d.
ChunksOf(d) ==
  {c \in [content : Seq(Nat), page : Nat, section : Seq(Nat), previous : Nat, next : Nat] :
     Len(c.content) <= MaxChunkSize /\ InPlace(d, c.content, c.page, c.section)}

\* What is still to cut: groups of the document, and pieces of the first of them.
WorkInv ==
  /\ doc \in Documents
  /\ groups \in Seq(GroupsFor(doc))
  /\ work # <<>> => groups # <<>>
  /\ work = <<>> \/ work \in Seq(PiecesOf(LettersOf(Head(groups))))

\* What has been cut: one chain, at whose end the next chunk is linked.
ChainInv ==
  /\ chunks \in Seq(ChunksOf(doc))
  /\ prev = Len(chunks)
  /\ \A i \in 1..Len(chunks) :
       /\ chunks[i].previous = i - 1
       /\ chunks[i].next = IF i = Len(chunks) THEN 0 ELSE i + 1

\* The inductive invariant.
ChunkerInv == WorkInv /\ ChainInv /\ done \in BOOLEAN

\* What DocumentsAssumption says, with the indices of a document spelled out; so
\* no letter belongs to two blocks.
LEMMA DocType ==
  ASSUME NEW d \in Documents
  PROVE  /\ d \in Seq(Block)
         /\ \A b \in 1..Len(d) : Letters(d[b].text) # {} /\ InOrder(d[b].text)
         /\ \A b, c \in 1..Len(d) : b < c => Before(Letters(d[b].text), Letters(d[c].text))
         /\ \A b, c \in 1..Len(d) : b # c => Letters(d[b].text) \cap Letters(d[c].text) = {}
<1>1. d \in Seq(Block) /\ DOMAIN d = 1..Len(d)
  BY DocumentsAssumption
<1>2. ASSUME NEW b \in 1..Len(d) PROVE Letters(d[b].text) \subseteq Nat
  <2>1. PICK k \in Block : k = d[b]
    BY <1>1
  <2>2. k.text \in Seq(Nat)
    BY DEF Block
  <2> QED BY <2>1, <2>2 DEF Letters, Range
<1>3. /\ \A b \in 1..Len(d) : Letters(d[b].text) # {} /\ InOrder(d[b].text)
      /\ \A b, c \in 1..Len(d) : b < c => Before(Letters(d[b].text), Letters(d[c].text))
  BY <1>1, DocumentsAssumption
<1>4. ASSUME NEW b \in 1..Len(d), NEW c \in 1..Len(d), b < c, NEW l \in Letters(d[b].text),
             l \in Letters(d[c].text)
      PROVE  FALSE
  <2>1. l \in Nat
    BY <1>2, <1>4
  <2>2. l < l
    BY <1>3, <1>4 DEF Before
  <2> QED BY <2>1, <2>2
<1>5. \A b, c \in 1..Len(d) : b # c => b < c \/ c < b
  OBVIOUS
<1>6. \A b, c \in 1..Len(d) : b # c => Letters(d[b].text) \cap Letters(d[c].text) = {}
  BY <1>4, <1>5
<1> QED BY <1>1, <1>3, <1>6

\* Every segment of a group is a block of the document, of the group's page and
\* section.
LEMMA GroupTypes ==
  ASSUME NEW d \in Documents, NEW g \in GroupsFor(d)
  PROVE  /\ g.segments \in Seq(Block) /\ g.segments # <<>>
         /\ g.heading \in Block /\ g.heading.kind = "heading"
         /\ Head(g.segments).page \in Nat /\ g.heading.text \in Seq(Nat)
         /\ \A k \in 1..Len(g.segments) :
              \E b \in 1..Len(d) : /\ g.segments[k] = d[b]
                                   /\ d[b].kind # "heading"
                                   /\ SectionAt(d, b) = g.heading.text
                                   /\ d[b].page = Head(g.segments).page
<1>1. /\ g.segments \in Seq(Block) /\ g.heading \in Block /\ g.heading.kind = "heading"
      /\ g.segments \in ClausesOf(BodiesUnder(d, g.heading.text))
  BY DEF GroupsFor
<1>2. /\ g.segments \in Seq(BodiesUnder(d, g.heading.text)) /\ g.segments # <<>>
      /\ \A k \in 1..Len(g.segments) : g.segments[k].page = Head(g.segments).page
  BY <1>1 DEF ClausesOf
<1>3. Head(g.segments) \in Block
  BY <1>1, <1>2
<1>4. Head(g.segments).page \in Nat /\ g.heading.text \in Seq(Nat)
  BY <1>1, <1>3 DEF Block
<1>5. ASSUME NEW k \in 1..Len(g.segments)
      PROVE  \E b \in 1..Len(d) : /\ g.segments[k] = d[b]
                                  /\ d[b].kind # "heading"
                                  /\ SectionAt(d, b) = g.heading.text
                                  /\ d[b].page = Head(g.segments).page
  <2>1. g.segments[k] \in BodiesUnder(d, g.heading.text)
    BY <1>2, ElementOfSeq
  <2>2. PICK b \in 1..Len(d) : g.segments[k] = d[b] /\ d[b].kind # "heading"
                               /\ SectionAt(d, b) = g.heading.text
    BY <2>1 DEF BodiesUnder
  <2>3. d[b].page = Head(g.segments).page
    BY <1>2, <2>2
  <2> QED BY <2>2, <2>3
<1> QED BY <1>1, <1>2, <1>4, <1>5

\* A text of a group's letters stands where the group does, because no letter
\* belongs to two blocks.
LEMMA GroupInPlace ==
  ASSUME NEW d \in Documents, NEW g \in GroupsFor(d), NEW content \in TextsOf(LettersOf(g))
  PROVE  InPlace(d, content, Head(g.segments).page, g.heading.text)
<1> SUFFICES ASSUME NEW b \in 1..Len(d), NEW c, c \in Letters(d[b].text), c \in Letters(content)
             PROVE  d[b].page = Head(g.segments).page /\ SectionAt(d, b) = g.heading.text
  BY DEF InPlace
<1>1. PICK k \in 1..Len(g.segments) : c \in Letters(g.segments[k].text)
  BY DEF TextsOf, LettersOf
<1>2. PICK a \in 1..Len(d) : /\ g.segments[k] = d[a]
                             /\ SectionAt(d, a) = g.heading.text
                             /\ d[a].page = Head(g.segments).page
  BY GroupTypes
<1>3. a = b
  <2>1. c \in Letters(d[a].text) \cap Letters(d[b].text)
    BY <1>1, <1>2
  <2> QED BY <2>1, DocType
<1> QED BY <1>2, <1>3

\* The text of a group has its letters.
LEMMA GroupText ==
  ASSUME NEW d \in Documents, NEW g \in GroupsFor(d)
  PROVE  JoinTexts(g.segments) \in TextsOf(LettersOf(g))
<1>1. g.segments \in Seq(Block)
  BY GroupTypes
<1>2. \A k \in 1..Len(g.segments) :
        g.segments[k] \in {b \in Block : Letters(b.text) \subseteq LettersOf(g)}
  BY <1>1 DEF LettersOf
<1>3. g.segments \in Seq({b \in Block : Letters(b.text) \subseteq LettersOf(g)})
  BY <1>1, <1>2
<1> QED BY <1>3, JoinType

\* Pieces are made of texts that are not empty.
LEMMA PiecesType ==
  ASSUME NEW L, NEW level \in Levels, NEW texts \in Seq(PartsOf(L))
  PROVE  Pieces(level, texts) \in Seq(PiecesOf(L))
<1>1. ASSUME NEW i \in 1..Len(texts) PROVE Piece(level, texts[i]) \in PiecesOf(L)
  <2>1. texts[i] \in PartsOf(L)
    OBVIOUS
  <2>2. Len(texts[i]) \in Nat \ {0}
    BY <2>1 DEF PartsOf, TextsOf
  <2> QED BY <2>1, <2>2 DEF Piece, PiecesOf
<1>2. [i \in 1..Len(texts) |-> Piece(level, texts[i])] \in Seq(PiecesOf(L))
  BY <1>1
<1> QED BY <1>2 DEF Pieces

\* A chunk of the current group that fits continues the chain.
LEMMA EmitChain ==
  ASSUME WorkInv, ChainInv, groups # <<>>, UNCHANGED doc,
         NEW content \in TextsOf(LettersOf(Head(groups))), Len(content) <= MaxChunkSize,
         Emit(Head(groups), content)
  PROVE  ChainInv'
<1> DEFINE g == Head(groups)
           n == Len(chunks)
           linked == IF prev = 0 THEN chunks ELSE [chunks EXCEPT ![prev].next = n + 1]
           new == [content |-> content, page |-> Head(g.segments).page,
                   section |-> g.heading.text, previous |-> prev, next |-> 0]
<1>1. g \in GroupsFor(doc) /\ doc \in Documents
  BY DEF WorkInv
<1>2. chunks \in Seq(ChunksOf(doc)) /\ n \in Nat /\ prev = n
  BY DEF ChainInv
<1>3. new \in ChunksOf(doc)
  <2>1. InPlace(doc, content, Head(g.segments).page, g.heading.text)
    BY <1>1, GroupInPlace
  <2>2. Head(g.segments).page \in Nat /\ g.heading.text \in Seq(Nat)
    BY <1>1, GroupTypes
  <2>3. content \in Seq(Nat)
    BY DEF TextsOf
  <2> HIDE DEF g
  <2> QED BY <1>2, <2>1, <2>2, <2>3 DEF ChunksOf
<1>4. /\ linked \in Seq(ChunksOf(doc)) /\ Len(linked) = n
      /\ \A i \in 1..n : linked[i].previous = i - 1 /\ linked[i].next = i + 1
  <2>1. CASE n = 0
    BY <1>2, <2>1
  <2>2. CASE n # 0
    <3>1. PICK last \in ChunksOf(doc) : last = chunks[n] /\ n \in 1..n
      BY <1>2, <2>2
    <3>2. [last EXCEPT !.next = n + 1] \in ChunksOf(doc)
      <4>1. PICK c : c = [last EXCEPT !.next = n + 1]
        OBVIOUS
      <4>2. /\ last \in [content : Seq(Nat), page : Nat, section : Seq(Nat), previous : Nat, next : Nat]
            /\ Len(last.content) <= MaxChunkSize
            /\ InPlace(doc, last.content, last.page, last.section)
        BY DEF ChunksOf
      <4>3. n + 1 \in Nat
        BY <1>2
      <4> HIDE DEF n
      <4>4. /\ c \in [content : Seq(Nat), page : Nat, section : Seq(Nat), previous : Nat, next : Nat]
            /\ c.content = last.content /\ c.page = last.page /\ c.section = last.section
        BY <4>1, <4>2, <4>3
      <4> QED BY <4>1, <4>2, <4>4 DEF ChunksOf
    <3>3. linked = [chunks EXCEPT ![n] = [last EXCEPT !.next = n + 1]]
      BY <1>2, <2>2, <3>1
    <3>4. linked \in Seq(ChunksOf(doc)) /\ Len(linked) = n
          /\ \A j \in 1..n : linked[j] = IF j = n THEN [last EXCEPT !.next = n + 1] ELSE chunks[j]
      BY <1>2, <3>1, <3>2, <3>3, ExceptSeq
    <3>5. last.previous = n - 1
      BY <3>1 DEF ChainInv
    <3>6. [last EXCEPT !.next = n + 1].previous = n - 1 /\ [last EXCEPT !.next = n + 1].next = n + 1
      BY <3>1, <3>5 DEF ChunksOf
    <3>7. \A i \in 1..n : i # n => chunks[i].previous = i - 1 /\ chunks[i].next = i + 1
      BY DEF ChainInv
    <3> HIDE DEF linked
    <3> QED BY <3>4, <3>6, <3>7
  <2> QED BY <2>1, <2>2
<1>5. chunks' = Append(linked, new) /\ prev' = n + 1
  BY DEF Emit
<1> HIDE DEF linked, new, n
<1>6. /\ chunks' \in Seq(ChunksOf(doc)) /\ Len(chunks') = n + 1
      /\ \A i \in 1..n : chunks'[i] = linked[i]
      /\ chunks'[n + 1] = new
  BY <1>3, <1>4, <1>5, AppendProperties
<1>7. new.previous = n /\ new.next = 0
  BY <1>2 DEF new
<1>8. \A i \in 1..(n + 1) :
        /\ chunks'[i].previous = i - 1
        /\ chunks'[i].next = IF i = n + 1 THEN 0 ELSE i + 1
  <2>1. \A i \in 1..(n + 1) : i \in 1..n \/ i = n + 1
    BY <1>2
  <2> QED BY <1>2, <1>4, <1>6, <1>7, <2>1
<1>9. ChunksOf(doc') = ChunksOf(doc)
  OBVIOUS
<1> QED BY <1>5, <1>6, <1>8, <1>9 DEF ChainInv

-----------------------------------------------------------------------------
(* Its preservation                                                        *)

\* Paragraphs and sentences, merged, have the letters of what they were cut from.
LEMMA PartsType ==
  ASSUME NEW L, NEW text \in TextsOf(L)
  PROVE  /\ MergeSmallParts(Paragraphs(text)) \in Seq(PartsOf(L))
         /\ MergeSmallParts(Sentences(text)) \in Seq(PartsOf(L))
  BY SplitType, MergeType DEF Paragraphs, Sentences

\* What Rest leaves to cut.
LEMMA RestWork ==
  ASSUME WorkInv, groups # <<>>, UNCHANGED doc,
         NEW pieces \in Seq(PiecesOf(LettersOf(Head(groups)))), Rest(pieces)
  PROVE  WorkInv'
<1>1. doc' \in Documents /\ groups \in Seq(GroupsFor(doc)) /\ work' = pieces
  BY DEF WorkInv, Rest
<1>2. CASE pieces = <<>>
  <2>1. groups' \in Seq(GroupsFor(doc))
    BY <1>1, <1>2, HeadTailProperties DEF Rest
  <2> QED BY <1>1, <1>2, <2>1 DEF WorkInv
<1>3. CASE pieces # <<>>
  <2>1. groups' = groups
    BY <1>3 DEF Rest
  <2> QED BY <1>1, <2>1 DEF WorkInv
<1> QED BY <1>2, <1>3

\* The piece being cut.
LEMMA PieceType ==
  ASSUME WorkInv, work # <<>>
  PROVE  /\ groups # <<>>
         /\ work \in Seq(PiecesOf(LettersOf(Head(groups))))
         /\ Tail(work) \in Seq(PiecesOf(LettersOf(Head(groups))))
         /\ Head(work) = work[1] /\ 1 \in 1..Len(work)
         /\ Len(Tail(work)) = Len(work) - 1 /\ Len(work) \in Nat
         /\ Head(work) \in PiecesOf(LettersOf(Head(groups)))
         /\ Head(work).level \in Levels
         /\ Head(work).text \in PartsOf(LettersOf(Head(groups)))
         /\ Head(work).text \in TextsOf(LettersOf(Head(groups)))
         /\ Head(work).text \in Seq(Nat)
         /\ Len(Head(work).text) \in Nat
         /\ Head(work).start \in Nat /\ Head(work).start < Len(Head(work).text)
<1>1. groups # <<>> /\ work \in Seq(PiecesOf(LettersOf(Head(groups))))
  BY DEF WorkInv
<1>2. /\ Tail(work) \in Seq(PiecesOf(LettersOf(Head(groups))))
      /\ Head(work) \in PiecesOf(LettersOf(Head(groups)))
      /\ Len(Tail(work)) = Len(work) - 1 /\ Len(work) \in Nat
      /\ Head(work) = work[1] /\ 1 \in 1..Len(work)
  BY <1>1, HeadTailProperties
<1>3. /\ Head(work).level \in Levels
      /\ Head(work).text \in PartsOf(LettersOf(Head(groups)))
      /\ Head(work).start \in Nat /\ Head(work).start < Len(Head(work).text)
  BY <1>2 DEF PiecesOf
<1> QED BY <1>1, <1>2, <1>3 DEF PartsOf, TextsOf

\* Every action preserves the invariant.
LEMMA CutGroupStep ==
  ASSUME ChunkerInv, CutGroup
  PROVE  ChunkerInv'
<1> DEFINE g == Head(groups)
           text == JoinTexts(g.segments)
<1>1. /\ work = <<>> /\ groups # <<>> /\ UNCHANGED <<doc, done>>
      /\ doc \in Documents /\ groups \in Seq(GroupsFor(doc))
      /\ WorkInv /\ ChainInv
  BY DEF CutGroup, ChunkerInv, WorkInv
<1>2. g \in GroupsFor(doc) /\ Tail(groups) \in Seq(GroupsFor(doc))
  BY <1>1
<1>3. text \in TextsOf(LettersOf(g))
  BY <1>1, <1>2, GroupText
<1>4. CASE Len(text) <= MaxChunkSize
  <2>1. Emit(g, text) /\ groups' = Tail(groups) /\ work' = work
    BY <1>3, <1>4, SizesAssumption DEF CutGroup, TextsOf
  <2>2. ChainInv'
    <3> HIDE DEF text
    <3> QED BY <1>1, <1>3, <1>4, <2>1, EmitChain
  <2>3. WorkInv'
    BY <1>1, <1>2, <2>1 DEF WorkInv
  <2> QED BY <1>1, <2>2, <2>3 DEF ChunkerInv
<1>5. CASE ~(Len(text) <= MaxChunkSize)
  <2>1. /\ work' = Pieces("paragraph", MergeSmallParts(Paragraphs(text)))
        /\ UNCHANGED <<groups, chunks, prev>>
    BY <1>5 DEF CutGroup
  <2>2. work' \in Seq(PiecesOf(LettersOf(g)))
    BY <1>3, <2>1, PartsType, PiecesType DEF Levels
  <2>3. WorkInv'
    BY <1>1, <2>1, <2>2 DEF WorkInv
  <2> QED BY <1>1, <2>1, <2>3 DEF ChunkerInv, ChainInv
<1> QED BY <1>4, <1>5

LEMMA EmitPieceStep ==
  ASSUME ChunkerInv, EmitPiece
  PROVE  ChunkerInv'
<1>1. WorkInv /\ ChainInv /\ work # <<>> /\ UNCHANGED <<doc, done>>
  BY DEF ChunkerInv, EmitPiece, Cutting
<1>2. ChainInv'
  BY <1>1, PieceType, EmitChain DEF EmitPiece, Fits
<1>3. WorkInv'
  BY <1>1, PieceType, RestWork DEF EmitPiece
<1> QED BY <1>1, <1>2, <1>3 DEF ChunkerInv

LEMMA CutParagraphStep ==
  ASSUME ChunkerInv, CutParagraph
  PROVE  ChunkerInv'
<1>1. WorkInv /\ ChainInv /\ work # <<>> /\ UNCHANGED <<doc, done, groups, chunks, prev>>
  BY DEF ChunkerInv, CutParagraph, Cutting
<1>2. Pieces("sentence", MergeSmallParts(Sentences(Head(work).text)))
        \in Seq(PiecesOf(LettersOf(Head(groups))))
  BY <1>1, PieceType, PartsType, PiecesType DEF Levels
<1>3. work' \in Seq(PiecesOf(LettersOf(Head(groups))))
  BY <1>1, <1>2, PieceType, ConcatProperties DEF CutParagraph
<1>4. WorkInv'
  BY <1>1, <1>3 DEF WorkInv
<1> QED BY <1>1, <1>4 DEF ChunkerInv, ChainInv

LEMMA CutSentenceStep ==
  ASSUME ChunkerInv, CutSentence
  PROVE  ChunkerInv'
<1>1. WorkInv /\ ChainInv /\ work # <<>> /\ UNCHANGED <<doc, done, groups, chunks, prev>>
  BY DEF ChunkerInv, CutSentence, Cutting
<1>2. PICK p : p = [work[1] EXCEPT !.level = "character"]
  OBVIOUS
<1>3. p \in PiecesOf(LettersOf(Head(groups)))
  BY <1>1, <1>2, PieceType DEF PiecesOf, Levels
<1>4. work' = [work EXCEPT ![1] = p]
  BY <1>2 DEF CutSentence
<1>5. work' \in Seq(PiecesOf(LettersOf(Head(groups))))
  BY <1>1, <1>3, <1>4, PieceType, ExceptSeq
<1>6. WorkInv'
  BY <1>1, <1>5 DEF WorkInv
<1> QED BY <1>1, <1>6 DEF ChunkerInv, ChainInv

LEMMA CutCharactersStep ==
  ASSUME ChunkerInv, CutCharacters
  PROVE  ChunkerInv'
<1> DEFINE text == Head(work).text
           start == Head(work).start
           end == PieceEnd(text, start)
           content == Strip(SubSeq(text, start + 1, end))
           rest == IF end < Len(text)
                   THEN [work EXCEPT ![1].start = end - ChunkOverlap]
                   ELSE Tail(work)
           L == LettersOf(Head(groups))
<1>1. WorkInv /\ ChainInv /\ work # <<>> /\ UNCHANGED <<doc, done>>
  BY DEF ChunkerInv, CutCharacters, Cutting
<1>2. Emit(Head(groups), content) /\ Rest(rest)
  BY DEF CutCharacters
<1>3. /\ end \in (start + 1)..Len(text) /\ end <= start + MaxChunkSize
      /\ end < Len(text) => end > start + ChunkOverlap
      /\ start \in Nat /\ Len(text) \in Nat /\ end \in Nat
  <2>1. text \in Seq(Nat) /\ start \in Nat /\ Len(text) \in Nat /\ start < Len(text)
    BY <1>1, PieceType
  <2> HIDE DEF text, start
  <2> QED BY <2>1, PieceEnds
<1>4. content \in TextsOf(L) /\ Len(content) <= MaxChunkSize
  <2>1. text \in TextsOf(L)
    BY <1>1, PieceType
  <2> HIDE DEF text, start, end, L
  <2>2. /\ SubSeq(text, start + 1, end) \in TextsOf(L)
        /\ Len(SubSeq(text, start + 1, end)) = end - start
    BY <1>3, <2>1, SubText
  <2>3. content \in TextsOf(L) /\ Len(content) <= end - start
    BY <2>2, StripType
  <2>4. Len(content) \in Nat
    BY <2>3 DEF TextsOf
  <2> HIDE DEF content
  <2> QED BY <1>3, <2>3, <2>4, SizesAssumption
<1>5. rest \in Seq(PiecesOf(L))
  <2>1. CASE end < Len(text)
    <3>1. PICK p : p = [work[1] EXCEPT !.start = end - ChunkOverlap]
      OBVIOUS
    <3>2. end - ChunkOverlap \in Nat /\ end - ChunkOverlap < Len(text)
      <4> HIDE DEF end, text, start
      <4> QED BY <1>3, <2>1, SizesAssumption
    <3>3. p \in PiecesOf(L)
      <4> HIDE DEF end
      <4> QED BY <1>1, <3>1, <3>2, PieceType DEF PiecesOf
    <3>4. rest = [work EXCEPT ![1] = p]
      BY <2>1, <3>1
    <3>5. work \in Seq(PiecesOf(L)) /\ 1 \in 1..Len(work)
      BY <1>1, PieceType
    <3> HIDE DEF rest, L
    <3> QED BY <3>3, <3>4, <3>5, ExceptSeq
  <2>2. CASE ~(end < Len(text))
    BY <1>1, <2>2, PieceType
  <2> QED BY <2>1, <2>2
<1>6. ChainInv'
  <2>1. groups # <<>>
    BY <1>1, PieceType
  <2> HIDE DEF content
  <2> QED BY <1>1, <1>2, <1>4, <2>1, EmitChain
<1>7. WorkInv'
  <2>1. groups # <<>>
    BY <1>1, PieceType
  <2> HIDE DEF rest
  <2> QED BY <1>1, <1>2, <1>5, <2>1, RestWork
<1> QED BY <1>1, <1>6, <1>7 DEF ChunkerInv

\* _assign_ids_and_metadata finds every link filled.
LEMMA AssignLinks ==
  ASSUME ChunkerInv, Assign
  PROVE  chunks' = chunks
<1>1. ChainInv
  BY DEF ChunkerInv
<1>2. chunks \in Seq(ChunksOf(doc)) /\ Len(chunks) \in Nat /\ DOMAIN chunks = 1..Len(chunks)
  BY <1>1 DEF ChainInv
<1>3. ASSUME NEW i \in 1..Len(chunks)
      PROVE  [chunks[i] EXCEPT !.previous = IF i > 1 /\ @ = 0 THEN i - 1 ELSE @,
                               !.next = IF i < Len(chunks) /\ @ = 0 THEN i + 1 ELSE @] = chunks[i]
  <2>1. chunks[i].previous = i - 1 /\ chunks[i].next = IF i = Len(chunks) THEN 0 ELSE i + 1
    BY <1>1 DEF ChainInv
  <2>2. PICK c : c = chunks[i]
    OBVIOUS
  <2>3. c \in [content : Seq(Nat), page : Nat, section : Seq(Nat), previous : Nat, next : Nat]
    BY <1>2, <2>2 DEF ChunksOf
  <2>4. c.previous = i - 1 /\ c.next = IF i = Len(chunks) THEN 0 ELSE i + 1
    BY <2>1, <2>2
  <2>5. ASSUME i < Len(chunks) PROVE c.next # 0
    <3>1. PICK n \in Nat : n = Len(chunks)
      BY <1>2
    <3>2. i \in 1..n /\ i < n
      BY <2>5, <3>1
    <3>3. i # Len(chunks) /\ i + 1 # 0
      BY <3>1, <3>2
    <3> QED BY <2>4, <3>3
  <2>6. c = [c EXCEPT !.previous = IF i > 1 /\ @ = 0 THEN i - 1 ELSE @,
                      !.next = IF i < Len(chunks) /\ @ = 0 THEN i + 1 ELSE @]
    BY <2>3, <2>4, <2>5
  <2> QED BY <2>2, <2>6
<1>4. chunks' = [i \in 1..Len(chunks) |-> chunks[i]]
  BY <1>2, <1>3 DEF Assign
<1> QED BY <1>2, <1>4

LEMMA AssignStep ==
  ASSUME ChunkerInv, Assign
  PROVE  ChunkerInv'
<1>1. chunks' = chunks
  BY AssignLinks
<1>2. ChainInv /\ WorkInv /\ UNCHANGED <<doc, groups, work, prev>> /\ done' = TRUE
  BY DEF ChunkerInv, Assign
<1> QED BY <1>1, <1>2 DEF ChunkerInv, WorkInv, ChainInv

\* So does every step, and it holds at the beginning.
LEMMA ChunkerStep ==
  ASSUME ChunkerInv, [Next]_vars
  PROVE  ChunkerInv'
<1>1. CASE UNCHANGED vars
  BY <1>1 DEF vars, ChunkerInv, WorkInv, ChainInv
<1> QED BY <1>1, CutGroupStep, EmitPieceStep, CutParagraphStep, CutSentenceStep,
           CutCharactersStep, AssignStep DEF Next, Finished

LEMMA ChunkerInit == Init => ChunkerInv
<1> SUFFICES ASSUME Init PROVE ChunkerInv
  OBVIOUS
<1>1. doc \in Documents /\ groups \in Seq(GroupsFor(doc)) /\ work = <<>>
  BY DocType, GroupsType DEF Init
<1>2. chunks = <<>> /\ prev = 0 /\ done = FALSE
  BY DEF Init
<1>3. WorkInv
  BY <1>1 DEF WorkInv
<1>4. ChainInv
  <2>1. <<>> \in Seq(ChunksOf(doc)) /\ Len(<<>>) = 0
    OBVIOUS
  <2>2. \A i \in 1..Len(chunks) : FALSE
    BY <1>2, <2>1
  <2> QED BY <1>2, <2>1, <2>2 DEF ChainInv
<1> QED BY <1>2, <1>3, <1>4 DEF ChunkerInv

\* It holds throughout.
LEMMA ChunkerHolds == Spec => []ChunkerInv
  BY ChunkerInit, ChunkerStep, PTL DEF Spec

-----------------------------------------------------------------------------
(* Text in order                                                           *)

\* The letters of a text are those at its indices.
LEMMA LettersAt ==
  ASSUME NEW t \in Seq(Nat)
  PROVE  /\ \A i \in 1..Len(t) : IsLetter(t[i]) => t[i] \in Letters(t)
         /\ \A c \in Letters(t) : IsLetter(c) /\ c \in Nat /\ \E i \in 1..Len(t) : t[i] = c
  BY DEF Letters, Range

\* Texts one behind the other: each has letters, in order, and all of them stand
\* before those of the next.
InTurn(ts) ==
  /\ \A k \in 1..Len(ts) : InOrder(ts[k]) /\ Letters(ts[k]) # {}
  /\ \A j, k \in 1..Len(ts) : j < k => Before(Letters(ts[j]), Letters(ts[k]))

\* The letters of the first n texts.
LettersUpTo(ts, n) == UNION {Letters(ts[k]) : k \in 1..n}
AllLetters(ts) == LettersUpTo(ts, Len(ts))

\* Two texts in turn, with a separator, are a text in order.
LEMMA BreakKeeps ==
  ASSUME NEW s \in Seq(Nat), NEW t \in Seq(Nat), InOrder(s), InOrder(t),
         Before(Letters(s), Letters(t))
  PROVE  /\ s \o Break \o t \in Seq(Nat)
         /\ InOrder(s \o Break \o t)
         /\ Letters(s \o Break \o t) = Letters(s) \cup Letters(t)
         /\ Len(s \o Break \o t) = Len(s) + 2 + Len(t)
<1> DEFINE u == s \o Break \o t
<1>1. Break \in Seq(Nat) /\ Len(Break) = 2 /\ \A i \in 1..2 : ~IsLetter(Break[i])
  BY DEF Break, NewLine, IsLetter
<1>2. PICK v \in Seq(Nat) : /\ v = s \o Break
                            /\ Len(v) = Len(s) + 2
                            /\ \A i \in 1..Len(v) : v[i] = IF i <= Len(s) THEN s[i] ELSE Break[i - Len(s)]
  <2>1. /\ s \o Break \in Seq(Nat) /\ Len(s \o Break) = Len(s) + Len(Break)
        /\ \A i \in 1..Len(s) + Len(Break) :
             (s \o Break)[i] = IF i <= Len(s) THEN s[i] ELSE Break[i - Len(s)]
    BY <1>1, ConcatProperties
  <2> QED BY <1>1, <2>1
<1>3. /\ u \in Seq(Nat) /\ Len(u) = Len(s) + 2 + Len(t)
      /\ \A i \in 1..Len(u) : u[i] = IF i <= Len(v) THEN v[i] ELSE t[i - Len(v)]
  <2>1. /\ v \o t \in Seq(Nat) /\ Len(v \o t) = Len(v) + Len(t)
        /\ \A i \in 1..Len(v) + Len(t) :
             (v \o t)[i] = IF i <= Len(v) THEN v[i] ELSE t[i - Len(v)]
    BY ConcatProperties
  <2> QED BY <1>2, <2>1
<1> HIDE DEF u
<1>4. /\ \A i \in 1..Len(s) : i \in 1..Len(u) /\ u[i] = s[i]
      /\ \A i \in 1..Len(t) : Len(s) + 2 + i \in 1..Len(u) /\ u[Len(s) + 2 + i] = t[i]
  <2>0. Len(s) \in Nat /\ Len(t) \in Nat
    OBVIOUS
  <2>1. ASSUME NEW i \in 1..Len(s) PROVE i \in 1..Len(u) /\ u[i] = s[i]
    <3>1. i \in 1..Len(v) /\ i \in 1..Len(u) /\ i <= Len(v) /\ i <= Len(s)
      BY <1>2, <1>3, <2>0
    <3>2. u[i] = v[i]
      BY <1>3, <3>1
    <3>3. v[i] = s[i]
      BY <1>2, <3>1
    <3> QED BY <3>1, <3>2, <3>3
  <2>2. ASSUME NEW i \in 1..Len(t) PROVE Len(s) + 2 + i \in 1..Len(u) /\ u[Len(s) + 2 + i] = t[i]
    <3>1. PICK k : k = Len(s) + 2 + i /\ k \in 1..Len(u) /\ ~(k <= Len(v)) /\ k - Len(v) = i
      <4>1. PICK a \in Nat, b \in Nat : a = Len(s) /\ b = Len(t) /\ i \in 1..b
        BY <2>0
      <4>2. Len(v) = a + 2 /\ Len(u) = a + 2 + b
        BY <1>2, <1>3, <4>1
      <4>3. a + 2 + i \in 1..(a + 2 + b) /\ ~(a + 2 + i <= a + 2) /\ a + 2 + i - (a + 2) = i
        BY <4>1
      <4> QED BY <4>1, <4>2, <4>3
    <3>2. u[k] = t[k - Len(v)]
      BY <1>3, <3>1
    <3> QED BY <3>1, <3>2
  <2> QED BY <2>1, <2>2
<1>5. ASSUME NEW i \in 1..Len(u), IsLetter(u[i])
      PROVE  \/ i \in 1..Len(s) /\ u[i] = s[i]
             \/ i - Len(s) - 2 \in 1..Len(t) /\ u[i] = t[i - Len(s) - 2]
  <2>0. Len(s) \in Nat /\ Len(t) \in Nat /\ i \in Nat
    OBVIOUS
  <2>1. CASE i <= Len(s)
    <3>1. i \in 1..Len(s)
      BY <2>0, <2>1
    <3> QED BY <1>4, <3>1
  <2>2. CASE Len(s) < i /\ i <= Len(s) + 2
    <3>1. i <= Len(v) /\ i \in 1..Len(v) /\ ~(i <= Len(s)) /\ i - Len(s) \in 1..2
      <4>1. Len(v) = Len(s) + 2
        BY <1>2
      <4>2. 0 < i
        OBVIOUS
      <4> QED BY <2>0, <2>2, <4>1, <4>2
    <3>2. u[i] = v[i]
      BY <1>3, <3>1
    <3>3. v[i] = Break[i - Len(s)]
      BY <1>2, <3>1
    <3> QED BY <1>1, <1>5, <3>1, <3>2, <3>3
  <2>3. CASE Len(s) + 2 < i
    <3>1. PICK k : k = i - Len(s) - 2 /\ k \in 1..Len(t) /\ i = Len(s) + 2 + k
      <4>1. PICK a \in Nat, b \in Nat : a = Len(s) /\ b = Len(t) /\ Len(u) = a + 2 + b
        BY <1>3, <2>0
      <4>2. i <= a + 2 + b /\ a + 2 < i
        BY <2>0, <2>3, <4>1
      <4>3. i - a - 2 \in 1..b /\ i = a + 2 + (i - a - 2)
        BY <2>0, <4>1, <4>2
      <4> QED BY <4>1, <4>3
    <3>2. u[Len(s) + 2 + k] = t[k]
      BY <1>4, <3>1
    <3> QED BY <3>1, <3>2
  <2> QED BY <2>0, <2>1, <2>2, <2>3
<1>6. Letters(u) = Letters(s) \cup Letters(t)
  <2>1. ASSUME NEW c \in Letters(u) PROVE c \in Letters(s) \cup Letters(t)
    <3>0. u \in Seq(Nat)
      BY <1>3
    <3>1. PICK i \in 1..Len(u) : u[i] = c /\ IsLetter(u[i])
      BY <3>0, LettersAt
    <3> QED BY <1>5, <3>1, LettersAt
  <2>2. ASSUME NEW c \in Letters(s) \cup Letters(t) PROVE c \in Letters(u)
    <3>1. \E i \in 1..Len(u) : u[i] = c /\ IsLetter(u[i])
      <4>1. CASE c \in Letters(s)
        <5>1. PICK i \in 1..Len(s) : s[i] = c /\ IsLetter(c)
          BY <4>1, LettersAt
        <5> QED BY <1>4, <5>1
      <4>2. CASE c \in Letters(t)
        <5>1. PICK i \in 1..Len(t) : t[i] = c /\ IsLetter(c)
          BY <4>2, LettersAt
        <5> QED BY <1>4, <5>1
      <4> QED BY <4>1, <4>2
    <3> QED BY <1>3, <3>1, LettersAt
  <2> QED BY <2>1, <2>2
<1>7. InOrder(u)
  <2> SUFFICES ASSUME NEW i \in 1..Len(u), NEW j \in 1..Len(u), i < j,
                      IsLetter(u[i]), IsLetter(u[j])
               PROVE  u[i] < u[j]
    BY <1>3 DEF InOrder
  <2>1. CASE i \in 1..Len(s) /\ u[i] = s[i] /\ j \in 1..Len(s) /\ u[j] = s[j]
    BY <2>1 DEF InOrder
  <2>2. CASE /\ i \in 1..Len(s) /\ u[i] = s[i]
             /\ j - Len(s) - 2 \in 1..Len(t) /\ u[j] = t[j - Len(s) - 2]
    <3>1. u[i] \in Letters(s) /\ u[j] \in Letters(t)
      BY <2>2, LettersAt
    <3> QED BY <3>1 DEF Before
  <2>3. CASE /\ i - Len(s) - 2 \in 1..Len(t) /\ u[i] = t[i - Len(s) - 2]
             /\ j - Len(s) - 2 \in 1..Len(t) /\ u[j] = t[j - Len(s) - 2]
    <3>1. PICK k, l : /\ k = i - Len(s) - 2 /\ l = j - Len(s) - 2
                      /\ k \in 1..Len(t) /\ l \in 1..Len(t) /\ u[i] = t[k] /\ u[j] = t[l]
      BY <2>3
    <3>2. k < l
      <4>1. Len(s) \in Nat /\ i \in Nat /\ j \in Nat
        OBVIOUS
      <4> QED BY <3>1, <4>1
    <3> QED BY <3>1, <3>2 DEF InOrder
  <2> QED BY <1>5, <2>1, <2>2, <2>3
<1> QED BY <1>3, <1>6, <1>7 DEF u

\* A part of a text in order is in order, with the letters there.
LEMMA SubKeeps ==
  ASSUME NEW t \in Seq(Nat), NEW m \in Nat, NEW n \in Nat, 1 <= m, n <= Len(t)
  PROVE  /\ SubSeq(t, m, n) \in Seq(Nat)
         /\ Len(SubSeq(t, m, n)) = IF m <= n THEN n - m + 1 ELSE 0
         /\ \A i \in 1..(n - m + 1) : SubSeq(t, m, n)[i] = t[m + i - 1]
         /\ Letters(SubSeq(t, m, n)) = {t[i] : i \in {k \in m..n : IsLetter(t[k])}}
         /\ InOrder(t) => InOrder(SubSeq(t, m, n))
<1> DEFINE part == SubSeq(t, m, n)
<1>1. /\ part \in Seq(Nat)
      /\ Len(part) = IF m <= n THEN n - m + 1 ELSE 0
      /\ \A i \in 1..(n - m + 1) : part[i] = t[m + i - 1]
  <2>1. m \in Int /\ n \in Int /\ \A i \in m..n : t[i] \in Nat
    OBVIOUS
  <2> QED BY <2>1, SubSeqProperties
<1> HIDE DEF part
<1>2. \A i \in 1..Len(part) : m + i - 1 \in m..n /\ i \in 1..(n - m + 1) /\ m + i - 1 \in 1..Len(t)
  <2>1. PICK l \in Nat, z \in Nat : l = Len(part) /\ z = Len(t) /\ n <= z /\ (m <= n => l = n - m + 1)
                                    /\ (~(m <= n) => l = 0)
    BY <1>1
  <2>2. \A i \in 1..l : m + i - 1 \in m..n /\ i \in 1..(n - m + 1) /\ m + i - 1 \in 1..z
    BY <2>1
  <2> QED BY <2>1, <2>2
<1>3. ASSUME NEW i \in m..n PROVE i - m + 1 \in 1..Len(part) /\ part[i - m + 1] = t[i]
  <2>1. m <= n /\ i - m + 1 \in 1..(n - m + 1) /\ m + (i - m + 1) - 1 = i
    OBVIOUS
  <2> QED BY <1>1, <2>1
<1>4. Letters(part) = {t[i] : i \in {k \in m..n : IsLetter(t[k])}}
  <2>1. ASSUME NEW c \in Letters(part) PROVE \E i \in m..n : IsLetter(t[i]) /\ c = t[i]
    <3>0. part \in Seq(Nat)
      BY <1>1
    <3>1. PICK i \in 1..Len(part) : part[i] = c /\ IsLetter(c)
      BY <3>0, LettersAt
    <3> QED BY <1>1, <1>2, <3>1
  <2>2. ASSUME NEW i \in m..n, IsLetter(t[i]) PROVE t[i] \in Letters(part)
    BY <1>1, <1>3, <2>2, LettersAt
  <2> QED BY <2>1, <2>2
<1>5. InOrder(t) => InOrder(part)
  <2> SUFFICES ASSUME InOrder(t), NEW i \in 1..Len(part), NEW j \in 1..Len(part), i < j,
                      IsLetter(part[i]), IsLetter(part[j])
               PROVE  part[i] < part[j]
    BY <1>1 DEF InOrder
  <2>1. part[i] = t[m + i - 1] /\ part[j] = t[m + j - 1] /\ m + i - 1 < m + j - 1
    BY <1>1, <1>2
  <2>2. m + i - 1 \in 1..Len(t) /\ m + j - 1 \in 1..Len(t)
    BY <1>2
  <2>3. PICK k, l : /\ k = m + i - 1 /\ l = m + j - 1 /\ k < l
                    /\ k \in DOMAIN t /\ l \in DOMAIN t /\ part[i] = t[k] /\ part[j] = t[l]
    <3>1. m + i - 1 \in DOMAIN t /\ m + j - 1 \in DOMAIN t
      BY <2>2
    <3> QED BY <2>1, <3>1
  <2> QED BY <2>3 DEF InOrder
<1> QED BY <1>1, <1>4, <1>5 DEF part

\* Stripping leaves the letters, in order, and moves none behind.
LEMMA StripKeeps ==
  ASSUME NEW t \in Seq(Nat)
  PROVE  /\ Letters(Strip(t)) = Letters(t)
         /\ InOrder(t) => InOrder(Strip(t))
         /\ Strip(t) = <<>> <=> Letters(t) = {}
         /\ \A k \in Nat, i \in 1..Len(t) : i <= k /\ IsLetter(t[i])
              => t[i] \in Range(SubSeq(Strip(t), 1, k))
<1> DEFINE kept == {i \in DOMAIN t : IsLetter(t[i])}
<1>1. CASE kept = {}
  <2>1. Letters(t) = {}
    BY <1>1, LettersAt
  <2>2. Strip(t) = <<>>
    BY <1>1 DEF Strip
  <2>3. Letters(<<>>) = {} /\ InOrder(<<>>)
    BY DEF Letters, Range, InOrder
  <2>4. \A i \in 1..Len(t) : ~IsLetter(t[i])
    BY <1>1
  <2> QED BY <2>1, <2>2, <2>3, <2>4
<1>2. CASE kept # {}
  <2>1. kept \in SUBSET Nat /\ kept \in SUBSET (0..Len(t)) /\ kept \in SUBSET (1..Len(t))
    OBVIOUS
  <2>2. \E i \in kept : \A j \in kept : i <= j
    <3> HIDE DEF kept
    <3> QED BY <1>2, <2>1, LeastNatural
  <2>3. \E i \in kept : \A j \in kept : j <= i
    <3>1. Len(t) \in Nat
      OBVIOUS
    <3> HIDE DEF kept
    <3>2. Max(kept) \in kept /\ \A y \in kept : y <= Max(kept)
      BY <1>2, <2>1, <3>1, Greatest
    <3> QED BY <3>2
  <2>4. PICK a \in kept : a = (CHOOSE k \in kept : \A j \in kept : k <= j) /\ \A j \in kept : a <= j
    BY <2>2
  <2>5. PICK z \in kept : z = (CHOOSE k \in kept : \A l \in kept : l <= k) /\ \A j \in kept : j <= z
    BY <2>3
  <2>6. Strip(t) = SubSeq(t, a, z)
    BY <1>2, <2>4, <2>5 DEF Strip
  <2>7. a \in Nat /\ z \in Nat /\ 1 <= a /\ z <= Len(t) /\ a <= z /\ \A i \in kept : i \in a..z
    <3>1. a \in 1..Len(t) /\ z \in 1..Len(t) /\ a <= z /\ Len(t) \in Nat
      <4>1. a \in kept /\ z \in kept /\ a <= z
        BY <2>4, <2>5
      <4> HIDE DEF kept
      <4> QED BY <2>1, <4>1
    <3>2. \A i \in kept : i \in Nat /\ a <= i /\ i <= z
      <4> HIDE DEF kept
      <4> QED BY <2>1, <2>4, <2>5
    <3> HIDE DEF kept
    <3> QED BY <3>1, <3>2
  <2> DEFINE s == SubSeq(t, a, z)
  <2>8. /\ s \in Seq(Nat) /\ Len(s) = z - a + 1
        /\ \A i \in 1..(z - a + 1) : s[i] = t[a + i - 1]
        /\ Letters(s) = {t[i] : i \in {k \in a..z : IsLetter(t[k])}}
        /\ InOrder(t) => InOrder(s)
    BY <2>7, SubKeeps
  <2> HIDE DEF s
  <2>9. Letters(s) = Letters(t)
    <3>1. ASSUME NEW c \in Letters(t) PROVE c \in Letters(s)
      <4>1. PICK i \in 1..Len(t) : t[i] = c /\ IsLetter(c)
        BY LettersAt
      <4>2. i \in kept
        BY <4>1
      <4> QED BY <2>7, <2>8, <4>1, <4>2
    <3>2. ASSUME NEW c \in Letters(s) PROVE c \in Letters(t)
      <4>1. PICK i \in a..z : t[i] = c /\ IsLetter(t[i])
        BY <2>8
      <4>2. i \in 1..Len(t)
        BY <2>7
      <4> QED BY <4>1, <4>2, LettersAt
    <3> QED BY <3>1, <3>2
  <2>10. s # <<>> /\ Letters(t) # {}
    <3>1. t[a] \in Letters(t)
      BY <2>1, LettersAt
    <3> QED BY <2>7, <2>8, <3>1
  <2>11. ASSUME NEW k \in Nat, NEW i \in 1..Len(t), i <= k, IsLetter(t[i])
         PROVE  t[i] \in Range(SubSeq(s, 1, k))
    <3>1. i \in kept
      BY <2>11
    <3>2. i \in a..z
      BY <2>7, <3>1
    <3> DEFINE m == i - a + 1
    <3>3. m \in 1..k /\ m \in 1..Len(s) /\ s[m] = t[i]
      BY <2>7, <2>8, <2>11, <3>2
    <3> HIDE DEF m
    <3>4. m \in DOMAIN SubSeq(s, 1, k) /\ SubSeq(s, 1, k)[m] = s[m]
      BY <2>8, <3>3
    <3> QED BY <3>3, <3>4, Zenon DEF Range
  <2> QED BY <2>6, <2>8, <2>9, <2>10, <2>11 DEF s
<1> QED BY <1>1, <1>2

\* The letters of one text more.
LEMMA OneMore ==
  ASSUME NEW ts, NEW i \in Nat \ {0}
  PROVE  LettersUpTo(ts, i) = LettersUpTo(ts, i - 1) \cup Letters(ts[i])
<1>1. 1..i = 1..(i - 1) \cup {i}
  OBVIOUS
<1>2. LettersUpTo(ts, i) \subseteq LettersUpTo(ts, i - 1) \cup Letters(ts[i])
  <2>1. ASSUME NEW c \in LettersUpTo(ts, i) PROVE c \in LettersUpTo(ts, i - 1) \cup Letters(ts[i])
    <3>1. PICK k \in 1..i : c \in Letters(ts[k])
      BY DEF LettersUpTo
    <3> QED BY <1>1, <3>1 DEF LettersUpTo
  <2> QED BY <2>1
<1>3. LettersUpTo(ts, i - 1) \cup Letters(ts[i]) \subseteq LettersUpTo(ts, i)
  BY <1>1 DEF LettersUpTo
<1> QED BY <1>2, <1>3

\* A text put behind those in turn.
LEMMA AppendKeeps ==
  ASSUME NEW ts \in Seq(Seq(Nat)), InTurn(ts), NEW t \in Seq(Nat), InOrder(t), Letters(t) # {},
         Before(AllLetters(ts), Letters(t))
  PROVE  InTurn(Append(ts, t)) /\ AllLetters(Append(ts, t)) = AllLetters(ts) \cup Letters(t)
<1> DEFINE us == Append(ts, t)
           n == Len(ts)
<1>1. n \in Nat /\ Len(us) = n + 1 /\ us[n + 1] = t /\ \A k \in 1..n : us[k] = ts[k]
  OBVIOUS
<1> HIDE DEF us, n
<1>2. \A k \in 1..Len(us) : k \in 1..n \/ k = n + 1
  BY <1>1
<1>3. \A k \in 1..n : Letters(ts[k]) \subseteq AllLetters(ts)
  BY DEF AllLetters, LettersUpTo, n
<1>4. ASSUME NEW j \in 1..Len(us), NEW k \in 1..Len(us), j < k PROVE Before(Letters(us[j]), Letters(us[k]))
  <2>1. j \in 1..n
    BY <1>1, <1>4
  <2>2. CASE k \in 1..n
    BY <1>1, <1>4, <2>1, <2>2 DEF InTurn, n
  <2>3. CASE k = n + 1
    BY <1>1, <1>3, <2>1, <2>3 DEF Before
  <2> QED BY <1>2, <2>2, <2>3
<1>5. \A k \in 1..Len(us) : InOrder(us[k]) /\ Letters(us[k]) # {}
  BY <1>1, <1>2 DEF InTurn, n
<1>6. AllLetters(us) = AllLetters(ts) \cup Letters(t)
  <2>1. LettersUpTo(us, n + 1) = LettersUpTo(us, n) \cup Letters(t)
    <3>1. n + 1 \in Nat \ {0} /\ n + 1 - 1 = n
      BY <1>1
    <3>2. PICK m \in Nat \ {0} : m = n + 1 /\ m - 1 = n /\ us[m] = t
      BY <1>1, <3>1
    <3>3. LettersUpTo(us, m) = LettersUpTo(us, m - 1) \cup Letters(us[m])
      BY OneMore
    <3> QED BY <3>2, <3>3
  <2>2. LettersUpTo(us, n) = LettersUpTo(ts, n)
    BY <1>1 DEF LettersUpTo
  <2> QED BY <1>1, <2>1, <2>2 DEF AllLetters, n
<1> QED BY <1>4, <1>5, <1>6 DEF InTurn, us

\* The last of some texts in turn, and those before it.
LEMMA LastInTurn ==
  ASSUME NEW ts \in Seq(Seq(Nat)), InTurn(ts), ts # <<>>
  PROVE  /\ Front(ts) \in Seq(Seq(Nat)) /\ InTurn(Front(ts))
         /\ Last(ts) \in Seq(Nat) /\ InOrder(Last(ts)) /\ Letters(Last(ts)) # {}
         /\ Before(AllLetters(Front(ts)), Letters(Last(ts)))
         /\ AllLetters(ts) = AllLetters(Front(ts)) \cup Letters(Last(ts))
<1> DEFINE n == Len(ts)
<1>1. n \in Nat /\ n # 0
  OBVIOUS
<1>2. Last(ts) = ts[n] /\ n \in 1..n
  BY <1>1 DEF Last
<1>3. PICK us \in Seq(Seq(Nat)) : us = Front(ts) /\ Len(us) = n - 1 /\ \A k \in 1..(n - 1) : us[k] = ts[k]
  <2>1. Front(ts) = SubSeq(ts, 1, n - 1)
    BY DEF Front
  <2>2. /\ SubSeq(ts, 1, n - 1) \in Seq(Seq(Nat))
        /\ Len(SubSeq(ts, 1, n - 1)) = IF 1 <= n - 1 THEN (n - 1) - 1 + 1 ELSE 0
        /\ \A k \in 1..((n - 1) - 1 + 1) : SubSeq(ts, 1, n - 1)[k] = ts[1 + k - 1]
    <3>1. 1 \in Int /\ n - 1 \in Int /\ \A i \in 1..(n - 1) : ts[i] \in Seq(Nat)
      BY <1>1
    <3> QED BY <3>1, SubSeqProperties
  <2> HIDE DEF n
  <2>3. /\ Len(SubSeq(ts, 1, n - 1)) = n - 1
        /\ \A k \in 1..(n - 1) : SubSeq(ts, 1, n - 1)[k] = ts[k]
    BY <1>1, <2>2
  <2> QED BY <2>1, <2>2, <2>3
<1>4. \A k \in 1..(n - 1) : k \in 1..n /\ k < n
  BY <1>1
<1>5. InTurn(us)
  BY <1>3, <1>4 DEF InTurn
<1>6. LettersUpTo(us, n - 1) = LettersUpTo(ts, n - 1)
  BY <1>3 DEF LettersUpTo
<1>7. Before(LettersUpTo(ts, n - 1), Letters(ts[n]))
  <2> SUFFICES ASSUME NEW c \in LettersUpTo(ts, n - 1), NEW e \in Letters(ts[n]) PROVE c < e
    BY DEF Before
  <2>1. PICK k \in 1..(n - 1) : c \in Letters(ts[k])
    BY DEF LettersUpTo
  <2> QED BY <1>2, <1>4, <2>1 DEF InTurn, Before
<1>8. AllLetters(ts) = LettersUpTo(ts, n - 1) \cup Letters(ts[n])
  <2>1. n \in Nat \ {0}
    BY <1>1
  <2> QED BY <2>1, OneMore DEF AllLetters
<1>9. ts[n] \in Seq(Nat) /\ InOrder(ts[n]) /\ Letters(ts[n]) # {}
  BY <1>2 DEF InTurn
<1> QED BY <1>2, <1>3, <1>5, <1>6, <1>7, <1>8, <1>9 DEF AllLetters

\* A step of _merge_small_parts keeps parts in turn.
LEMMA AddPartKeeps ==
  ASSUME NEW L, NEW merged \in Seq(PartsOf(L)), NEW part \in PartsOf(L),
         InTurn(merged), InOrder(part), Letters(part) # {},
         Before(AllLetters(merged), Letters(part))
  PROVE  /\ InTurn(AddPart(merged, part))
         /\ AllLetters(AddPart(merged, part)) = AllLetters(merged) \cup Letters(part)
<1>1. part \in Seq(Nat) /\ merged \in Seq(Seq(Nat))
  <2>1. PartsOf(L) \subseteq Seq(Nat)
    BY DEF PartsOf, TextsOf
  <2> QED BY <2>1, SeqMonotonic
<1>2. CASE AddPart(merged, part) = Append(merged, part)
  BY <1>1, <1>2, AppendKeeps
<1>3. CASE AddPart(merged, part) # Append(merged, part)
  <2>1. merged # <<>> /\ AddPart(merged, part) = Append(Front(merged), Last(merged) \o Break \o part)
    BY <1>3 DEF AddPart
  <2>2. /\ Front(merged) \in Seq(Seq(Nat)) /\ InTurn(Front(merged))
        /\ Last(merged) \in Seq(Nat) /\ InOrder(Last(merged)) /\ Letters(Last(merged)) # {}
        /\ Before(AllLetters(Front(merged)), Letters(Last(merged)))
        /\ AllLetters(merged) = AllLetters(Front(merged)) \cup Letters(Last(merged))
    BY <1>1, <2>1, LastInTurn
  <2>3. Before(Letters(Last(merged)), Letters(part)) /\ Before(AllLetters(Front(merged)), Letters(part))
    BY <2>2 DEF Before
  <2>4. PICK u \in Seq(Nat) : /\ u = Last(merged) \o Break \o part /\ InOrder(u)
                              /\ Letters(u) = Letters(Last(merged)) \cup Letters(part)
    BY <1>1, <2>2, <2>3, BreakKeeps
  <2>5. Before(AllLetters(Front(merged)), Letters(u)) /\ Letters(u) # {}
    BY <2>2, <2>3, <2>4 DEF Before
  <2>6. /\ InTurn(Append(Front(merged), u))
        /\ AllLetters(Append(Front(merged), u)) = AllLetters(Front(merged)) \cup Letters(u)
    BY <2>2, <2>4, <2>5, AppendKeeps
  <2> QED BY <2>1, <2>2, <2>4, <2>6
<1> QED BY <1>2, <1>3

\* Texts in turn: the first ones stand before the next.
LEMMA TurnPrefix ==
  ASSUME NEW ts, Len(ts) \in Nat, InTurn(ts), NEW i \in 1..Len(ts)
  PROVE  Before(LettersUpTo(ts, i - 1), Letters(ts[i])) /\ InOrder(ts[i]) /\ Letters(ts[i]) # {}
<1>1. ASSUME NEW c \in LettersUpTo(ts, i - 1), NEW e \in Letters(ts[i]) PROVE c < e
  <2>1. PICK k \in 1..(i - 1) : c \in Letters(ts[k])
    BY DEF LettersUpTo
  <2>2. k \in 1..Len(ts) /\ k < i
    BY <2>1
  <2> QED BY <2>1, <2>2 DEF InTurn, Before
<1> QED BY <1>1 DEF InTurn, Before

\* _merge_small_parts keeps the parts' letters, in turn.
LEMMA MergeKeeps ==
  ASSUME NEW L, NEW parts \in Seq(PartsOf(L)), InTurn(parts)
  PROVE  /\ MergeSmallParts(parts) \in Seq(PartsOf(L))
         /\ InTurn(MergeSmallParts(parts))
         /\ AllLetters(MergeSmallParts(parts)) = AllLetters(parts)
<1> DEFINE Kept(i) == {m \in Seq(PartsOf(L)) : InTurn(m) /\ AllLetters(m) = LettersUpTo(parts, i)}
           A == [i \in 0..Len(parts) |-> Kept(i)]
<1>1. /\ Len(parts) \in Nat /\ A[0] = Kept(0) /\ A[Len(parts)] = Kept(Len(parts))
      /\ \A i \in 1..Len(parts) : A[i] = Kept(i) /\ A[i - 1] = Kept(i - 1)
  OBVIOUS
<1>2. <<>> \in Kept(0)
  <2>1. <<>> \in Seq(PartsOf(L)) /\ Len(<<>>) = 0 /\ 1..0 = {}
    OBVIOUS
  <2> QED BY <2>1 DEF InTurn, AllLetters, LettersUpTo
<1>3. ASSUME NEW i \in 1..Len(parts), NEW m \in Kept(i - 1)
      PROVE  m \in Seq(PartsOf(L)) /\ AddPart(m, parts[i]) \in Kept(i)
  <2>1. /\ Before(LettersUpTo(parts, i - 1), Letters(parts[i]))
        /\ InOrder(parts[i]) /\ Letters(parts[i]) # {} /\ parts[i] \in PartsOf(L)
    BY <1>1, TurnPrefix
  <2>2. m \in Seq(PartsOf(L)) /\ InTurn(m) /\ AllLetters(m) = LettersUpTo(parts, i - 1)
    OBVIOUS
  <2>3. /\ InTurn(AddPart(m, parts[i]))
        /\ AllLetters(AddPart(m, parts[i])) = LettersUpTo(parts, i - 1) \cup Letters(parts[i])
    BY <2>1, <2>2, AddPartKeeps
  <2>4. LettersUpTo(parts, i) = LettersUpTo(parts, i - 1) \cup Letters(parts[i])
    BY OneMore
  <2>5. AddPart(m, parts[i]) \in Seq(PartsOf(L))
    BY <2>1, <2>2, AddPartType
  <2> QED BY <2>2, <2>3, <2>4, <2>5
<1>4. MergeSmallParts(parts) \in A[Len(parts)]
  <2> HIDE DEF A, Kept
  <2> QED BY <1>1, <1>2, <1>3, MergeFold
<1> QED BY <1>1, <1>4 DEF AllLetters

\* The texts of some segments.
TextsIn(segments) == [k \in 1..Len(segments) |-> segments[k].text]

\* So does the join of segments.
LEMMA JoinKeeps ==
  ASSUME NEW segments \in Seq(Block), InTurn(TextsIn(segments))
  PROVE  /\ JoinTexts(segments) \in Seq(Nat) /\ InOrder(JoinTexts(segments))
         /\ Letters(JoinTexts(segments)) = AllLetters(TextsIn(segments))
<1> DEFINE ts == TextsIn(segments)
           L == Nat
           n == Len(segments)
           Kept(i) == {t \in TextsOf(L) : InOrder(t) /\ Letters(t) = LettersUpTo(ts, i)}
           A == [i \in 0..n |-> Kept(i)]
<1>1. /\ n \in Nat /\ A[0] = Kept(0) /\ A[n] = Kept(n)
      /\ \A i \in 1..n : A[i] = Kept(i) /\ A[i - 1] = Kept(i - 1)
  OBVIOUS
<1>2. Len(ts) = n /\ \A i \in 1..n : ts[i] = segments[i].text
  BY <1>1 DEF TextsIn
<1>3. <<>> \in Kept(0)
  <2>1. 1..0 = {} /\ DOMAIN <<>> = {} /\ <<>> \in Seq(Nat)
    OBVIOUS
  <2>2. LettersUpTo(ts, 0) = {}
    BY <2>1 DEF LettersUpTo
  <2>3. Letters(<<>>) = {} /\ InOrder(<<>>)
    BY <2>1 DEF Letters, Range, InOrder
  <2> QED BY <2>2, <2>3, NoText
<1>4. segments \in Seq({b \in Block : Letters(b.text) \subseteq L})
  <2>1. \A b \in Block : Letters(b.text) \subseteq L
    BY LettersAt DEF Block
  <2> QED BY <2>1
<1>5. ASSUME NEW i \in 1..n, NEW t \in Kept(i - 1)
      PROVE  t \in TextsOf(L) /\ AddText(t, segments[i]) \in Kept(i)
  <2>1. /\ Before(LettersUpTo(ts, i - 1), Letters(ts[i]))
        /\ InOrder(ts[i]) /\ Letters(ts[i]) # {} /\ ts[i] \in Seq(Nat) /\ ts[i] = segments[i].text
    <3>1. segments[i] \in Block
      BY <1>1
    <3>2. segments[i].text \in Seq(Nat)
      BY <3>1 DEF Block
    <3> QED BY <1>1, <1>2, <3>2, TurnPrefix
  <2>2. t \in Seq(Nat) /\ InOrder(t) /\ Letters(t) = LettersUpTo(ts, i - 1)
    BY DEF TextsOf
  <2>3. LettersUpTo(ts, i) = Letters(t) \cup Letters(ts[i])
    BY <1>1, <2>2, OneMore
  <2>4. AddText(t, segments[i]) \in Seq(Nat) /\ InOrder(AddText(t, segments[i]))
        /\ Letters(AddText(t, segments[i])) = Letters(t) \cup Letters(ts[i])
    <3>1. CASE t = <<>>
      <4>1. Letters(t) = {}
        BY <3>1 DEF Letters, Range
      <4> QED BY <2>1, <3>1, <4>1 DEF AddText
    <3>2. CASE t # <<>>
      BY <2>1, <2>2, <3>2, BreakKeeps DEF AddText
    <3> QED BY <3>1, <3>2
  <2>5. AddText(t, segments[i]) \in TextsOf(L)
    BY <2>4, LettersAt DEF TextsOf
  <2> QED BY <2>3, <2>4, <2>5
<1>6. JoinTexts(segments) \in A[n]
  <2> HIDE DEF A, Kept
  <2>1. <<>> \in A[0]
    BY <1>1, <1>3
  <2>2. \A i \in 1..Len(segments) : \A t \in A[i - 1] : t \in TextsOf(L) /\ AddText(t, segments[i]) \in A[i]
    BY <1>1, <1>5
  <2> QED BY <1>4, <2>1, <2>2, JoinFold
<1>7. JoinTexts(segments) \in Kept(n)
  BY <1>1, <1>6
<1> QED BY <1>2, <1>7 DEF AllLetters, TextsOf

\* The k-th of some indices is the one with k up to it.
LEMMA Ranks ==
  ASSUME NEW n \in Nat, NEW S \in SUBSET (1..n), NEW a \in S, NEW b \in S
  PROVE  LET rank(i) == Cardinality({j \in S : j <= i})
         IN  rank(a) \in 1..Cardinality(S) /\ (a < b => rank(a) < rank(b))
<1> DEFINE upTo(i) == {j \in S : j <= i}
<1>1. IsFiniteSet(S)
  <2>1. IsFiniteSet(1..n)
    BY FS_Interval
  <2> QED BY <2>1, FS_Subset
<1>2. ASSUME NEW i \in S
      PROVE  /\ IsFiniteSet(upTo(i)) /\ Cardinality(upTo(i)) \in Nat \ {0}
             /\ Cardinality(upTo(i)) <= Cardinality(S) /\ Cardinality(S) \in Nat
  <2>1. upTo(i) \subseteq S /\ i \in upTo(i)
    OBVIOUS
  <2> HIDE DEF upTo
  <2>2. IsFiniteSet(upTo(i)) /\ Cardinality(upTo(i)) <= Cardinality(S)
    BY <1>1, <2>1, FS_Subset
  <2>3. Cardinality(upTo(i)) \in Nat /\ Cardinality(S) \in Nat
    BY <1>1, <2>2, FS_CardinalityType
  <2>4. Cardinality(upTo(i)) # 0
    BY <2>1, <2>2, FS_EmptySet
  <2> QED BY <2>2, <2>3, <2>4
<1>3. ASSUME a < b PROVE Cardinality(upTo(a)) < Cardinality(upTo(b))
  <2>1. upTo(a) \subseteq upTo(b)
    <3>1. \A j \in S : j <= a => j <= b
      BY <1>3
    <3> QED BY <3>1
  <2>2. b \in upTo(b) /\ b \notin upTo(a)
    BY <1>3
  <2> HIDE DEF upTo
  <2>3. Cardinality(upTo(a)) <= Cardinality(upTo(b)) /\ Cardinality(upTo(a)) # Cardinality(upTo(b))
    BY <1>2, <2>1, <2>2, FS_Subset
  <2>4. Cardinality(upTo(a)) \in Nat /\ Cardinality(upTo(b)) \in Nat
    BY <1>2
  <2> QED BY <2>3, <2>4
<1>4. Cardinality(upTo(a)) \in 1..Cardinality(S)
  <2>1. Cardinality(upTo(a)) \in Nat \ {0} /\ Cardinality(upTo(a)) <= Cardinality(S) /\ Cardinality(S) \in Nat
    BY <1>2
  <2> HIDE DEF upTo
  <2> QED BY <2>1
<1> QED BY <1>3, <1>4

\* And begins.
LEMMA RunBegins ==
  ASSUME NEW n \in Nat, NEW inside \in SUBSET (1..n), NEW i \in inside
  PROVE  \E a \in inside : a <= i /\ a..i \subseteq inside /\ a - 1 \notin inside
<1> DEFINE run == {a \in inside : a <= i /\ a..i \subseteq inside}
<1>1. run \in SUBSET Nat /\ i \in run
  <2>1. i \in Nat /\ \A j \in i..i : j = i
    OBVIOUS
  <2>2. i <= i /\ i..i \subseteq inside
    BY <2>1
  <2>3. i \in run
    BY <2>2
  <2>4. run \subseteq inside /\ inside \subseteq Nat
    OBVIOUS
  <2> HIDE DEF run
  <2> QED BY <2>3, <2>4
<1>2. PICK a \in run : \A f \in run : a <= f
  <2> HIDE DEF run
  <2> QED BY <1>1, LeastNatural
<1>3. a - 1 \notin inside
  <2> SUFFICES ASSUME a - 1 \in inside PROVE FALSE
    OBVIOUS
  <2>1. a \in Nat /\ i \in Nat /\ a <= i /\ a - 1 \in Nat
    OBVIOUS
  <2>2. \A j \in (a - 1)..i : j \in a..i \/ j = a - 1
    BY <2>1
  <2>3. a - 1 \in run
    BY <2>1, <2>2
  <2>4. a <= a - 1
    BY <1>2, <2>3
  <2> QED BY <2>1, <2>4
<1> QED BY <1>3

\* Splitting at characters that are no letters keeps the letters, in turn.
LEMMA SplitKeeps ==
  ASSUME NEW text \in Seq(Nat), InOrder(text), NEW seps,
         \A i \in seps \cap DOMAIN text : ~IsLetter(text[i])
  PROVE  InTurn(SplitText(text, seps)) /\ AllLetters(SplitText(text, seps)) = Letters(text)
<1> DEFINE n == Len(text)
           inside == DOMAIN text \ seps
           last(i) == CHOOSE e \in inside : i <= e /\ i..e \subseteq inside /\ e + 1 \notin inside
           partAt(i) == Strip(SubSeq(text, i, last(i)))
           starts == {i \in inside : i - 1 \notin inside /\ partAt(i) # <<>>}
           rank(i) == Cardinality({j \in starts : j <= i})
           nth(k) == CHOOSE i \in starts : Cardinality({j \in starts : j <= i}) = k
           parts == SplitText(text, seps)
<1>1. n \in Nat /\ inside \in SUBSET (1..n)
  OBVIOUS
<1>2. ASSUME NEW i \in inside
      PROVE  /\ last(i) \in inside /\ i <= last(i) /\ i..last(i) \subseteq inside /\ last(i) + 1 \notin inside
             /\ i \in Nat /\ last(i) \in Nat
  <2> HIDE DEF inside, n
  <2>1. \E e \in inside : i <= e /\ i..e \subseteq inside /\ e + 1 \notin inside
    BY <1>1, RunEnds
  <2>2. last(i) \in inside /\ i <= last(i) /\ i..last(i) \subseteq inside /\ last(i) + 1 \notin inside
    BY <2>1
  <2>3. i \in Nat /\ last(i) \in Nat
    <3>1. inside \subseteq Nat
      BY <1>1
    <3> HIDE DEF last, inside
    <3> QED BY <2>2, <3>1
  <2> HIDE DEF last
  <2> QED BY <2>2, <2>3
<1>3. ASSUME NEW i \in inside
      PROVE  /\ InOrder(partAt(i))
             /\ Letters(partAt(i)) = {text[j] : j \in {k \in i..last(i) : IsLetter(text[k])}}
             /\ partAt(i) = <<>> <=> Letters(partAt(i)) = {}
  <2>1. PICK e \in Nat : e = last(i) /\ e \in inside /\ i \in Nat
    BY <1>2
  <2>2. 1 <= i /\ e <= Len(text)
    <3> HIDE DEF inside, last
    <3> QED BY <1>1, <2>1
  <2>3. PICK u \in Seq(Nat) : /\ u = SubSeq(text, i, e) /\ InOrder(u)
                              /\ Letters(u) = {text[j] : j \in {k \in i..e : IsLetter(text[k])}}
    <3> HIDE DEF last, inside
    <3>1. i \in Nat /\ e \in Nat
      BY <2>1
    <3>2. /\ SubSeq(text, i, e) \in Seq(Nat)
          /\ Letters(SubSeq(text, i, e)) = {text[j] : j \in {k \in i..e : IsLetter(text[k])}}
          /\ InOrder(text) => InOrder(SubSeq(text, i, e))
      BY <2>2, <3>1, SubKeeps
    <3> QED BY <3>2
  <2>4. InOrder(Strip(u)) /\ Letters(Strip(u)) = Letters(u) /\ (Strip(u) = <<>> <=> Letters(u) = {})
    BY <2>3, StripKeeps
  <2> HIDE DEF last
  <2> QED BY <2>1, <2>3, <2>4
<1>4. starts \in SUBSET (1..n) /\ starts \subseteq inside /\ \A i \in starts : i - 1 \notin inside /\ partAt(i) # <<>>
  BY <1>1
<1>5. ASSUME NEW a \in starts, NEW b \in starts, a < b
      PROVE  Before(Letters(partAt(a)), Letters(partAt(b)))
  <2>1. PICK e \in Nat : e = last(a) /\ a..e \subseteq inside /\ a \in Nat
    BY <1>2, <1>4
  <2>2. PICK f \in Nat : f = last(b) /\ b..f \subseteq inside /\ b \in Nat
    BY <1>2, <1>4
  <2>3. e < b
    <3> SUFFICES ASSUME b <= e PROVE FALSE
      BY <2>1, <2>2
    <3>1. b - 1 \in a..e
      BY <1>5, <2>1, <2>2
    <3> HIDE DEF inside, starts
    <3> QED BY <1>4, <2>1, <3>1
  <2> SUFFICES ASSUME NEW c \in Letters(partAt(a)), NEW g \in Letters(partAt(b)) PROVE c < g
    BY DEF Before
  <2> HIDE DEF partAt, starts, last
  <2>4. PICK j \in a..e : c = text[j] /\ IsLetter(text[j])
    BY <1>3, <1>4, <2>1
  <2>5. PICK k \in b..f : g = text[k] /\ IsLetter(text[k])
    BY <1>3, <1>4, <2>2
  <2>6. j < k /\ j \in DOMAIN text /\ k \in DOMAIN text
    <3>1. j < k
      BY <2>1, <2>2, <2>3
    <3>2. j \in inside /\ k \in inside
      BY <2>1, <2>2
    <3> QED BY <3>1, <3>2
  <2> QED BY <2>4, <2>5, <2>6 DEF InOrder
<1>6. Cardinality(starts) \in Nat
  <2> HIDE DEF starts, n
  <2>1. IsFiniteSet(1..n)
    BY <1>1, FS_Interval
  <2> QED BY <1>4, <2>1, FS_Subset, FS_CardinalityType
<1>7. ASSUME NEW k \in 1..Cardinality(starts) PROVE nth(k) \in starts /\ rank(nth(k)) = k
  <2> HIDE DEF starts, n
  <2>1. \E i \in starts : Cardinality({j \in starts : j <= i}) = k
    <3>1. n \in Nat /\ starts \in SUBSET (1..n)
      BY <1>1, <1>4
    <3> QED BY <3>1, KthIndex
  <2> QED BY <2>1
<1>8. ASSUME NEW a \in starts, NEW b \in starts
      PROVE  rank(a) \in 1..Cardinality(starts) /\ (a < b => rank(a) < rank(b)) /\ a \in Nat /\ b \in Nat
  <2> HIDE DEF starts, n
  <2>1. rank(a) \in 1..Cardinality(starts) /\ (a < b => rank(a) < rank(b))
    BY <1>1, <1>4, Ranks
  <2> HIDE DEF rank
  <2> QED BY <1>1, <1>4, <2>1
<1>9. parts = [k \in 1..Cardinality(starts) |-> partAt(nth(k))]
  BY Zenon DEF SplitText
<1>10. Len(parts) = Cardinality(starts) /\ \A k \in 1..Len(parts) : parts[k] = partAt(nth(k))
  <2> HIDE DEF starts, partAt, nth, parts
  <2> QED BY <1>6, <1>9
<1>11. InTurn(parts)
  <2>1. \A k \in 1..Len(parts) : InOrder(parts[k]) /\ Letters(parts[k]) # {}
    <3> HIDE DEF starts, partAt, nth, parts, inside, rank
    <3> QED BY <1>3, <1>4, <1>7, <1>10
  <2>2. ASSUME NEW j \in 1..Len(parts), NEW k \in 1..Len(parts), j < k
        PROVE  Before(Letters(parts[j]), Letters(parts[k]))
    <3> HIDE DEF starts, partAt, nth, parts, inside, rank
    <3>1. nth(j) \in starts /\ nth(k) \in starts /\ rank(nth(j)) = j /\ rank(nth(k)) = k
      BY <1>7, <1>10
    <3>2. nth(j) < nth(k)
      <4>1. nth(j) \in Nat /\ nth(k) \in Nat
        BY <1>8, <3>1
      <4>2. nth(j) # nth(k)
        BY <2>2, <3>1
      <4>3. ~(nth(k) < nth(j))
        <5>1. nth(k) < nth(j) => k < j
          BY <1>8, <3>1
        <5> QED BY <2>2, <5>1
      <4> QED BY <4>1, <4>2, <4>3
    <3> QED BY <1>5, <1>10, <3>1, <3>2
  <2> HIDE DEF parts
  <2> QED BY <2>1, <2>2 DEF InTurn
<1>12. ASSUME NEW c \in Letters(text) PROVE c \in AllLetters(parts)
  <2>1. PICK j \in 1..Len(text) : c = text[j] /\ IsLetter(c)
    BY LettersAt
  <2>2. j \in inside
    BY <2>1
  <2>3. PICK a \in inside : a <= j /\ a..j \subseteq inside /\ a - 1 \notin inside
    <3> HIDE DEF inside, n
    <3> QED BY <1>1, <2>2, RunBegins
  <2>4. PICK e \in Nat : e = last(a) /\ a <= e /\ e + 1 \notin inside /\ a \in Nat
    BY <1>2
  <2>5. j \in a..e
    <3> SUFFICES ASSUME e < j PROVE FALSE
      BY <2>3, <2>4
    <3>1. e + 1 \in a..j
      BY <2>4
    <3> HIDE DEF inside
    <3> QED BY <2>3, <2>4, <3>1
  <2> HIDE DEF last
  <2>6. c \in Letters(partAt(a))
    BY <1>3, <2>1, <2>4, <2>5
  <2>7. a \in starts
    <3>1. partAt(a) # <<>>
      <4> HIDE DEF partAt, inside
      <4> QED BY <1>3, <2>6
    <3> QED BY <2>3, <3>1
  <2> HIDE DEF starts, partAt, nth, parts, inside, rank
  <2>8. rank(a) \in 1..Cardinality(starts)
    BY <1>8, <2>7
  <2>9. nth(rank(a)) \in starts /\ rank(nth(rank(a))) = rank(a)
    BY <1>7, <2>8
  <2>10. nth(rank(a)) = a
    <3>1. PICK b \in starts : b = nth(rank(a)) /\ rank(b) = rank(a)
      BY <2>9
    <3>2. a \in Nat /\ b \in Nat /\ ~(a < b) /\ ~(b < a)
      <4>1. rank(a) \in Nat
        BY <2>8
      <4> QED BY <1>8, <2>7, <3>1, <4>1
    <3> QED BY <3>1, <3>2
  <2> QED BY <1>10, <2>6, <2>8, <2>10 DEF AllLetters, LettersUpTo
<1>13. ASSUME NEW c \in AllLetters(parts) PROVE c \in Letters(text)
  <2>1. PICK k \in 1..Len(parts) : c \in Letters(parts[k])
    BY DEF AllLetters, LettersUpTo
  <2>2. PICK a \in starts : a = nth(k) /\ c \in Letters(partAt(a))
    <3> HIDE DEF starts, partAt, nth, parts, rank
    <3> QED BY <1>7, <1>10, <2>1
  <2>3. PICK j \in a..last(a) : c = text[j] /\ IsLetter(text[j])
    <3> HIDE DEF partAt, starts, last, inside
    <3>1. a \in inside
      BY <1>4
    <3>2. c \in {text[j] : j \in {m \in a..last(a) : IsLetter(text[m])}}
      BY <1>3, <2>2, <3>1
    <3> QED BY <3>2
  <2>4. j \in 1..Len(text)
    <3>1. a..last(a) \subseteq inside
      BY <1>2, <1>4
    <3> HIDE DEF last
    <3> QED BY <1>1, <2>3, <3>1
  <2> QED BY <2>3, <2>4, LettersAt
<1> QED BY <1>11, <1>12, <1>13

-----------------------------------------------------------------------------
(* Sets of letters in turn                                                 *)

\* Sets of letters one behind the other, and all of them.
Lined(Ls) == \A j, k \in 1..Len(Ls) : j < k => Before(Ls[j], Ls[k])
Together(Ls) == UNION {Ls[k] : k \in 1..Len(Ls)}

\* One set more, behind all others, is in turn.
LEMMA LinedAppend ==
  ASSUME NEW Ls \in Seq(SUBSET Nat), Lined(Ls), NEW K \in SUBSET Nat, Before(Together(Ls), K)
  PROVE  /\ Append(Ls, K) \in Seq(SUBSET Nat)
         /\ Lined(Append(Ls, K)) /\ Together(Append(Ls, K)) = Together(Ls) \cup K
<1> DEFINE Ms == Append(Ls, K)
           n == Len(Ls)
<1>1. Ms \in Seq(SUBSET Nat) /\ n \in Nat /\ Len(Ms) = n + 1 /\ Ms[n + 1] = K /\ \A k \in 1..n : Ms[k] = Ls[k]
  OBVIOUS
<1> HIDE DEF Ms, n
<1>2. \A k \in 1..Len(Ms) : k \in 1..n \/ k = n + 1
  BY <1>1
<1>3. \A k \in 1..n : Ls[k] \subseteq Together(Ls) /\ k \in 1..Len(Ms)
  BY <1>1 DEF Together, n
<1>4. ASSUME NEW j \in 1..Len(Ms), NEW k \in 1..Len(Ms), j < k PROVE Before(Ms[j], Ms[k])
  <2>1. j \in 1..n
    BY <1>1, <1>4
  <2>2. CASE k \in 1..n
    BY <1>1, <1>4, <2>1, <2>2 DEF Lined, n
  <2>3. CASE k = n + 1
    BY <1>1, <1>3, <2>1, <2>3 DEF Before
  <2> QED BY <1>2, <2>2, <2>3
<1>5. ASSUME NEW c \in Together(Ms) PROVE c \in Together(Ls) \cup K
  <2>1. PICK k \in 1..Len(Ms) : c \in Ms[k]
    BY DEF Together
  <2> QED BY <1>1, <1>2, <1>3, <2>1
<1>6. ASSUME NEW c \in Together(Ls) \cup K PROVE c \in Together(Ms)
  <2>1. CASE c \in Together(Ls)
    <3>1. PICK k \in 1..n : c \in Ls[k]
      BY <2>1 DEF Together, n
    <3> QED BY <1>1, <1>3, <3>1 DEF Together
  <2>2. CASE c \in K
    <3>1. n + 1 \in 1..Len(Ms)
      BY <1>1
    <3> QED BY <1>1, <2>2, <3>1 DEF Together
  <2> QED BY <2>1, <2>2
<1> QED BY <1>1, <1>4, <1>5, <1>6 DEF Lined, Ms

\* So is the last one with letters behind all others.
LEMMA LinedExtend ==
  ASSUME NEW Ls \in Seq(SUBSET Nat), Lined(Ls), Ls # <<>>, NEW K \in SUBSET Nat, Before(Together(Ls), K)
  PROVE  LET Ms == [Ls EXCEPT ![Len(Ls)] = @ \cup K]
         IN  /\ Ms \in Seq(SUBSET Nat)
             /\ Lined(Ms) /\ Together(Ms) = Together(Ls) \cup K
<1> DEFINE Ms == [Ls EXCEPT ![Len(Ls)] = @ \cup K]
           n == Len(Ls)
<1>1. Ms \in Seq(SUBSET Nat) /\ n \in Nat /\ n \in 1..n /\ Len(Ms) = n
      /\ Ms[n] = Ls[n] \cup K /\ \A k \in 1..n : k # n => Ms[k] = Ls[k]
  <2>1. n \in Nat /\ n # 0 /\ DOMAIN Ls = 1..n
    OBVIOUS
  <2>2. n \in 1..n
    BY <2>1
  <2>3. PICK M \in SUBSET Nat : M = Ls[n] \cup K
    <3>1. Ls[n] \in SUBSET Nat
      BY <2>2
    <3>2. Ls[n] \cup K \in SUBSET Nat
      BY <3>1
    <3> QED BY <3>2
  <2>4. Ms = [Ls EXCEPT ![n] = M]
    BY <2>2, <2>3
  <2>5. /\ [Ls EXCEPT ![n] = M] \in Seq(SUBSET Nat) /\ Len([Ls EXCEPT ![n] = M]) = n
        /\ \A k \in 1..n : [Ls EXCEPT ![n] = M][k] = IF k = n THEN M ELSE Ls[k]
    BY <2>2, ExceptSeq
  <2> HIDE DEF Ms, n
  <2> QED BY <2>1, <2>2, <2>3, <2>4, <2>5
<1> HIDE DEF Ms, n
<1>2. \A k \in 1..n : Ls[k] \subseteq Together(Ls)
  BY DEF Together, n
<1>3. ASSUME NEW j \in 1..Len(Ms), NEW k \in 1..Len(Ms), j < k PROVE Before(Ms[j], Ms[k])
  <2>1. j \in 1..n /\ k \in 1..n /\ j # n
    BY <1>1, <1>3
  <2>2. Before(Ls[j], Ls[k]) /\ Ms[j] = Ls[j]
    BY <1>1, <1>3, <2>1 DEF Lined, n
  <2>3. Ms[k] \subseteq Ls[k] \cup K
    BY <1>1, <2>1
  <2> QED BY <1>2, <2>1, <2>2, <2>3 DEF Before
<1>4. ASSUME NEW c \in Together(Ms) PROVE c \in Together(Ls) \cup K
  <2>1. PICK k \in 1..n : c \in Ms[k]
    BY <1>1 DEF Together
  <2> QED BY <1>1, <1>2, <2>1
<1>5. ASSUME NEW c \in Together(Ls) \cup K PROVE c \in Together(Ms)
  <2>1. CASE c \in Together(Ls)
    <3>1. PICK k \in 1..n : c \in Ls[k]
      BY <2>1 DEF Together, n
    <3>2. c \in Ms[k]
      BY <1>1, <3>1
    <3> QED BY <1>1, <3>2 DEF Together
  <2>2. CASE c \in K
    BY <1>1, <2>2 DEF Together
  <2> QED BY <2>1, <2>2
<1> QED BY <1>1, <1>3, <1>4, <1>5 DEF Lined, Ms, n

\* So are sets in turn behind sets in turn.
LEMMA LinedConcat ==
  ASSUME NEW Ls \in Seq(SUBSET Nat), Lined(Ls), NEW Ms \in Seq(SUBSET Nat), Lined(Ms),
         Before(Together(Ls), Together(Ms))
  PROVE  /\ Ls \o Ms \in Seq(SUBSET Nat)
         /\ Lined(Ls \o Ms) /\ Together(Ls \o Ms) = Together(Ls) \cup Together(Ms)
<1> DEFINE Ns == Ls \o Ms
           m == Len(Ls)
           n == Len(Ms)
<1>1. /\ Ns \in Seq(SUBSET Nat) /\ m \in Nat /\ n \in Nat /\ Len(Ns) = m + n
      /\ \A k \in 1..m : Ns[k] = Ls[k] /\ k \in 1..Len(Ns)
      /\ \A k \in 1..n : Ns[m + k] = Ms[k] /\ m + k \in 1..Len(Ns)
  OBVIOUS
<1> HIDE DEF Ns, m, n
<1>2. \A k \in 1..Len(Ns) : k \in 1..m \/ (k > m /\ k - m \in 1..n /\ k = m + (k - m))
  BY <1>1
<1>3. (\A k \in 1..m : Ls[k] \subseteq Together(Ls)) /\ (\A k \in 1..n : Ms[k] \subseteq Together(Ms))
  BY DEF Together, m, n
<1>4. ASSUME NEW j \in 1..Len(Ns), NEW k \in 1..Len(Ns), j < k PROVE Before(Ns[j], Ns[k])
  <2>1. CASE k \in 1..m
    <3>1. j \in 1..m
      BY <1>1, <1>4, <2>1
    <3> QED BY <1>1, <1>4, <2>1, <3>1 DEF Lined, m
  <2>2. CASE j \in 1..m /\ k - m \in 1..n /\ k = m + (k - m)
    <3>1. Ns[j] \subseteq Together(Ls) /\ Ns[k] \subseteq Together(Ms)
      BY <1>1, <1>3, <2>2
    <3> QED BY <3>1 DEF Before
  <2>3. CASE j > m /\ j - m \in 1..n /\ j = m + (j - m) /\ k - m \in 1..n /\ k = m + (k - m)
    <3>1. Ns[j] = Ms[j - m] /\ Ns[k] = Ms[k - m] /\ j - m < k - m
      BY <1>1, <1>4, <2>3
    <3> QED BY <2>3, <3>1 DEF Lined, n
  <2> QED BY <1>1, <1>2, <1>4, <2>1, <2>2, <2>3
<1>5. ASSUME NEW c \in Together(Ns) PROVE c \in Together(Ls) \cup Together(Ms)
  <2>1. PICK k \in 1..Len(Ns) : c \in Ns[k]
    BY DEF Together
  <2> QED BY <1>1, <1>2, <1>3, <2>1
<1>6. ASSUME NEW c \in Together(Ls) \cup Together(Ms) PROVE c \in Together(Ns)
  <2>1. CASE c \in Together(Ls)
    <3>1. PICK k \in 1..m : c \in Ls[k]
      BY <2>1 DEF Together, m
    <3> QED BY <1>1, <3>1 DEF Together
  <2>2. CASE c \in Together(Ms)
    <3>1. PICK k \in 1..n : c \in Ms[k]
      BY <2>2 DEF Together, n
    <3> QED BY <1>1, <3>1 DEF Together
  <2> QED BY <2>1, <2>2
<1> QED BY <1>1, <1>4, <1>5, <1>6 DEF Lined, Ns

\* The letters of some segments; of no segments and of one more.
LettersIn(segments) == UNION {Letters(segments[k].text) : k \in 1..Len(segments)}

\* The letters of one segment more.
LEMMA LettersOfSegments ==
  ASSUME NEW s \in Seq(Block), NEW b \in Block
  PROVE  /\ LettersIn(s) \in SUBSET Nat /\ LettersIn(<<>>) = {}
         /\ LettersIn(Append(s, b)) = LettersIn(s) \cup Letters(b.text)
         /\ LettersIn(<<b>>) = Letters(b.text) /\ Letters(b.text) \in SUBSET Nat
<1>1. LettersIn(<<>>) = {}
  <2>1. Len(<<>>) = 0 /\ 1..0 = {}
    OBVIOUS
  <2> QED BY <2>1 DEF LettersIn
<1>2. \A c \in Block : Letters(c.text) \in SUBSET Nat
  BY LettersAt DEF Block
<1>3. LettersIn(s) \in SUBSET Nat
  <2>1. \A k \in 1..Len(s) : s[k] \in Block
    OBVIOUS
  <2> QED BY <1>2, <2>1 DEF LettersIn
<1>4. LettersIn(<<b>>) = Letters(b.text)
  <2>1. Len(<<b>>) = 1 /\ <<b>>[1] = b /\ 1..1 = {1}
    OBVIOUS
  <2> QED BY <2>1 DEF LettersIn
<1> DEFINE t == Append(s, b)
           n == Len(s)
<1>5. n \in Nat /\ Len(t) = n + 1 /\ t[n + 1] = b /\ \A k \in 1..n : t[k] = s[k]
  OBVIOUS
<1> HIDE DEF t, n
<1>6. 1..Len(t) = (1..n) \cup {n + 1}
  BY <1>5
<1>7. ASSUME NEW c \in LettersIn(t) PROVE c \in LettersIn(s) \cup Letters(b.text)
  <2>1. PICK k \in 1..Len(t) : c \in Letters(t[k].text)
    BY DEF LettersIn
  <2> QED BY <1>5, <1>6, <2>1 DEF LettersIn, n
<1>8. ASSUME NEW c \in LettersIn(s) \cup Letters(b.text) PROVE c \in LettersIn(t)
  <2>1. \E k \in 1..Len(t) : c \in Letters(t[k].text)
    <3>1. CASE c \in LettersIn(s)
      <4>1. PICK k \in 1..n : c \in Letters(s[k].text)
        BY <3>1 DEF LettersIn, n
      <4> QED BY <1>5, <1>6, <4>1
    <3>2. CASE c \in Letters(b.text)
      BY <1>5, <1>6, <3>2
    <3> QED BY <3>1, <3>2
  <2> QED BY <2>1 DEF LettersIn
<1> QED BY <1>1, <1>2, <1>3, <1>4, <1>7, <1>8 DEF t

-----------------------------------------------------------------------------
(* Sections and clauses are parts of the document                          *)

\* The letters of the bodies among the first i blocks.
BodyUpTo(d, i) == UNION {Letters(d[b].text) : b \in {c \in 1..i : d[c].kind # "heading"}}

\* Every block stands behind the bodies before it.
LEMMA NextBody ==
  ASSUME NEW d \in Documents, NEW i \in 1..Len(d)
  PROVE  /\ BodyUpTo(d, i) = BodyUpTo(d, i - 1)
              \cup (IF d[i].kind = "heading" THEN {} ELSE Letters(d[i].text))
         /\ Before(BodyUpTo(d, i - 1), Letters(d[i].text))
<1>1. i \in Nat /\ 1..i = 1..(i - 1) \cup {i} /\ \A b \in 1..(i - 1) : b \in 1..Len(d) /\ b < i
  <2>1. Len(d) \in Nat
    BY DocType
  <2> QED BY <2>1
<1>2. ASSUME NEW c \in BodyUpTo(d, i)
      PROVE  c \in BodyUpTo(d, i - 1) \cup (IF d[i].kind = "heading" THEN {} ELSE Letters(d[i].text))
  <2>1. PICK b \in 1..i : d[b].kind # "heading" /\ c \in Letters(d[b].text)
    BY DEF BodyUpTo
  <2> QED BY <1>1, <2>1 DEF BodyUpTo
<1>3. ASSUME NEW c \in BodyUpTo(d, i - 1) \cup (IF d[i].kind = "heading" THEN {} ELSE Letters(d[i].text))
      PROVE  c \in BodyUpTo(d, i)
  <2>1. \E b \in 1..i : d[b].kind # "heading" /\ c \in Letters(d[b].text)
    BY <1>1, <1>3 DEF BodyUpTo
  <2> QED BY <2>1 DEF BodyUpTo
<1>4. ASSUME NEW c \in BodyUpTo(d, i - 1), NEW e \in Letters(d[i].text) PROVE c < e
  <2>1. PICK b \in 1..(i - 1) : c \in Letters(d[b].text)
    BY DEF BodyUpTo
  <2>2. Before(Letters(d[b].text), Letters(d[i].text))
    BY <1>1, DocType
  <2> QED BY <2>1, <2>2 DEF Before
<1> QED BY <1>2, <1>3, <1>4 DEF Before

\* Segments that are the blocks of d from block a on.
Stands(d, a, segments) ==
  \A k \in 1..Len(segments) : a + k - 1 \in 1..Len(d) /\ segments[k] = d[a + k - 1]

\* The segments of a section that block a is the first of: blocks without a
\* heading, after one or at the beginning.
SectionFrom(d, a, segments) ==
  /\ Stands(d, a, segments)
  /\ a = 1 \/ d[a - 1].kind = "heading"
  /\ \A k \in 1..Len(segments) : segments[k].kind # "heading"

\* A section that still goes on after i blocks, and one that a heading has ended.
OpenAt(d, i, segments) ==
  \E a \in 1..(i + 1) : SectionFrom(d, a, segments) /\ a + Len(segments) = i + 1
ClosedAt(d, i, segments) ==
  \E a \in 1..i : /\ SectionFrom(d, a, segments)
                  /\ a + Len(segments) <= i /\ d[a + Len(segments)].kind = "heading"

\* The sections of the first i blocks, and the letters of each.
LettersPer(ss) == [k \in 1..Len(ss) |-> LettersIn(ss[k].segments)]
SectionsKept(d, i) ==
  {ss \in Seq(AnySection) :
     /\ ss = <<>> => i = 0
     /\ \A k \in 1..Len(ss) : /\ k < Len(ss) => ClosedAt(d, i, ss[k].segments)
                              /\ k = Len(ss) => OpenAt(d, i, ss[k].segments)
     /\ Lined(LettersPer(ss)) /\ Together(LettersPer(ss)) = BodyUpTo(d, i)}

\* One block more, for a section that has ended, and for one that has not.
LEMMA SectionGrows ==
  ASSUME NEW d \in Seq(Block), NEW i \in 1..Len(d), NEW segments \in Seq(Block)
  PROVE  /\ ClosedAt(d, i - 1, segments) => ClosedAt(d, i, segments)
         /\ OpenAt(d, i - 1, segments) /\ d[i].kind = "heading" => ClosedAt(d, i, segments)
         /\ OpenAt(d, i - 1, segments) /\ d[i].kind # "heading" => OpenAt(d, i, Append(segments, d[i]))
         /\ d[i].kind = "heading" => OpenAt(d, i, <<>>)
<1>1. Len(d) \in Nat /\ Len(segments) \in Nat
  OBVIOUS
<1>2. ASSUME ClosedAt(d, i - 1, segments) PROVE ClosedAt(d, i, segments)
  <2>1. PICK a \in 1..(i - 1) : /\ SectionFrom(d, a, segments)
                                /\ a + Len(segments) <= i - 1 /\ d[a + Len(segments)].kind = "heading"
    BY <1>2 DEF ClosedAt
  <2>2. a \in 1..i /\ a + Len(segments) <= i
    BY <1>1, <2>1
  <2> QED BY <2>1, <2>2 DEF ClosedAt
<1>3. ASSUME OpenAt(d, i - 1, segments)
      PROVE  /\ d[i].kind = "heading" => ClosedAt(d, i, segments)
             /\ d[i].kind # "heading" => OpenAt(d, i, Append(segments, d[i]))
  <2>1. PICK a \in 1..(i - 1 + 1) : SectionFrom(d, a, segments) /\ a + Len(segments) = i - 1 + 1
    BY <1>3 DEF OpenAt
  <2>2. a \in 1..i /\ a \in 1..(i + 1) /\ a + Len(segments) = i
    BY <1>1, <2>1
  <2>3. ASSUME d[i].kind = "heading" PROVE ClosedAt(d, i, segments)
    <3>1. a + Len(segments) <= i /\ d[a + Len(segments)].kind = "heading"
      BY <2>2, <2>3
    <3> QED BY <2>1, <2>2, <3>1 DEF ClosedAt
  <2>4. ASSUME d[i].kind # "heading" PROVE OpenAt(d, i, Append(segments, d[i]))
    <3>1. PICK n \in Nat : n = Len(segments)
      BY <1>1
    <3>2. PICK t : /\ t = Append(segments, d[i]) /\ Len(t) = n + 1 /\ t[n + 1] = d[i]
                   /\ \A k \in 1..n : t[k] = segments[k]
      <4>1. d[i] \in Block
        OBVIOUS
      <4>2. /\ Len(Append(segments, d[i])) = Len(segments) + 1
            /\ Append(segments, d[i])[Len(segments) + 1] = d[i]
            /\ \A k \in 1..Len(segments) : Append(segments, d[i])[k] = segments[k]
        BY <4>1, AppendProperties
      <4> QED BY <3>1, <4>2
    <3>3. \A k \in 1..Len(t) : k \in 1..n \/ k = n + 1
      BY <3>1, <3>2
    <3>4. Stands(d, a, t)
      <4>1. a + (n + 1) - 1 = i
        BY <2>2, <3>1
      <4>2. \A k \in 1..n : a + k - 1 \in 1..Len(d) /\ segments[k] = d[a + k - 1]
        BY <2>1, <3>1 DEF SectionFrom, Stands
      <4> QED BY <3>2, <3>3, <4>1, <4>2 DEF Stands
    <3>5. SectionFrom(d, a, t)
      <4>1. \A k \in 1..Len(t) : t[k].kind # "heading"
        BY <2>1, <2>4, <3>1, <3>2, <3>3 DEF SectionFrom
      <4> QED BY <2>1, <3>4, <4>1 DEF SectionFrom
    <3>6. a + Len(t) = i + 1
      BY <2>2, <3>1, <3>2
    <3> QED BY <2>2, <3>2, <3>5, <3>6 DEF OpenAt
  <2> QED BY <2>3, <2>4
<1>4. ASSUME d[i].kind = "heading" PROVE OpenAt(d, i, <<>>)
  <2>1. Len(<<>>) = 0 /\ 1..0 = {} /\ i + 1 \in 1..(i + 1) /\ i + 1 - 1 = i /\ i + 1 + 0 = i + 1
    OBVIOUS
  <2>2. SectionFrom(d, i + 1, <<>>)
    BY <1>4, <2>1 DEF SectionFrom, Stands
  <2> QED BY <2>1, <2>2 DEF OpenAt
<1> QED BY <1>2, <1>3, <1>4

\* A body goes to the last section, after a section without a heading has been
\* opened if there is none.
LEMMA BodyAdded ==
  ASSUME NEW ss \in Seq(AnySection), NEW b \in Block, b.kind # "heading"
  PROVE  \E open \in Seq(AnySection), next \in AnySection :
           /\ open # <<>> /\ Len(open) \in 1..Len(open)
           /\ IF ss = <<>> THEN Len(open) = 1 /\ open[1].segments = <<>> ELSE open = ss
           /\ next.segments = Append(open[Len(open)].segments, b)
           /\ AddToSections(ss, b) = [open EXCEPT ![Len(open)] = next]
<1>1. PICK new \in AnySection : new = [heading |-> NoHeading, segments |-> <<>>] /\ new.segments = <<>>
  <2>1. NoHeading \in Block
    BY DEF Block, NoHeading, Kinds
  <2>2. [heading |-> NoHeading, segments |-> <<>>] \in AnySection
    BY <2>1 DEF AnySection
  <2> QED BY <2>2
<1>2. PICK open \in Seq(AnySection) :
        /\ open = IF ss = <<>> THEN <<[heading |-> NoHeading, segments |-> <<>>]>> ELSE ss
        /\ open # <<>>
        /\ IF ss = <<>> THEN Len(open) = 1 /\ open[1].segments = <<>> ELSE open = ss
  <2>1. <<new>> \in Seq(AnySection) /\ <<new>> # <<>> /\ Len(<<new>>) = 1 /\ <<new>>[1] = new
    OBVIOUS
  <2>2. CASE ss = <<>>
    <3>1. <<new>> = <<[heading |-> NoHeading, segments |-> <<>>]>>
      BY <1>1
    <3>2. <<new>>[1].segments = <<>>
      BY <1>1, <2>1
    <3> HIDE <1>1
    <3> QED BY <2>1, <2>2, <3>1, <3>2, Zenon
  <2>3. CASE ss # <<>>
    BY <2>3, Zenon
  <2> QED BY <2>2, <2>3
<1>3. PICK last \in AnySection : last = open[Len(open)] /\ Len(open) \in 1..Len(open)
  BY <1>2
<1>4. PICK next : next = [last EXCEPT !.segments = Append(@, b)]
  OBVIOUS
<1>5. next \in AnySection /\ next.segments = Append(last.segments, b)
  BY <1>3, <1>4, AppendProperties DEF AnySection
<1>6. AddToSections(ss, b) = [open EXCEPT ![Len(open)] = next]
  BY <1>2, <1>3, <1>4 DEF AddToSections
<1> QED BY <1>2, <1>3, <1>5, <1>6

\* The letters of sections are sets of numbers.
LEMMA LettersPerType ==
  ASSUME NEW ss, Len(ss) \in Nat, \A k \in 1..Len(ss) : ss[k].segments \in Seq(Block)
  PROVE  /\ LettersPer(ss) \in Seq(SUBSET Nat) /\ Len(LettersPer(ss)) = Len(ss)
         /\ \A k \in 1..Len(ss) : LettersPer(ss)[k] = LettersIn(ss[k].segments)
<1>1. \A k \in 1..Len(ss) : LettersIn(ss[k].segments) \in SUBSET Nat
  <2> SUFFICES ASSUME NEW k \in 1..Len(ss) PROVE LettersIn(ss[k].segments) \in SUBSET Nat
    OBVIOUS
  <2>1. NoHeading \in Block
    BY DEF Block, NoHeading, Kinds
  <2> QED BY <2>1, LettersOfSegments
<1>2. LettersPer(ss) = [k \in 1..Len(ss) |-> LettersIn(ss[k].segments)]
  BY DEF LettersPer
<1>3. LettersPer(ss) \in [1..Len(ss) -> SUBSET Nat]
  BY <1>1, <1>2
<1> QED BY <1>2, <1>3

\* The step of _build_sections keeps that.
LEMMA SectionsKeptStep ==
  ASSUME NEW d \in Documents, NEW i \in 1..Len(d), NEW ss \in SectionsKept(d, i - 1)
  PROVE  AddToSections(ss, d[i]) \in SectionsKept(d, i)
<1>1. /\ d \in Seq(Block) /\ d[i] \in Block /\ i \in Nat /\ i # 0
      /\ ss \in Seq(AnySection) /\ (ss = <<>> => i - 1 = 0)
      /\ Lined(LettersPer(ss)) /\ Together(LettersPer(ss)) = BodyUpTo(d, i - 1)
  BY DocType DEF SectionsKept
<1>2. \A t \in Seq(AnySection) : /\ LettersPer(t) \in Seq(SUBSET Nat) /\ Len(LettersPer(t)) = Len(t)
                                 /\ \A k \in 1..Len(t) : LettersPer(t)[k] = LettersIn(t[k].segments)
                                 /\ \A k \in 1..Len(t) : t[k].segments \in Seq(Block)
  <2> SUFFICES ASSUME NEW t \in Seq(AnySection)
               PROVE  /\ LettersPer(t) \in Seq(SUBSET Nat) /\ Len(LettersPer(t)) = Len(t)
                      /\ \A k \in 1..Len(t) : LettersPer(t)[k] = LettersIn(t[k].segments)
                      /\ \A k \in 1..Len(t) : t[k].segments \in Seq(Block)
    OBVIOUS
  <2>1. Len(t) \in Nat /\ \A k \in 1..Len(t) : t[k] \in AnySection
    OBVIOUS
  <2>2. \A k \in 1..Len(t) : t[k].segments \in Seq(Block)
    BY <2>1 DEF AnySection
  <2> QED BY <2>1, <2>2, LettersPerType
<1>3. CASE d[i].kind = "heading"
  <2>1. PICK new \in AnySection : new = [heading |-> d[i], segments |-> <<>>] /\ new.segments = <<>>
    <3>1. [heading |-> d[i], segments |-> <<>>] \in AnySection
      BY <1>1 DEF AnySection
    <3> QED BY <3>1
  <2>2. PICK t : t = Append(ss, new)
    OBVIOUS
  <2>3. PICK n \in Nat : n = Len(ss)
    BY <1>1
  <2>4. t \in Seq(AnySection) /\ Len(t) = n + 1 /\ t[n + 1] = new /\ \A k \in 1..n : t[k] = ss[k]
    BY <1>1, <2>2, <2>3, AppendProperties
  <2>5. AddToSections(ss, d[i]) = t
    BY <1>3, <2>1, <2>2 DEF AddToSections
  <2>6. ASSUME NEW k \in 1..Len(t)
        PROVE  /\ k < Len(t) => ClosedAt(d, i, t[k].segments)
               /\ k = Len(t) => OpenAt(d, i, t[k].segments)
    <3>1. CASE k \in 1..n
      <4>1. ClosedAt(d, i - 1, ss[k].segments) \/ OpenAt(d, i - 1, ss[k].segments)
        BY <2>3, <3>1 DEF SectionsKept
      <4>2. ss[k].segments \in Seq(Block)
        BY <1>1, <1>2, <2>3, <3>1
      <4>3. ClosedAt(d, i, ss[k].segments)
        BY <1>1, <1>3, <4>1, <4>2, SectionGrows
      <4> QED BY <2>3, <2>4, <3>1, <4>3
    <3>2. CASE k = n + 1
      <4>1. OpenAt(d, i, <<>>)
        <5>1. <<>> \in Seq(Block)
          OBVIOUS
        <5> QED BY <1>1, <1>3, <5>1, SectionGrows
      <4> QED BY <2>1, <2>4, <3>2, <4>1
    <3> QED BY <2>4, <3>1, <3>2
  <2>7. LettersPer(t) = Append(LettersPer(ss), {})
    <3>1. LettersIn(<<>>) = {}
      BY <1>1, LettersOfSegments
    <3>2. PICK Ls \in Seq(SUBSET Nat) : Ls = LettersPer(ss) /\ Len(Ls) = n
      BY <1>1, <1>2, <2>3
    <3>3. PICK Ms \in Seq(SUBSET Nat) : Ms = LettersPer(t) /\ Len(Ms) = n + 1
      BY <1>2, <2>4
    <3>4. Ms[n + 1] = {} /\ \A k \in 1..n : Ms[k] = Ls[k]
      <4>1. \A k \in 1..n : k \in 1..(n + 1)
        OBVIOUS
      <4>2. Ms[n + 1] = {}
        <5>1. n + 1 \in 1..Len(t)
          BY <2>4
        <5>2. LettersPer(t)[n + 1] = LettersIn(t[n + 1].segments)
          BY <1>2, <2>4, <5>1
        <5> QED BY <2>1, <2>4, <3>1, <3>3, <5>2
      <4>3. ASSUME NEW k \in 1..n PROVE Ms[k] = Ls[k]
        <5>1. LettersPer(t)[k] = LettersIn(t[k].segments)
          BY <1>2, <2>4, <4>1
        <5>2. LettersPer(ss)[k] = LettersIn(ss[k].segments)
          BY <1>1, <1>2, <2>3
        <5> QED BY <2>4, <3>2, <3>3, <5>1, <5>2
      <4> QED BY <4>2, <4>3
    <3>5. /\ Append(Ls, {}) \in Seq(SUBSET Nat) /\ Len(Append(Ls, {})) = n + 1
          /\ Append(Ls, {})[n + 1] = {} /\ \A k \in 1..n : Append(Ls, {})[k] = Ls[k]
      BY <3>2, AppendProperties
    <3>6. \A k \in 1..(n + 1) : Ms[k] = Append(Ls, {})[k]
      <4>1. \A k \in 1..(n + 1) : k \in 1..n \/ k = n + 1
        OBVIOUS
      <4> QED BY <3>4, <3>5, <4>1
    <3>7. Ms = Append(Ls, {})
      BY <3>3, <3>5, <3>6, SeqEqual
    <3> QED BY <3>2, <3>3, <3>7
  <2>8. Lined(LettersPer(t)) /\ Together(LettersPer(t)) = BodyUpTo(d, i)
    <3>1. {} \in SUBSET Nat /\ Before(Together(LettersPer(ss)), {})
      BY DEF Before
    <3>2. BodyUpTo(d, i) = BodyUpTo(d, i - 1) \cup {}
      BY <1>3, NextBody
    <3> QED BY <1>1, <1>2, <2>7, <3>1, <3>2, LinedAppend
  <2>9. t # <<>>
    BY <2>4
  <2> QED BY <2>4, <2>5, <2>6, <2>8, <2>9 DEF SectionsKept
<1>4. CASE d[i].kind # "heading"
  <2>1. PICK open \in Seq(AnySection), next \in AnySection :
           /\ open # <<>> /\ Len(open) \in 1..Len(open)
           /\ IF ss = <<>> THEN Len(open) = 1 /\ open[1].segments = <<>> ELSE open = ss
           /\ next.segments = Append(open[Len(open)].segments, d[i])
           /\ AddToSections(ss, d[i]) = [open EXCEPT ![Len(open)] = next]
    BY <1>1, <1>4, BodyAdded
  <2>2. PICK n \in Nat : n = Len(open) /\ n \in 1..n
    BY <2>1
  <2>3. PICK t : t = [open EXCEPT ![n] = next]
    OBVIOUS
  <2>4. t \in Seq(AnySection) /\ Len(t) = n /\ t[n] = next /\ \A k \in 1..n : k # n => t[k] = open[k]
    BY <2>1, <2>2, <2>3, ExceptSeq
  <2>5. /\ \A k \in 1..n : /\ k < n => ClosedAt(d, i - 1, open[k].segments)
                           /\ k = n => OpenAt(d, i - 1, open[k].segments)
        /\ Lined(LettersPer(open)) /\ Together(LettersPer(open)) = BodyUpTo(d, i - 1)
    <3>1. CASE ss # <<>>
      BY <2>1, <2>2, <3>1 DEF SectionsKept
    <3>2. CASE ss = <<>>
      <4>1. n = 1 /\ open[1].segments = <<>> /\ i - 1 = 0 /\ \A k \in 1..1 : k = 1
        BY <1>1, <2>1, <2>2, <3>2
      <4>2. OpenAt(d, i - 1, <<>>)
        <5>1. Len(<<>>) = 0 /\ 1..0 = {} /\ 1 \in 1..(0 + 1) /\ 1 + 0 = 0 + 1
          OBVIOUS
        <5>2. SectionFrom(d, 1, <<>>)
          BY <5>1 DEF SectionFrom, Stands
        <5> QED BY <4>1, <5>1, <5>2 DEF OpenAt
      <4>3. Len(LettersPer(open)) = 1 /\ LettersPer(open)[1] = {}
        <5>1. LettersIn(<<>>) = {}
          BY <1>1, LettersOfSegments
        <5>2. Len(LettersPer(open)) = 1 /\ LettersPer(open)[1] = LettersIn(open[1].segments)
          BY <1>2, <2>2, <4>1
        <5> QED BY <4>1, <5>1, <5>2
      <4>4. BodyUpTo(d, i - 1) = {}
        <5>1. 1..0 = {}
          OBVIOUS
        <5> QED BY <4>1, <5>1 DEF BodyUpTo
      <4>5. Lined(LettersPer(open)) /\ Together(LettersPer(open)) = {}
        BY <4>1, <4>3 DEF Lined, Together, Before
      <4> QED BY <4>1, <4>2, <4>4, <4>5
    <3> QED BY <3>1, <3>2
  <2>6. ASSUME NEW k \in 1..Len(t)
        PROVE  /\ k < Len(t) => ClosedAt(d, i, t[k].segments)
               /\ k = Len(t) => OpenAt(d, i, t[k].segments)
    <3>1. open[k].segments \in Seq(Block) /\ k \in 1..n
      BY <1>2, <2>1, <2>2, <2>4
    <3>2. CASE k < n
      <4>1. ClosedAt(d, i, open[k].segments) /\ k # n
        BY <1>1, <2>5, <3>1, <3>2, SectionGrows
      <4> QED BY <2>4, <3>1, <3>2, <4>1
    <3>3. CASE k = n
      <4>1. OpenAt(d, i, Append(open[k].segments, d[i]))
        BY <1>1, <1>4, <2>5, <3>1, <3>3, SectionGrows
      <4>2. t[k].segments = Append(open[k].segments, d[i]) /\ Len(t) = k
        BY <2>1, <2>2, <2>4, <3>3
      <4> QED BY <4>1, <4>2
    <3> QED BY <2>4, <3>1, <3>2, <3>3
  <2>7. LettersPer(t) = [LettersPer(open) EXCEPT ![n] = @ \cup Letters(d[i].text)]
    <3>1. PICK Ls \in Seq(SUBSET Nat) : Ls = LettersPer(open) /\ Len(Ls) = n
      BY <1>2, <2>1, <2>2
    <3>2. PICK Ms \in Seq(SUBSET Nat) : Ms = LettersPer(t) /\ Len(Ms) = n
      BY <1>2, <2>4
    <3>3. Letters(d[i].text) \in SUBSET Nat /\ LettersIn(next.segments) = Ls[n] \cup Letters(d[i].text)
      <4>1. open[n].segments \in Seq(Block) /\ Ls[n] = LettersIn(open[n].segments)
        BY <1>2, <2>1, <2>2, <3>1
      <4> QED BY <1>1, <2>1, <2>2, <4>1, LettersOfSegments
    <3>4. Ms[n] = Ls[n] \cup Letters(d[i].text) /\ \A k \in 1..n : k # n => Ms[k] = Ls[k]
      <4>1. Ms[n] = LettersIn(next.segments)
        BY <1>2, <2>2, <2>4, <3>2
      <4>2. \A k \in 1..n : k # n => Ms[k] = Ls[k]
        BY <1>2, <2>1, <2>2, <2>4, <3>1, <3>2
      <4> QED BY <3>3, <4>1, <4>2
    <3>5. PICK K \in SUBSET Nat : K = Ls[n] \cup Letters(d[i].text)
      <4>1. Ls[n] \in SUBSET Nat
        BY <2>2, <3>1
      <4>2. Ls[n] \cup Letters(d[i].text) \in SUBSET Nat
        BY <3>3, <4>1
      <4> QED BY <4>2
    <3>6. /\ [Ls EXCEPT ![n] = K] \in Seq(SUBSET Nat) /\ Len([Ls EXCEPT ![n] = K]) = n
          /\ \A k \in 1..n : [Ls EXCEPT ![n] = K][k] = IF k = n THEN K ELSE Ls[k]
      BY <2>2, <3>1, <3>5, ExceptSeq
    <3>7. \A k \in 1..n : Ms[k] = [Ls EXCEPT ![n] = K][k]
      BY <3>4, <3>5, <3>6
    <3>8. Ms = [Ls EXCEPT ![n] = K]
      BY <3>2, <3>6, <3>7, SeqEqual
    <3> QED BY <3>1, <3>2, <3>5, <3>8
  <2>8. Lined(LettersPer(t)) /\ Together(LettersPer(t)) = BodyUpTo(d, i)
    <3>1. Letters(d[i].text) \in SUBSET Nat
      BY <1>1, LettersOfSegments
    <3>2. /\ Before(BodyUpTo(d, i - 1), Letters(d[i].text))
          /\ BodyUpTo(d, i) = BodyUpTo(d, i - 1) \cup Letters(d[i].text)
      BY <1>4, NextBody
    <3>3. LettersPer(open) \in Seq(SUBSET Nat) /\ Len(LettersPer(open)) = n /\ LettersPer(open) # <<>>
      BY <1>2, <2>1, <2>2
    <3> QED BY <2>5, <2>7, <3>1, <3>2, <3>3, LinedExtend
  <2>9. t # <<>>
    BY <2>2, <2>4
  <2>10. AddToSections(ss, d[i]) = t
    BY <2>1, <2>2, <2>3
  <2> QED BY <2>4, <2>6, <2>8, <2>9, <2>10 DEF SectionsKept
<1> QED BY <1>3, <1>4

\* So the sections of a document are the blocks between its headings.
LEMMA SectionsKeep ==
  ASSUME NEW d \in Documents
  PROVE  Sections(d) \in SectionsKept(d, Len(d))
<1> DEFINE n == Len(d)
           A == [i \in 0..n |-> SectionsKept(d, i)]
<1>1. /\ d \in Seq(Block) /\ n \in Nat /\ A[0] = SectionsKept(d, 0) /\ A[n] = SectionsKept(d, n)
      /\ \A i \in 1..n : A[i] = SectionsKept(d, i) /\ A[i - 1] = SectionsKept(d, i - 1)
  <2>1. d \in Seq(Block) /\ n \in Nat
    BY DocType
  <2> HIDE DEF n
  <2> QED BY <2>1
<1>2. <<>> \in SectionsKept(d, 0)
  <2>1. <<>> \in Seq(AnySection) /\ Len(<<>>) = 0 /\ 1..0 = {}
    OBVIOUS
  <2>2. Len(LettersPer(<<>>)) = 0
    BY <2>1 DEF LettersPer
  <2>3. BodyUpTo(d, 0) = {}
    BY <2>1 DEF BodyUpTo
  <2> QED BY <2>1, <2>2, <2>3 DEF SectionsKept, Lined, Together
<1>3. \A i \in 1..n : \A ss \in SectionsKept(d, i - 1) :
        ss \in Seq(AnySection) /\ AddToSections(ss, d[i]) \in SectionsKept(d, i)
  <2> SUFFICES ASSUME NEW i \in 1..n, NEW ss \in SectionsKept(d, i - 1)
               PROVE  ss \in Seq(AnySection) /\ AddToSections(ss, d[i]) \in SectionsKept(d, i)
    OBVIOUS
  <2>1. ss \in Seq(AnySection)
    BY DEF SectionsKept
  <2> QED BY <2>1, SectionsKeptStep
<1> HIDE DEF A
<1>4. Sections(d) \in A[n]
  BY <1>1, <1>2, <1>3, SectionsFold
<1> QED BY <1>1, <1>4

\* Segment a of s starts a clause; the segments of a clause that it starts.
Starts(s, a) == a = 1 \/ s[a].kind = "clause" \/ s[a].page # s[a - 1].page
ClauseFrom(s, a, c) ==
  /\ Stands(s, a, c) /\ c # <<>> /\ Starts(s, a)
  /\ \A m \in (a + 1)..(a + Len(c) - 1) : ~Starts(s, m)

\* A clause that still goes on after i segments, and one that the start of another
\* has ended.
GoesOnAt(s, i, c) == \E a \in 1..i : ClauseFrom(s, a, c) /\ a + Len(c) = i + 1
EndedAt(s, i, c) ==
  \E a \in 1..i : ClauseFrom(s, a, c) /\ a + Len(c) <= i /\ Starts(s, a + Len(c))

\* The clauses of the first i segments, and the letters of each.
LettersEach(cs) == [k \in 1..Len(cs) |-> LettersIn(cs[k])]
ClausesKept(s, i) ==
  {cs \in Seq(ClausesOf(Block)) :
     /\ cs = <<>> => i = 0
     /\ \A k \in 1..Len(cs) : /\ k < Len(cs) => EndedAt(s, i, cs[k])
                              /\ k = Len(cs) => GoesOnAt(s, i, cs[k])
     /\ Lined(LettersEach(cs)) /\ Together(LettersEach(cs)) = LettersUpTo(TextsIn(s), i)}

\* One segment more, for a clause that has ended, for one that has not, and for
\* the one that it starts.
LEMMA ClauseGrows ==
  ASSUME NEW s \in Seq(Block), NEW i \in 1..Len(s), NEW c \in Seq(Block)
  PROVE  /\ EndedAt(s, i - 1, c) => EndedAt(s, i, c)
         /\ GoesOnAt(s, i - 1, c) /\ Starts(s, i) => EndedAt(s, i, c)
         /\ GoesOnAt(s, i - 1, c) /\ ~Starts(s, i) => GoesOnAt(s, i, Append(c, s[i]))
         /\ Starts(s, i) => GoesOnAt(s, i, <<s[i]>>)
<1>1. Len(s) \in Nat /\ Len(c) \in Nat
  OBVIOUS
<1>2. ASSUME EndedAt(s, i - 1, c) PROVE EndedAt(s, i, c)
  <2>1. PICK a \in 1..(i - 1) : ClauseFrom(s, a, c) /\ a + Len(c) <= i - 1 /\ Starts(s, a + Len(c))
    BY <1>2 DEF EndedAt
  <2>2. a \in 1..i /\ a + Len(c) <= i
    BY <1>1, <2>1
  <2> QED BY <2>1, <2>2 DEF EndedAt
<1>3. ASSUME GoesOnAt(s, i - 1, c)
      PROVE  /\ Starts(s, i) => EndedAt(s, i, c)
             /\ ~Starts(s, i) => GoesOnAt(s, i, Append(c, s[i]))
  <2>1. PICK a \in 1..(i - 1) : ClauseFrom(s, a, c) /\ a + Len(c) = i - 1 + 1
    BY <1>3 DEF GoesOnAt
  <2>2. a \in 1..i /\ a + Len(c) = i
    BY <1>1, <2>1
  <2>3. ASSUME Starts(s, i) PROVE EndedAt(s, i, c)
    <3>1. a + Len(c) <= i /\ Starts(s, a + Len(c))
      BY <2>2, <2>3
    <3> QED BY <2>1, <2>2, <3>1 DEF EndedAt
  <2>4. ASSUME ~Starts(s, i) PROVE GoesOnAt(s, i, Append(c, s[i]))
    <3>1. PICK n \in Nat : n = Len(c)
      BY <1>1
    <3>2. PICK t : /\ t = Append(c, s[i]) /\ Len(t) = n + 1 /\ t[n + 1] = s[i]
                   /\ \A k \in 1..n : t[k] = c[k]
      <4>1. s[i] \in Block
        OBVIOUS
      <4>2. /\ Len(Append(c, s[i])) = Len(c) + 1 /\ Append(c, s[i])[Len(c) + 1] = s[i]
            /\ \A k \in 1..Len(c) : Append(c, s[i])[k] = c[k]
        BY <4>1, AppendProperties
      <4> QED BY <3>1, <4>2
    <3>3. \A k \in 1..Len(t) : k \in 1..n \/ k = n + 1
      BY <3>1, <3>2
    <3>4. Stands(s, a, t)
      <4>1. a + (n + 1) - 1 = i
        BY <2>2, <3>1
      <4>2. \A k \in 1..n : a + k - 1 \in 1..Len(s) /\ c[k] = s[a + k - 1]
        BY <2>1, <3>1 DEF ClauseFrom, Stands
      <4> QED BY <3>2, <3>3, <4>1, <4>2 DEF Stands
    <3>5. t # <<>>
      BY <3>1, <3>2
    <3>6. a \in Nat /\ a + n = i /\ a + Len(t) - 1 = i /\ a + Len(t) = i + 1
      <4>1. a \in Nat /\ n \in Nat /\ a + n = i /\ i \in Nat
        BY <2>2, <3>1
      <4> QED BY <3>2, <4>1
    <3>7. \A m \in (a + 1)..(a + Len(t) - 1) : ~Starts(s, m)
      <4>1. \A m \in (a + 1)..(a + Len(t) - 1) : m \in (a + 1)..(a + n - 1) \/ m = i
        BY <3>6
      <4> QED BY <2>1, <2>4, <3>1, <4>1 DEF ClauseFrom
    <3>8. ClauseFrom(s, a, t) /\ a + Len(t) = i + 1
      BY <2>1, <3>4, <3>5, <3>7, <3>6 DEF ClauseFrom
    <3> QED BY <2>2, <3>2, <3>8 DEF GoesOnAt
  <2> QED BY <2>3, <2>4
<1>4. ASSUME Starts(s, i) PROVE GoesOnAt(s, i, <<s[i]>>)
  <2>1. PICK t : t = <<s[i]>> /\ Len(t) = 1 /\ t[1] = s[i] /\ t # <<>>
    <3>1. PICK b : b = s[i]
      OBVIOUS
    <3>2. Len(<<b>>) = 1 /\ <<b>>[1] = b /\ <<b>> # <<>>
      OBVIOUS
    <3> QED BY <3>1, <3>2
  <2>2. i \in 1..i /\ i + 1 - 1 = i /\ (\A m \in (i + 1)..i : FALSE) /\ \A k \in 1..1 : k = 1
    OBVIOUS
  <2>3. ClauseFrom(s, i, t)
    BY <1>4, <2>1, <2>2 DEF ClauseFrom, Stands
  <2> QED BY <2>1, <2>2, <2>3 DEF GoesOnAt
<1> QED BY <1>2, <1>3, <1>4

\* The letters of clauses, of which one is put behind or made anew.
LEMMA LettersEachType ==
  ASSUME NEW cs \in Seq(Seq(Block))
  PROVE  /\ LettersEach(cs) \in Seq(SUBSET Nat) /\ Len(LettersEach(cs)) = Len(cs)
         /\ \A k \in 1..Len(cs) : LettersEach(cs)[k] = LettersIn(cs[k])
<1>1. Len(cs) \in Nat /\ \A k \in 1..Len(cs) : cs[k] \in Seq(Block)
  OBVIOUS
<1>2. \A k \in 1..Len(cs) : LettersIn(cs[k]) \in SUBSET Nat
  <2> SUFFICES ASSUME NEW k \in 1..Len(cs) PROVE LettersIn(cs[k]) \in SUBSET Nat
    OBVIOUS
  <2>1. NoHeading \in Block
    BY DEF Block, NoHeading, Kinds
  <2> QED BY <1>1, <2>1, LettersOfSegments
<1>3. LettersEach(cs) = [k \in 1..Len(cs) |-> LettersIn(cs[k])]
  BY DEF LettersEach
<1>4. LettersEach(cs) \in [1..Len(cs) -> SUBSET Nat] /\ DOMAIN LettersEach(cs) = 1..Len(cs)
  BY <1>2, <1>3
<1>5. LettersEach(cs) \in Seq(SUBSET Nat)
  <2> DEFINE T == SUBSET Nat
  <2>1. LettersEach(cs) \in [1..Len(cs) -> T]
    BY <1>4
  <2> HIDE DEF T
  <2>2. LettersEach(cs) \in Seq(T)
    BY <1>1, <2>1, SeqDef
  <2> QED BY <2>2 DEF T
<1>6. Len(LettersEach(cs)) = Len(cs)
  <2>1. PICK es \in Seq(SUBSET Nat) : es = LettersEach(cs) /\ DOMAIN es = 1..Len(cs)
    BY <1>4, <1>5
  <2> QED BY <1>1, <2>1
<1> QED BY <1>3, <1>5, <1>6

\* The letters of one clause more, or of another in a place.
LEMMA LettersEachMore ==
  ASSUME NEW cs \in Seq(Seq(Block)), NEW c \in Seq(Block)
  PROVE  /\ LettersEach(Append(cs, c)) = Append(LettersEach(cs), LettersIn(c))
         /\ \A n \in 1..Len(cs) :
              LettersEach([cs EXCEPT ![n] = c]) = [LettersEach(cs) EXCEPT ![n] = LettersIn(c)]
<1>1. PICK Ls \in Seq(SUBSET Nat) : /\ Ls = LettersEach(cs) /\ Len(Ls) = Len(cs)
                                    /\ \A k \in 1..Len(cs) : Ls[k] = LettersIn(cs[k])
  BY LettersEachType
<1>2. PICK K \in SUBSET Nat : K = LettersIn(c)
  <2>1. NoHeading \in Block
    BY DEF Block, NoHeading, Kinds
  <2> QED BY <2>1, LettersOfSegments
<1>3. LettersEach(Append(cs, c)) = Append(Ls, K)
  <2>1. PICK n \in Nat : n = Len(cs)
    OBVIOUS
  <2>2. PICK t \in Seq(Seq(Block)) : /\ t = Append(cs, c) /\ Len(t) = n + 1 /\ t[n + 1] = c
                                     /\ \A k \in 1..n : t[k] = cs[k]
    <3>1. /\ Append(cs, c) \in Seq(Seq(Block))
          /\ Len(Append(cs, c)) = Len(cs) + 1 /\ Append(cs, c)[Len(cs) + 1] = c
          /\ \A k \in 1..Len(cs) : Append(cs, c)[k] = cs[k]
      BY AppendProperties
    <3> QED BY <2>1, <3>1
  <2>3. PICK Ms \in Seq(SUBSET Nat) : /\ Ms = LettersEach(t) /\ Len(Ms) = n + 1
                                      /\ \A k \in 1..(n + 1) : Ms[k] = LettersIn(t[k])
    BY <2>2, LettersEachType
  <2>4. PICK Ns \in Seq(SUBSET Nat) : /\ Ns = Append(Ls, K) /\ Len(Ns) = n + 1 /\ Ns[n + 1] = K
                                      /\ \A k \in 1..n : Ns[k] = Ls[k]
    <3>1. /\ Append(Ls, K) \in Seq(SUBSET Nat)
          /\ Len(Append(Ls, K)) = Len(Ls) + 1 /\ Append(Ls, K)[Len(Ls) + 1] = K
          /\ \A k \in 1..Len(Ls) : Append(Ls, K)[k] = Ls[k]
      BY AppendProperties
    <3> QED BY <1>1, <2>1, <3>1
  <2>5. \A k \in 1..(n + 1) : Ms[k] = Ns[k]
    <3>1. \A k \in 1..(n + 1) : k \in 1..n \/ k = n + 1
      OBVIOUS
    <3> QED BY <1>1, <1>2, <2>1, <2>2, <2>3, <2>4, <3>1
  <2>6. Ms = Ns
    BY <2>3, <2>4, <2>5, SeqEqual
  <2> QED BY <2>2, <2>3, <2>4, <2>6
<1>4. ASSUME NEW n \in 1..Len(cs) PROVE LettersEach([cs EXCEPT ![n] = c]) = [Ls EXCEPT ![n] = K]
  <2>1. PICK t \in Seq(Seq(Block)) : /\ t = [cs EXCEPT ![n] = c] /\ Len(t) = Len(cs)
                                     /\ \A k \in 1..Len(cs) : t[k] = IF k = n THEN c ELSE cs[k]
    <3>1. /\ [cs EXCEPT ![n] = c] \in Seq(Seq(Block))
          /\ Len([cs EXCEPT ![n] = c]) = Len(cs)
          /\ \A k \in 1..Len(cs) : [cs EXCEPT ![n] = c][k] = IF k = n THEN c ELSE cs[k]
      BY ExceptSeq
    <3> QED BY <3>1
  <2>2. PICK Ms \in Seq(SUBSET Nat) : /\ Ms = LettersEach(t) /\ Len(Ms) = Len(cs)
                                      /\ \A k \in 1..Len(cs) : Ms[k] = LettersIn(t[k])
    BY <2>1, LettersEachType
  <2>3. PICK Ns \in Seq(SUBSET Nat) : /\ Ns = [Ls EXCEPT ![n] = K] /\ Len(Ns) = Len(cs)
                                      /\ \A k \in 1..Len(cs) : Ns[k] = IF k = n THEN K ELSE Ls[k]
    <3>1. n \in 1..Len(Ls)
      BY <1>1
    <3>2. /\ [Ls EXCEPT ![n] = K] \in Seq(SUBSET Nat)
          /\ Len([Ls EXCEPT ![n] = K]) = Len(Ls)
          /\ \A k \in 1..Len(Ls) : [Ls EXCEPT ![n] = K][k] = IF k = n THEN K ELSE Ls[k]
      BY <3>1, ExceptSeq
    <3> QED BY <1>1, <3>2
  <2>4. \A k \in 1..Len(cs) : Ms[k] = Ns[k]
    <3> SUFFICES ASSUME NEW k \in 1..Len(cs) PROVE Ms[k] = Ns[k]
      OBVIOUS
    <3>1. Ms[k] = LettersIn(IF k = n THEN c ELSE cs[k])
      BY <2>1, <2>2
    <3>2. Ns[k] = IF k = n THEN LettersIn(c) ELSE LettersIn(cs[k])
      BY <1>1, <1>2, <2>3
    <3> QED BY <3>1, <3>2
  <2>5. Ms = Ns
    BY <2>2, <2>3, <2>4, SeqEqual
  <2> QED BY <2>1, <2>2, <2>3, <2>5
<1> QED BY <1>1, <1>2, <1>3, <1>4

\* The step of _group_into_clauses keeps that: the page of a clause's first
\* segment is that of its last.
LEMMA ClausesKeptStep ==
  ASSUME NEW s \in Seq(Block), InTurn(TextsIn(s)), NEW i \in 1..Len(s), NEW cs \in ClausesKept(s, i - 1)
  PROVE  AddToClauses(cs, s[i]) \in ClausesKept(s, i)
<1> DEFINE ts == TextsIn(s)
<1>1. /\ s[i] \in Block /\ i \in Nat /\ i # 0 /\ Len(s) \in Nat
      /\ cs \in Seq(ClausesOf(Block)) /\ (cs = <<>> => i - 1 = 0)
      /\ Lined(LettersEach(cs)) /\ Together(LettersEach(cs)) = LettersUpTo(ts, i - 1)
  BY DEF ClausesKept
<1>2. PICK n \in Nat : n = Len(cs)
  BY <1>1
<1>3. ClausesOf(Block) \subseteq Seq(Block) /\ cs \in Seq(Seq(Block))
  <2>1. ClausesOf(Block) \subseteq Seq(Block)
    BY DEF ClausesOf
  <2> QED BY <1>1, <2>1, SeqMonotonic
<1>4. AddToClauses(cs, s[i]) \in Seq(ClausesOf(Block))
  BY <1>1, AddToClausesType
<1>5. /\ LettersEach(cs) \in Seq(SUBSET Nat) /\ Len(LettersEach(cs)) = n
      /\ \A k \in 1..n : LettersEach(cs)[k] = LettersIn(cs[k])
  BY <1>2, <1>3, LettersEachType
<1>6. /\ Before(LettersUpTo(ts, i - 1), Letters(s[i].text))
      /\ LettersUpTo(ts, i) = LettersUpTo(ts, i - 1) \cup Letters(s[i].text)
      /\ Letters(s[i].text) \in SUBSET Nat /\ LettersIn(<<s[i]>>) = Letters(s[i].text)
  <2>1. Len(ts) = Len(s) /\ ts[i] = s[i].text
    BY DEF TextsIn
  <2>2. Before(LettersUpTo(ts, i - 1), Letters(ts[i]))
    BY <1>1, <2>1, TurnPrefix
  <2>3. LettersUpTo(ts, i) = LettersUpTo(ts, i - 1) \cup Letters(ts[i])
    BY <1>1, OneMore
  <2> QED BY <1>1, <2>1, <2>2, <2>3, LettersOfSegments
<1>7. CASE Starts(s, i)
  <2>1. AddToClauses(cs, s[i]) = Append(cs, <<s[i]>>)
    <3>1. CASE cs = <<>> \/ s[i].kind = "clause"
      BY <3>1 DEF AddToClauses
    <3>2. CASE cs # <<>> /\ s[i].page # s[i - 1].page
      <4>1. n \in 1..n /\ n = Len(cs)
        BY <1>2, <3>2
      <4>2. PICK a \in 1..(i - 1) : ClauseFrom(s, a, cs[n]) /\ a + Len(cs[n]) = i - 1 + 1
        BY <4>1 DEF ClausesKept, GoesOnAt
      <4>3. /\ cs[n] \in Seq(Block) /\ cs[n] # <<>>
            /\ \A k \in 1..Len(cs[n]) : cs[n][k].page = Head(cs[n]).page
        BY <1>1, <4>1 DEF ClausesOf
      <4>4. Len(cs[n]) \in 1..Len(cs[n]) /\ a + Len(cs[n]) - 1 = i - 1
        BY <4>2, <4>3
      <4>5. cs[n][Len(cs[n])] = s[i - 1]
        BY <4>2, <4>4 DEF ClauseFrom, Stands
      <4>6. s[i - 1].page = Head(Last(cs)).page
        BY <4>1, <4>3, <4>4, <4>5 DEF Last
      <4> QED BY <3>2, <4>6 DEF AddToClauses
    <3>3. cs # <<>> => i # 1
      <4> SUFFICES ASSUME cs # <<>>, i = 1 PROVE FALSE
        OBVIOUS
      <4>1. n \in 1..n /\ n = Len(cs) /\ 1..0 = {}
        BY <1>2
      <4> QED BY <4>1 DEF ClausesKept, GoesOnAt
    <3> QED BY <1>7, <3>1, <3>2, <3>3 DEF Starts
  <2>2. PICK c \in Seq(Block) : c = <<s[i]>>
    <3>1. PICK b \in Block : b = s[i]
      BY <1>1
    <3>2. <<b>> \in Seq(Block)
      OBVIOUS
    <3> QED BY <3>1, <3>2
  <2>3. PICK t \in Seq(Seq(Block)) : /\ t = Append(cs, c) /\ Len(t) = n + 1 /\ t[n + 1] = c
                                     /\ \A k \in 1..n : t[k] = cs[k]
    <3>1. /\ Append(cs, c) \in Seq(Seq(Block))
          /\ Len(Append(cs, c)) = Len(cs) + 1 /\ Append(cs, c)[Len(cs) + 1] = c
          /\ \A k \in 1..Len(cs) : Append(cs, c)[k] = cs[k]
      BY <1>3, AppendProperties
    <3> QED BY <1>2, <3>1
  <2>4. ASSUME NEW k \in 1..Len(t)
        PROVE  (k < Len(t) => EndedAt(s, i, t[k])) /\ (k = Len(t) => GoesOnAt(s, i, t[k]))
    <3>1. CASE k \in 1..n
      <4>1. EndedAt(s, i - 1, cs[k]) \/ GoesOnAt(s, i - 1, cs[k])
        BY <1>2, <3>1 DEF ClausesKept
      <4>2. cs[k] \in Seq(Block)
        BY <1>2, <1>3, <3>1
      <4>3. EndedAt(s, i, cs[k])
        BY <1>7, <4>1, <4>2, ClauseGrows
      <4> QED BY <2>3, <3>1, <4>3
    <3>2. CASE k = n + 1
      <4>1. GoesOnAt(s, i, <<s[i]>>)
        BY <1>7, <2>2, ClauseGrows
      <4>2. t[k] = <<s[i]>> /\ ~(k < Len(t))
        BY <2>2, <2>3, <3>2
      <4> QED BY <4>1, <4>2
    <3> QED BY <2>3, <3>1, <3>2
  <2>5. Lined(LettersEach(t)) /\ Together(LettersEach(t)) = LettersUpTo(ts, i)
    <3>1. LettersEach(t) = Append(LettersEach(cs), Letters(s[i].text))
      <4>1. LettersEach(Append(cs, c)) = Append(LettersEach(cs), LettersIn(c))
        BY <1>3, LettersEachMore
      <4>2. LettersIn(c) = Letters(s[i].text)
        BY <1>6, <2>2
      <4> QED BY <2>3, <4>1, <4>2
    <3> HIDE DEF ts
    <3> QED BY <1>1, <1>5, <1>6, <3>1, LinedAppend
  <2>6. t # <<>>
    <3>1. Len(t) # 0
      BY <2>3
    <3> QED BY <3>1
  <2>7. t = AddToClauses(cs, s[i])
    BY <2>1, <2>2, <2>3
  <2> QED BY <1>4, <2>4, <2>5, <2>6, <2>7 DEF ClausesKept
<1>8. CASE ~Starts(s, i)
  <2>1. i # 1 /\ s[i].kind # "clause" /\ s[i].page = s[i - 1].page
    BY <1>8 DEF Starts
  <2>2. cs # <<>> /\ n \in 1..n
    BY <1>1, <1>2, <2>1
  <2>3. GoesOnAt(s, i - 1, cs[n])
    BY <1>2, <2>2 DEF ClausesKept
  <2>4. PICK a \in 1..(i - 1) : ClauseFrom(s, a, cs[n]) /\ a + Len(cs[n]) = i - 1 + 1
    BY <2>3 DEF GoesOnAt
  <2>5. /\ cs[n] \in Seq(Block) /\ cs[n] # <<>>
        /\ \A k \in 1..Len(cs[n]) : cs[n][k].page = Head(cs[n]).page
    BY <1>1, <1>2, <2>2 DEF ClausesOf
  <2>6. s[i].page = Head(Last(cs)).page
    <3>1. Len(cs[n]) \in 1..Len(cs[n]) /\ a + Len(cs[n]) - 1 = i - 1
      BY <2>4, <2>5
    <3>2. cs[n][Len(cs[n])] = s[i - 1]
      BY <2>4, <3>1 DEF ClauseFrom, Stands
    <3> QED BY <1>2, <2>1, <2>5, <3>1, <3>2 DEF Last
  <2>7. AddToClauses(cs, s[i]) = [cs EXCEPT ![n] = Append(cs[n], s[i])]
    BY <1>2, <2>1, <2>2, <2>6 DEF AddToClauses
  <2>8. PICK c \in Seq(Block) : c = Append(cs[n], s[i])
    BY <1>1, <2>5, AppendProperties
  <2>9. PICK t \in Seq(Seq(Block)) : /\ t = [cs EXCEPT ![n] = c] /\ Len(t) = n
                                     /\ \A k \in 1..n : t[k] = IF k = n THEN c ELSE cs[k]
    <3>1. n \in 1..Len(cs)
      BY <1>2, <2>2
    <3>2. /\ [cs EXCEPT ![n] = c] \in Seq(Seq(Block))
          /\ Len([cs EXCEPT ![n] = c]) = Len(cs)
          /\ \A k \in 1..Len(cs) : [cs EXCEPT ![n] = c][k] = IF k = n THEN c ELSE cs[k]
      BY <1>3, <3>1, ExceptSeq
    <3> QED BY <1>2, <3>2
  <2>10. ASSUME NEW k \in 1..Len(t)
         PROVE  (k < Len(t) => EndedAt(s, i, t[k])) /\ (k = Len(t) => GoesOnAt(s, i, t[k]))
    <3>1. CASE k < n
      <4>1. EndedAt(s, i - 1, cs[k])
        BY <1>2, <2>9, <3>1 DEF ClausesKept
      <4>2. cs[k] \in Seq(Block)
        BY <1>2, <1>3, <2>9
      <4>3. EndedAt(s, i, cs[k])
        BY <4>1, <4>2, ClauseGrows
      <4> QED BY <2>9, <3>1, <4>3
    <3>2. CASE k = n
      <4>1. GoesOnAt(s, i, Append(cs[n], s[i]))
        BY <1>8, <2>3, <2>5, ClauseGrows
      <4> QED BY <2>8, <2>9, <3>2, <4>1
    <3> QED BY <2>9, <3>1, <3>2
  <2>11. Lined(LettersEach(t)) /\ Together(LettersEach(t)) = LettersUpTo(ts, i)
    <3>1. LettersEach(t) = [LettersEach(cs) EXCEPT ![n] = LettersIn(c)]
      <4>1. n \in 1..Len(cs)
        BY <1>2, <2>2
      <4>2. LettersEach([cs EXCEPT ![n] = c]) = [LettersEach(cs) EXCEPT ![n] = LettersIn(c)]
        BY <1>3, <4>1, LettersEachMore
      <4> QED BY <2>9, <4>2
    <3>2. LettersIn(c) = LettersEach(cs)[n] \cup Letters(s[i].text)
      <4>1. LettersIn(Append(cs[n], s[i])) = LettersIn(cs[n]) \cup Letters(s[i].text)
        BY <1>1, <2>5, LettersOfSegments
      <4> QED BY <1>5, <2>2, <2>8, <4>1
    <3>3. LettersEach(cs) # <<>>
      BY <1>5, <2>2
    <3>4. PICK Ls \in Seq(SUBSET Nat) : Ls = LettersEach(cs)
      BY <1>5
    <3>5. PICK K \in SUBSET Nat : K = Letters(s[i].text)
      BY <1>6
    <3>6. LettersEach(t) = [Ls EXCEPT ![Len(Ls)] = @ \cup K]
      BY <1>5, <3>1, <3>2, <3>4, <3>5
    <3>7. Lined(Ls) /\ Ls # <<>> /\ Before(Together(Ls), K) /\ Together(Ls) \cup K = LettersUpTo(ts, i)
      BY <1>1, <1>6, <3>3, <3>4, <3>5
    <3> HIDE DEF ts
    <3> QED BY <3>6, <3>7, LinedExtend
  <2>12. t # <<>>
    BY <2>2, <2>9
  <2>13. t = AddToClauses(cs, s[i])
    BY <2>7, <2>8, <2>9
  <2> QED BY <1>4, <2>10, <2>11, <2>12, <2>13 DEF ClausesKept
<1> QED BY <1>7, <1>8

\* So the clauses of some segments begin where segments start them.
LEMMA ClausesKeep ==
  ASSUME NEW s \in Seq(Block), InTurn(TextsIn(s))
  PROVE  Clauses(s) \in ClausesKept(s, Len(s))
<1> DEFINE n == Len(s)
           A == [i \in 0..n |-> ClausesKept(s, i)]
<1>1. /\ n \in Nat /\ A[0] = ClausesKept(s, 0) /\ A[n] = ClausesKept(s, n)
      /\ \A i \in 1..n : A[i] = ClausesKept(s, i) /\ A[i - 1] = ClausesKept(s, i - 1)
  OBVIOUS
<1>2. <<>> \in ClausesKept(s, 0)
  <2>1. <<>> \in Seq(ClausesOf(Block)) /\ Len(<<>>) = 0 /\ 1..0 = {}
    OBVIOUS
  <2>2. Len(LettersEach(<<>>)) = 0
    BY <2>1 DEF LettersEach
  <2>3. LettersUpTo(TextsIn(s), 0) = {}
    BY <2>1 DEF LettersUpTo
  <2> QED BY <2>1, <2>2, <2>3 DEF ClausesKept, Lined, Together
<1>3. \A i \in 1..n : \A cs \in ClausesKept(s, i - 1) :
        cs \in Seq(ClausesOf(Block)) /\ AddToClauses(cs, s[i]) \in ClausesKept(s, i)
  <2> SUFFICES ASSUME NEW i \in 1..n, NEW cs \in ClausesKept(s, i - 1)
               PROVE  cs \in Seq(ClausesOf(Block)) /\ AddToClauses(cs, s[i]) \in ClausesKept(s, i)
    OBVIOUS
  <2>1. cs \in Seq(ClausesOf(Block))
    BY DEF ClausesKept
  <2> QED BY <2>1, ClausesKeptStep
<1> HIDE DEF A
<1>4. Clauses(s) \in A[n]
  BY <1>1, <1>2, <1>3, ClausesFold
<1> QED BY <1>1, <1>4

-----------------------------------------------------------------------------
(* Groups are clauses of the document                                      *)

\* The blocks from b on that segments are: one clause of d.
ClauseAt(d, b, segments) ==
  /\ Stands(d, b, segments) /\ BeginsClause(d, b)
  /\ ClauseOf(d, b) = b..(b + Len(segments) - 1)
ClauseGroups(d) == {g \in GroupsFor(d) : \E b \in 1..Len(d) : ClauseAt(d, b, g.segments)}

\* Blocks of a document that follow each other have their letters in turn.
LEMMA StandsInTurn ==
  ASSUME NEW d \in Documents, NEW a \in Nat, NEW segments, Len(segments) \in Nat, Stands(d, a, segments)
  PROVE  InTurn(TextsIn(segments)) /\ AllLetters(TextsIn(segments)) = LettersIn(segments)
<1>1. Len(TextsIn(segments)) = Len(segments) /\ \A k \in 1..Len(segments) : TextsIn(segments)[k] = segments[k].text
  BY DEF TextsIn
<1>2. \A k \in 1..Len(segments) : InOrder(segments[k].text) /\ Letters(segments[k].text) # {}
  BY DocType DEF Stands
<1>3. ASSUME NEW j \in 1..Len(segments), NEW k \in 1..Len(segments), j < k
      PROVE  Before(Letters(segments[j].text), Letters(segments[k].text))
  <2>1. a + j - 1 \in 1..Len(d) /\ a + k - 1 \in 1..Len(d) /\ a + j - 1 < a + k - 1
    BY <1>3 DEF Stands
  <2>2. Before(Letters(d[a + j - 1].text), Letters(d[a + k - 1].text))
    BY <2>1, DocType
  <2> QED BY <2>2 DEF Stands
<1>4. AllLetters(TextsIn(segments)) = LettersIn(segments)
  BY <1>1 DEF AllLetters, LettersUpTo, LettersIn
<1> QED BY <1>1, <1>2, <1>3, <1>4 DEF InTurn

\* A clause of a whole section is a clause of the document.
LEMMA ClauseOfSection ==
  ASSUME NEW d \in Documents, NEW a \in 1..(Len(d) + 1), NEW s \in Seq(Block), SectionFrom(d, a, s),
         a + Len(s) <= Len(d) + 1,
         a + Len(s) <= Len(d) => d[a + Len(s)].kind = "heading",
         NEW p \in 1..Len(s), NEW c \in Seq(Block), ClauseFrom(s, p, c),
         p + Len(c) <= Len(s) + 1,
         p + Len(c) <= Len(s) => Starts(s, p + Len(c))
  PROVE  a + p - 1 \in 1..Len(d) /\ ClauseAt(d, a + p - 1, c)
<1> DEFINE b == a + p - 1
<1>1. PICK n \in Nat, l \in Nat, z \in Nat : n = Len(s) /\ l = Len(c) /\ z = Len(d)
  BY DocType
<1>2. /\ a \in Nat /\ a # 0 /\ p \in 1..n /\ b \in Nat /\ l # 0
      /\ a + n <= z + 1 /\ p + l <= n + 1
  <2>1. c # <<>>
    BY DEF ClauseFrom
  <2>2. l # 0
    BY <1>1, <2>1
  <2> QED BY <1>1, <2>2
<1>3. \A m \in 1..n : /\ a + m - 1 \in 1..z /\ s[m] = d[a + m - 1] /\ s[m].kind # "heading"
  BY <1>1 DEF SectionFrom, Stands
<1>4. ASSUME NEW m \in 1..n PROVE BeginsClause(d, a + m - 1) <=> Starts(s, m)
  <2>1. d[a + m - 1].kind # "heading" /\ d[a + m - 1] = s[m]
    BY <1>3
  <2>2. CASE m = 1
    <3>1. a + m - 1 = a /\ (a = 1 \/ d[a - 1].kind = "heading")
      BY <1>2, <2>2 DEF SectionFrom
    <3> QED BY <2>1, <2>2, <3>1 DEF BeginsClause, Starts
  <2>3. CASE m # 1
    <3>1. m - 1 \in 1..n /\ a + (m - 1) - 1 = (a + m - 1) - 1 /\ a + m - 1 # 1
      <4>1. a \in Nat /\ a # 0 /\ m \in Nat /\ 1 < m
        BY <1>2, <2>3
      <4> QED BY <4>1
    <3>2. s[m - 1] = d[(a + m - 1) - 1] /\ d[(a + m - 1) - 1].kind # "heading"
      <4>1. s[m - 1] = d[a + (m - 1) - 1] /\ s[m - 1].kind # "heading"
        BY <1>3, <3>1
      <4> QED BY <3>1, <4>1
    <3> QED BY <2>1, <2>3, <3>1, <3>2 DEF BeginsClause, Starts
  <2> QED BY <2>2, <2>3
<1>5. Stands(d, b, c)
  <2> SUFFICES ASSUME NEW k \in 1..l PROVE b + k - 1 \in 1..z /\ c[k] = d[b + k - 1]
    BY <1>1 DEF Stands
  <2>1. p + k - 1 \in 1..n /\ c[k] = s[p + k - 1]
    BY <1>1 DEF ClauseFrom, Stands
  <2>2. a + (p + k - 1) - 1 = b + k - 1
    BY <1>2
  <2> QED BY <1>3, <2>1, <2>2
<1>6. b \in 1..z /\ BeginsClause(d, b)
  BY <1>2, <1>3, <1>4 DEF ClauseFrom
<1>7. ASSUME NEW x \in b..(b + l - 1) PROVE x \in ClauseOf(d, b)
  <2>1. ASSUME NEW y \in b..x
        PROVE  y \in 1..z /\ d[y].kind # "heading" /\ (y # b => ~BeginsClause(d, y))
    <3> DEFINE m == y - a + 1
    <3>1. m \in p..(p + l - 1) /\ m \in 1..n /\ a + m - 1 = y /\ (y # b => m \in (p + 1)..(p + l - 1))
      BY <1>2
    <3>2. y # b => ~Starts(s, m)
      BY <1>1, <3>1 DEF ClauseFrom
    <3> HIDE DEF m
    <3> QED BY <1>3, <1>4, <3>1, <3>2
  <2>2. x \in b..x /\ \A y \in (b + 1)..x : y \in b..x /\ y # b
    BY <1>2
  <2>3. x \in b..Len(d)
    BY <1>1, <1>2, <2>1, <2>2
  <2> QED BY <2>1, <2>2, <2>3 DEF ClauseOf
<1>8. ASSUME NEW x \in ClauseOf(d, b) PROVE x \in b..(b + l - 1)
  <2>1. x \in b..z /\ \A y \in (b + 1)..x : d[y].kind # "heading" /\ ~BeginsClause(d, y)
    BY <1>1 DEF ClauseOf
  <2> SUFFICES ASSUME ~(x <= b + l - 1) PROVE FALSE
    BY <1>2, <2>1
  <2>2. b + l \in (b + 1)..x
    BY <1>2, <2>1
  <2>3. d[b + l].kind # "heading" /\ ~BeginsClause(d, b + l)
    BY <2>1, <2>2
  <2>4. CASE p + l = n + 1
    <3>1. b + l = a + n /\ a + n <= z
      BY <1>2, <2>1, <2>2, <2>4
    <3> QED BY <1>1, <2>3, <3>1
  <2>5. CASE p + l # n + 1
    <3>1. p + l \in 1..n /\ p + l <= n /\ b + l = a + (p + l) - 1
      BY <1>2, <2>5
    <3>2. Starts(s, p + l)
      BY <1>1, <3>1
    <3> QED BY <1>4, <2>3, <3>1, <3>2
  <2> QED BY <2>4, <2>5
<1> HIDE DEF b
<1>9. ClauseOf(d, b) = b..(b + l - 1)
  BY <1>7, <1>8
<1>10. b \in 1..Len(d) /\ ClauseAt(d, b, c)
  BY <1>1, <1>5, <1>6, <1>9 DEF ClauseAt
<1> QED BY <1>10 DEF b

\* The groups of a section are its clauses, in turn.
LEMMA GroupsOfSection ==
  ASSUME NEW d \in Documents, NEW s \in SectionsOf(d),
         OpenAt(d, Len(d), s.segments) \/ ClosedAt(d, Len(d), s.segments)
  PROVE  /\ GroupsIn(s) \in Seq(ClauseGroups(d))
         /\ LettersPer(GroupsIn(s)) \in Seq(SUBSET Nat)
         /\ Lined(LettersPer(GroupsIn(s)))
         /\ Together(LettersPer(GroupsIn(s))) = LettersIn(s.segments)
<1> DEFINE segs == s.segments
           cs == Clauses(segs)
           gs == GroupsIn(s)
<1>1. segs \in Seq(Block) /\ Len(segs) \in Nat /\ Len(d) \in Nat
  BY DocType DEF SectionsOf, AnySection
<1>2. PICK a \in 1..(Len(d) + 1) : /\ SectionFrom(d, a, segs) /\ a + Len(segs) <= Len(d) + 1
                                   /\ a + Len(segs) <= Len(d) => d[a + Len(segs)].kind = "heading"
  <2>1. CASE OpenAt(d, Len(d), segs)
    <3>1. PICK a \in 1..(Len(d) + 1) : SectionFrom(d, a, segs) /\ a + Len(segs) = Len(d) + 1
      BY <2>1 DEF OpenAt
    <3>2. a + Len(segs) <= Len(d) + 1 /\ ~(a + Len(segs) <= Len(d))
      BY <1>1, <3>1
    <3> QED BY <3>1, <3>2
  <2>2. CASE ClosedAt(d, Len(d), segs)
    <3>1. PICK a \in 1..Len(d) : /\ SectionFrom(d, a, segs)
                                 /\ a + Len(segs) <= Len(d) /\ d[a + Len(segs)].kind = "heading"
      BY <2>2 DEF ClosedAt
    <3>2. a \in 1..(Len(d) + 1) /\ a + Len(segs) <= Len(d) + 1
      BY <1>1, <3>1
    <3> QED BY <3>1, <3>2
  <2> QED BY <2>1, <2>2
<1>3. a \in Nat /\ InTurn(TextsIn(segs)) /\ AllLetters(TextsIn(segs)) = LettersIn(segs)
  <2>1. a \in Nat /\ Stands(d, a, segs)
    BY <1>2 DEF SectionFrom
  <2> QED BY <1>1, <2>1, StandsInTurn
<1>4. cs \in ClausesKept(segs, Len(segs))
  BY <1>1, <1>3, ClausesKeep
<1>5. cs \in Seq(Seq(Block)) /\ Len(cs) \in Nat
  <2>1. cs \in Seq(ClausesOf(Block)) /\ ClausesOf(Block) \subseteq Seq(Block)
    BY <1>4 DEF ClausesKept, ClausesOf
  <2>2. cs \in Seq(Seq(Block))
    BY <2>1, SeqMonotonic
  <2> QED BY <2>2
<1>6. /\ gs \in Seq(GroupsFor(d)) /\ Len(gs) = Len(cs)
      /\ \A k \in 1..Len(cs) : gs[k].segments = cs[k]
  <2>1. gs \in Seq(GroupsFor(d))
    BY GroupsInType
  <2>2. gs = [k \in 1..Len(cs) |-> [heading |-> s.heading, segments |-> cs[k]]]
    BY <1>5 DEF GroupsIn
  <2> HIDE DEF gs, cs
  <2> QED BY <1>5, <2>1, <2>2
<1>7. ASSUME NEW k \in 1..Len(cs) PROVE \E b \in 1..Len(d) : ClauseAt(d, b, cs[k])
  <2>0. k < Len(cs) \/ k = Len(cs)
    BY <1>5
  <2>1. EndedAt(segs, Len(segs), cs[k]) \/ GoesOnAt(segs, Len(segs), cs[k])
    BY <1>4, <2>0 DEF ClausesKept
  <2>2. cs[k] \in Seq(Block) /\ Len(cs[k]) \in Nat
    BY <1>5
  <2>3. PICK p \in 1..Len(segs) : /\ ClauseFrom(segs, p, cs[k]) /\ p + Len(cs[k]) <= Len(segs) + 1
                                  /\ p + Len(cs[k]) <= Len(segs) => Starts(segs, p + Len(cs[k]))
    <3>1. CASE EndedAt(segs, Len(segs), cs[k])
      <4>1. PICK p \in 1..Len(segs) : /\ ClauseFrom(segs, p, cs[k]) /\ p + Len(cs[k]) <= Len(segs)
                                      /\ Starts(segs, p + Len(cs[k]))
        BY <3>1 DEF EndedAt
      <4>2. p + Len(cs[k]) <= Len(segs) + 1
        BY <1>1, <2>2, <4>1
      <4> QED BY <4>1, <4>2
    <3>2. CASE GoesOnAt(segs, Len(segs), cs[k])
      <4>1. PICK p \in 1..Len(segs) : ClauseFrom(segs, p, cs[k]) /\ p + Len(cs[k]) = Len(segs) + 1
        BY <3>2 DEF GoesOnAt
      <4>2. p + Len(cs[k]) <= Len(segs) + 1 /\ ~(p + Len(cs[k]) <= Len(segs))
        BY <1>1, <2>2, <4>1
      <4> QED BY <4>1, <4>2
    <3> QED BY <2>1, <3>1, <3>2
  <2>4. a + p - 1 \in 1..Len(d) /\ ClauseAt(d, a + p - 1, cs[k])
    <3> HIDE DEF segs, cs
    <3> QED BY <1>1, <1>2, <2>2, <2>3, ClauseOfSection
  <2> QED BY <2>4
<1>8. gs \in Seq(ClauseGroups(d))
  <2>1. \A k \in 1..Len(gs) : gs[k] \in ClauseGroups(d)
    <3> HIDE DEF gs, cs
    <3> QED BY <1>6, <1>7 DEF ClauseGroups
  <2> HIDE DEF gs
  <2> QED BY <1>6, <2>1
<1>9. LettersPer(gs) = LettersEach(cs)
  <2> HIDE DEF gs, cs
  <2> QED BY <1>6 DEF LettersPer, LettersEach
<1>10. /\ LettersEach(cs) \in Seq(SUBSET Nat) /\ Lined(LettersEach(cs))
       /\ Together(LettersEach(cs)) = LettersIn(segs)
  <2>1. Len(TextsIn(segs)) = Len(segs)
    BY DEF TextsIn
  <2>2. Together(LettersEach(cs)) = AllLetters(TextsIn(segs)) /\ Lined(LettersEach(cs))
    BY <1>4, <2>1 DEF ClausesKept, AllLetters
  <2> QED BY <1>3, <1>5, <2>2, LettersEachType
<1> QED BY <1>8, <1>9, <1>10

\* The letters of groups put one behind the other.
LEMMA LettersPerConcat ==
  ASSUME NEW d, NEW x \in Seq(ClauseGroups(d)), NEW y \in Seq(ClauseGroups(d))
  PROVE  /\ LettersPer(x) \in Seq(SUBSET Nat) /\ LettersPer(y) \in Seq(SUBSET Nat)
         /\ LettersPer(x \o y) = LettersPer(x) \o LettersPer(y)
<1>1. \A z \in Seq(ClauseGroups(d)) : /\ LettersPer(z) \in Seq(SUBSET Nat) /\ Len(LettersPer(z)) = Len(z)
                                      /\ \A k \in 1..Len(z) : LettersPer(z)[k] = LettersIn(z[k].segments)
  <2> SUFFICES ASSUME NEW z \in Seq(ClauseGroups(d))
               PROVE  /\ LettersPer(z) \in Seq(SUBSET Nat) /\ Len(LettersPer(z)) = Len(z)
                      /\ \A k \in 1..Len(z) : LettersPer(z)[k] = LettersIn(z[k].segments)
    OBVIOUS
  <2>1. Len(z) \in Nat /\ \A k \in 1..Len(z) : z[k] \in ClauseGroups(d)
    OBVIOUS
  <2>2. \A k \in 1..Len(z) : z[k].segments \in Seq(Block)
    BY <2>1 DEF ClauseGroups, GroupsFor
  <2> QED BY <2>1, <2>2, LettersPerType
<1>2. PICK w \in Seq(ClauseGroups(d)), m \in Nat, n \in Nat :
         /\ w = x \o y /\ m = Len(x) /\ n = Len(y) /\ Len(w) = m + n
         /\ \A k \in 1..(m + n) : w[k] = IF k <= m THEN x[k] ELSE y[k - m]
  <2>1. /\ x \o y \in Seq(ClauseGroups(d)) /\ Len(x \o y) = Len(x) + Len(y)
        /\ \A k \in 1..Len(x) + Len(y) : (x \o y)[k] = IF k <= Len(x) THEN x[k] ELSE y[k - Len(x)]
    BY ConcatProperties
  <2>2. Len(x) \in Nat /\ Len(y) \in Nat
    OBVIOUS
  <2> QED BY <2>1, <2>2
<1>3. PICK Ls \in Seq(SUBSET Nat), Ms \in Seq(SUBSET Nat), Ns \in Seq(SUBSET Nat) :
         /\ Ls = LettersPer(x) /\ Ms = LettersPer(y) /\ Ns = LettersPer(w)
         /\ Len(Ls) = m /\ Len(Ms) = n /\ Len(Ns) = m + n
         /\ \A k \in 1..m : Ls[k] = LettersIn(x[k].segments)
         /\ \A k \in 1..n : Ms[k] = LettersIn(y[k].segments)
         /\ \A k \in 1..(m + n) : Ns[k] = LettersIn(w[k].segments)
  <2>1. /\ LettersPer(x) \in Seq(SUBSET Nat) /\ Len(LettersPer(x)) = m
        /\ \A k \in 1..m : LettersPer(x)[k] = LettersIn(x[k].segments)
    BY <1>1, <1>2
  <2>2. /\ LettersPer(y) \in Seq(SUBSET Nat) /\ Len(LettersPer(y)) = n
        /\ \A k \in 1..n : LettersPer(y)[k] = LettersIn(y[k].segments)
    BY <1>1, <1>2
  <2>3. /\ LettersPer(w) \in Seq(SUBSET Nat) /\ Len(LettersPer(w)) = m + n
        /\ \A k \in 1..(m + n) : LettersPer(w)[k] = LettersIn(w[k].segments)
    BY <1>1, <1>2
  <2> QED BY <2>1, <2>2, <2>3
<1>4. /\ Ls \o Ms \in Seq(SUBSET Nat) /\ Len(Ls \o Ms) = m + n
      /\ \A k \in 1..(m + n) : (Ls \o Ms)[k] = IF k <= m THEN Ls[k] ELSE Ms[k - m]
  <2>1. /\ Ls \o Ms \in Seq(SUBSET Nat) /\ Len(Ls \o Ms) = Len(Ls) + Len(Ms)
        /\ \A k \in 1..Len(Ls) + Len(Ms) : (Ls \o Ms)[k] = IF k <= Len(Ls) THEN Ls[k] ELSE Ms[k - Len(Ls)]
    BY ConcatProperties
  <2> QED BY <1>3, <2>1
<1>5. \A k \in 1..(m + n) : Ns[k] = (Ls \o Ms)[k]
  <2> SUFFICES ASSUME NEW k \in 1..(m + n) PROVE Ns[k] = (Ls \o Ms)[k]
    OBVIOUS
  <2>1. CASE k <= m
    <3>1. k \in 1..m
      BY <2>1
    <3> QED BY <1>2, <1>3, <1>4, <2>1, <3>1
  <2>2. CASE ~(k <= m)
    <3>1. k - m \in 1..n
      BY <2>2
    <3> QED BY <1>2, <1>3, <1>4, <2>2, <3>1
  <2> QED BY <2>1, <2>2
<1>6. Ns = Ls \o Ms
  BY <1>3, <1>4, <1>5, SeqEqual
<1> QED BY <1>2, <1>3, <1>6

\* The groups of a document are its clauses, in turn, with the letters of its
\* bodies.
LEMMA GroupsKeep ==
  ASSUME NEW d \in Documents
  PROVE  /\ GroupsOf(d) \in Seq(ClauseGroups(d))
         /\ Lined(LettersPer(GroupsOf(d)))
         /\ Together(LettersPer(GroupsOf(d))) = BodyLetters(d)
<1>1. PICK ss \in Seq(SectionsOf(d)) : ss = Sections(d)
  BY SectionsType, DocType
<1> DEFINE n == Len(ss)
           Ls == LettersPer(ss)
           seqs == [i \in 1..n |-> GroupsIn(ss[i])]
           Some(i) == UNION {Ls[k] : k \in 1..i}
           Kept(i) == {gs \in Seq(ClauseGroups(d)) :
                         Lined(LettersPer(gs)) /\ Together(LettersPer(gs)) = Some(i)}
           A == [i \in 0..n |-> Kept(i)]
<1>2. ss \in SectionsKept(d, Len(d)) /\ n \in Nat
  BY <1>1, SectionsKeep
<1>3. /\ Ls \in Seq(SUBSET Nat) /\ Len(Ls) = n /\ Lined(Ls) /\ Together(Ls) = BodyUpTo(d, Len(d))
      /\ \A k \in 1..n : Ls[k] = LettersIn(ss[k].segments)
  <2>1. \A k \in 1..n : ss[k] \in SectionsOf(d)
    OBVIOUS
  <2>2. \A k \in 1..n : ss[k].segments \in Seq(Block)
    BY <2>1 DEF SectionsOf, AnySection
  <2> QED BY <1>2, <2>2, LettersPerType DEF SectionsKept
<1>4. ASSUME NEW i \in 1..n
      PROVE  /\ GroupsIn(ss[i]) \in Seq(ClauseGroups(d))
             /\ LettersPer(GroupsIn(ss[i])) \in Seq(SUBSET Nat)
             /\ Lined(LettersPer(GroupsIn(ss[i])))
             /\ Together(LettersPer(GroupsIn(ss[i]))) = Ls[i]
  <2>1. i < n \/ i = n
    BY <1>2
  <2>2. OpenAt(d, Len(d), ss[i].segments) \/ ClosedAt(d, Len(d), ss[i].segments)
    BY <1>2, <2>1 DEF SectionsKept
  <2>3. ss[i] \in SectionsOf(d)
    OBVIOUS
  <2> HIDE DEF Ls
  <2> QED BY <1>3, <2>2, <2>3, GroupsOfSection
<1>5. seqs \in Seq(Seq(ClauseGroups(d))) /\ Len(seqs) = n /\ \A i \in 1..n : seqs[i] = GroupsIn(ss[i])
  BY <1>2, <1>4
<1>6. /\ A[0] = Kept(0) /\ A[n] = Kept(n)
      /\ n # 0 => A[1] = Kept(1)
      /\ \A i \in 2..n : A[i] = Kept(i) /\ A[i - 1] = Kept(i - 1)
  BY <1>2
<1>7. \A i \in 1..n : Some(i) = Some(i - 1) \cup Ls[i] /\ Before(Some(i - 1), Ls[i])
  <2> SUFFICES ASSUME NEW i \in 1..n PROVE Some(i) = Some(i - 1) \cup Ls[i] /\ Before(Some(i - 1), Ls[i])
    OBVIOUS
  <2>1. 1..i = 1..(i - 1) \cup {i} /\ \A k \in 1..(i - 1) : k \in 1..n /\ k < i
    BY <1>2
  <2>2. Before(Some(i - 1), Ls[i])
    <3> HIDE DEF Ls
    <3> SUFFICES ASSUME NEW c \in Some(i - 1), NEW e \in Ls[i] PROVE c < e
      BY DEF Before
    <3>1. PICK k \in 1..(i - 1) : c \in Ls[k]
      OBVIOUS
    <3>2. Before(Ls[k], Ls[i])
      BY <1>3, <2>1 DEF Lined
    <3> QED BY <3>1, <3>2 DEF Before
  <2>3. Some(i) = Some(i - 1) \cup Ls[i]
    <3> HIDE DEF Ls
    <3>1. ASSUME NEW c \in Some(i) PROVE c \in Some(i - 1) \cup Ls[i]
      <4>1. PICK k \in 1..i : c \in Ls[k]
        OBVIOUS
      <4> QED BY <2>1, <4>1
    <3>2. ASSUME NEW c \in Some(i - 1) \cup Ls[i] PROVE c \in Some(i)
      BY <2>1, <3>2
    <3> QED BY <3>1, <3>2
  <2> QED BY <2>2, <2>3
<1>8. <<>> \in Kept(0)
  <2>1. <<>> \in Seq(ClauseGroups(d)) /\ Len(<<>>) = 0 /\ 1..0 = {}
    OBVIOUS
  <2>2. Len(LettersPer(<<>>)) = 0
    BY <2>1 DEF LettersPer
  <2>3. Some(0) = {}
    BY <2>1
  <2> HIDE DEF Some
  <2> QED BY <2>1, <2>2, <2>3 DEF Lined, Together
<1>9. seqs # <<>> => seqs[1] \in Kept(1)
  <2> SUFFICES ASSUME seqs # <<>> PROVE seqs[1] \in Kept(1)
    OBVIOUS
  <2>1. 1 \in 1..n
    <3> HIDE DEF seqs
    <3> QED BY <1>2, <1>5
  <2>2. Some(1) = Ls[1]
    <3>1. 1..0 = {} /\ 1 - 1 = 0
      OBVIOUS
    <3>2. Some(1) = Some(0) \cup Ls[1] /\ Some(0) = {}
      BY <1>7, <2>1, <3>1
    <3> QED BY <3>2
  <2>3. seqs[1] = GroupsIn(ss[1])
    BY <1>5, <2>1
  <2> HIDE DEF Some, seqs, Ls
  <2> QED BY <1>4, <2>1, <2>2, <2>3
<1>10. ASSUME NEW i \in 2..n, NEW x \in Kept(i - 1)
       PROVE  x \o seqs[i] \in Kept(i)
  <2>1. i \in 1..n
    OBVIOUS
  <2>2. PICK y \in Seq(ClauseGroups(d)) : y = seqs[i] /\ Lined(LettersPer(y)) /\ Together(LettersPer(y)) = Ls[i]
    <3> HIDE DEF Ls, seqs
    <3> QED BY <1>4, <1>5, <2>1
  <2>3. x \in Seq(ClauseGroups(d)) /\ Lined(LettersPer(x)) /\ Together(LettersPer(x)) = Some(i - 1)
    OBVIOUS
  <2>4. /\ LettersPer(x) \in Seq(SUBSET Nat) /\ LettersPer(y) \in Seq(SUBSET Nat)
        /\ LettersPer(x \o y) = LettersPer(x) \o LettersPer(y)
    BY <2>3, LettersPerConcat
  <2>5. Some(i) = Some(i - 1) \cup Ls[i] /\ Before(Some(i - 1), Ls[i])
    BY <1>7, <2>1
  <2>6. x \o y \in Seq(ClauseGroups(d))
    BY <2>3, ConcatProperties
  <2> HIDE DEF Some, Ls, seqs
  <2>7. Lined(LettersPer(x) \o LettersPer(y)) /\ Together(LettersPer(x) \o LettersPer(y)) = Some(i)
    BY <2>2, <2>3, <2>4, <2>5, LinedConcat
  <2> QED BY <2>2, <2>4, <2>6, <2>7
<1>11. GroupsOf(d) = FlattenSeq(seqs)
  <2>1. DOMAIN ss = 1..n
    OBVIOUS
  <2> QED BY <1>1, <2>1 DEF GroupsOf
<1>12. FlattenSeq(seqs) \in A[Len(seqs)]
  <2> HIDE DEF A, Kept, seqs
  <2>1. <<>> \in A[0]
    BY <1>6, <1>8
  <2>2. seqs # <<>> => seqs[1] \in A[1]
    <3>1. seqs # <<>> => n # 0
      BY <1>5
    <3> QED BY <1>6, <1>9, <3>1
  <2>3. \A i \in 2..Len(seqs) : \A x \in A[i - 1] : x \in Seq(ClauseGroups(d)) => x \o seqs[i] \in A[i]
    BY <1>5, <1>6, <1>10
  <2> QED BY <1>5, <2>1, <2>2, <2>3, FlattenPrefix
<1>13. GroupsOf(d) \in Kept(n)
  <2> HIDE DEF A, Kept, seqs
  <2> QED BY <1>5, <1>6, <1>11, <1>12
<1>14. Some(n) = BodyLetters(d)
  <2>1. Some(n) = Together(Ls)
    BY <1>3 DEF Together
  <2>2. BodyUpTo(d, Len(d)) = BodyLetters(d)
    <3>1. DOMAIN d = 1..Len(d)
      BY DocType
    <3> QED BY <3>1 DEF BodyUpTo, BodyLetters
  <2> QED BY <1>3, <2>1, <2>2
<1> HIDE DEF Some
<1> QED BY <1>13, <1>14

-----------------------------------------------------------------------------
(* A group is one clause                                                   *)

\* No two clauses of a document have a letter in common.
LEMMA ClausesApart ==
  ASSUME NEW d \in Documents, NEW b \in 1..Len(d), NEW c \in 1..Len(d), b # c,
         BeginsClause(d, b), BeginsClause(d, c)
  PROVE  ClauseText(d, b) \cap ClauseText(d, c) = {}
<1>1. Len(d) \in Nat
  BY DocType
<1>2. ASSUME NEW x \in 1..Len(d), NEW y \in 1..Len(d), x < y, BeginsClause(d, y), NEW k \in ClauseOf(d, x),
             k \in ClauseOf(d, y)
      PROVE  FALSE
  <2>1. /\ k \in x..Len(d) /\ \A m \in (x + 1)..k : ~BeginsClause(d, m)
        /\ k \in y..Len(d)
    BY <1>2 DEF ClauseOf
  <2>2. y \in (x + 1)..k
    BY <1>1, <1>2, <2>1
  <2> QED BY <1>2, <2>1, <2>2
<1>3. ASSUME NEW k \in ClauseOf(d, b) PROVE k \notin ClauseOf(d, c)
  <2>1. b < c \/ c < b
    OBVIOUS
  <2> QED BY <1>2, <1>3, <2>1
<1>4. ASSUME NEW l \in ClauseText(d, b), l \in ClauseText(d, c) PROVE FALSE
  <2>1. PICK k \in ClauseOf(d, b) : l \in Letters(d[k].text)
    BY DEF ClauseText
  <2>2. PICK m \in ClauseOf(d, c) : l \in Letters(d[m].text)
    BY <1>4 DEF ClauseText
  <2>3. k # m /\ k \in 1..Len(d) /\ m \in 1..Len(d)
    BY <1>1, <1>3 DEF ClauseOf
  <2> QED BY <2>1, <2>2, <2>3, DocType
<1> QED BY <1>4

\* The lengths of what the steps of the join make: each segment adds its own, and
\* two for the break before it, except the first.
Lengths(segments, q) ==
  /\ q \in [0..Len(segments) -> Nat] /\ q[0] = 0
  /\ \A k \in 1..Len(segments) : q[k] = q[k - 1] + Len(segments[k].text) + (IF k = 1 THEN 0 ELSE 2)

\* A step of the join makes a text longer.
LEMMA AddTextLength ==
  ASSUME NEW t \in Seq(Nat), NEW s \in Block, s.text # <<>>
  PROVE  /\ AddText(t, s) # <<>>
         /\ Len(AddText(t, s)) = Len(t) + Len(s.text) + (IF t = <<>> THEN 0 ELSE 2)
<1>1. PICK x \in Seq(Nat) : x = s.text /\ x # <<>>
  BY DEF Block
<1>2. PICK m \in Nat, l \in Nat : m = Len(t) /\ l = Len(x) /\ l # 0
  <2>1. Len(t) \in Nat /\ Len(x) \in Nat
    OBVIOUS
  <2>2. Len(x) # 0
    BY <1>1, EmptySeq
  <2> QED BY <2>1, <2>2
<1>3. CASE t = <<>>
  <2>1. AddText(t, s) = x /\ m = 0
    BY <1>1, <1>2, <1>3 DEF AddText
  <2> QED BY <1>1, <1>2, <1>3, <2>1
<1>4. CASE t # <<>>
  <2>1. Break \in Seq(Nat) /\ Len(Break) = 2
    BY DEF Break, NewLine
  <2>2. PICK u \in Seq(Nat) : u = t \o Break /\ Len(u) = m + 2
    <3>1. t \o Break \in Seq(Nat) /\ Len(t \o Break) = Len(t) + Len(Break)
      BY <2>1, ConcatProperties
    <3> QED BY <1>2, <2>1, <3>1
  <2>3. u \o x \in Seq(Nat) /\ Len(u \o x) = Len(u) + Len(x)
    BY ConcatProperties
  <2>4. AddText(t, s) = u \o x
    BY <1>1, <1>4, <2>2 DEF AddText
  <2>5. Len(u \o x) = m + 2 + l
    BY <1>2, <2>2, <2>3
  <2>6. m + 2 + l # 0 /\ m + l + 2 = m + 2 + l
    OBVIOUS
  <2>7. u \o x # <<>>
    BY <2>5, <2>6
  <2> QED BY <1>1, <1>2, <1>4, <2>4, <2>5, <2>6, <2>7
<1> QED BY <1>3, <1>4

\* The lengths of joined texts, segment by segment: each adds its own, and a
\* separator if it is not the first.
LEMMA JoinLength ==
  ASSUME NEW segments \in Seq(Block), \A k \in 1..Len(segments) : Letters(segments[k].text) # {}
  PROVE  \E q : Lengths(segments, q) /\ q[Len(segments)] = Len(JoinTexts(segments))
<1> DEFINE n == Len(segments)
           Upto(i, q) == /\ q \in [0..i -> Nat] /\ q[0] = 0
                         /\ \A k \in 1..i :
                              q[k] = q[k - 1] + Len(segments[k].text) + (IF k = 1 THEN 0 ELSE 2)
           Kept(i) == {t \in TextsOf(Nat) : (t = <<>> <=> i = 0) /\ \E q : Upto(i, q) /\ q[i] = Len(t)}
           A == [i \in 0..n |-> Kept(i)]
<1>1. /\ n \in Nat /\ A[0] = Kept(0) /\ A[n] = Kept(n)
      /\ \A i \in 1..n : A[i] = Kept(i) /\ A[i - 1] = Kept(i - 1)
  <2> HIDE DEF Kept
  <2> QED OBVIOUS
<1>2. <<>> \in Kept(0)
  <2>1. PICK q : q = [k \in 0..0 |-> 0]
    OBVIOUS
  <2>2. Upto(0, q) /\ q[0] = Len(<<>>)
    BY <2>1
  <2> QED BY <2>2, NoText
<1>3. segments \in Seq({b \in Block : Letters(b.text) \subseteq Nat})
  <2>1. \A b \in Block : Letters(b.text) \subseteq Nat
    BY LettersAt DEF Block
  <2> QED BY <2>1
<1>4. ASSUME NEW i \in 1..n, NEW t \in Kept(i - 1)
      PROVE  t \in TextsOf(Nat) /\ AddText(t, segments[i]) \in Kept(i)
  <2>1. PICK s \in {b \in Block : Letters(b.text) \subseteq Nat} : s = segments[i]
    BY <1>3
  <2>2. t \in TextsOf(Nat) /\ (t = <<>> <=> i = 1)
    BY <1>1
  <2>3. PICK q : Upto(i - 1, q) /\ q[i - 1] = Len(t)
    OBVIOUS
  <2>4. s.text \in Seq(Nat) /\ s.text # <<>> /\ t \in Seq(Nat)
    <3>1. Letters(s.text) # {}
      BY <2>1
    <3> QED BY <2>1, <2>2, <3>1 DEF Block, Letters, Range, TextsOf
  <2>5. PICK u \in TextsOf(Nat) : u = AddText(t, segments[i])
    BY <2>1, <2>2, AddTextType
  <2>6. u # <<>> /\ Len(u) = Len(t) + Len(s.text) + (IF i = 1 THEN 0 ELSE 2)
    <3>1. u # <<>> /\ Len(u) = Len(t) + Len(s.text) + (IF t = <<>> THEN 0 ELSE 2)
      BY <2>1, <2>4, <2>5, AddTextLength
    <3> QED BY <2>2, <3>1
  <2>7. PICK r : r = [k \in 0..i |-> IF k = i THEN Len(u) ELSE q[k]]
    OBVIOUS
  <2>8. Upto(i, r) /\ r[i] = Len(u)
    <3>1. Len(u) \in Nat
      BY <2>5 DEF TextsOf
    <3>2. r \in [0..i -> Nat] /\ r[0] = 0 /\ r[i] = Len(u) /\ \A k \in 0..(i - 1) : r[k] = q[k]
      BY <2>3, <2>7, <3>1
    <3>3. ASSUME NEW k \in 1..i
          PROVE  r[k] = r[k - 1] + Len(segments[k].text) + (IF k = 1 THEN 0 ELSE 2)
      <4>1. CASE k = i
        <5>1. k - 1 \in 0..(i - 1) /\ r[k - 1] = Len(t)
          BY <2>3, <3>2, <4>1
        <5> QED BY <2>1, <2>6, <3>2, <4>1, <5>1
      <4>2. CASE k # i
        <5>1. k \in 1..(i - 1) /\ k \in 0..(i - 1) /\ k - 1 \in 0..(i - 1)
          BY <4>2
        <5>2. r[k] = q[k] /\ r[k - 1] = q[k - 1]
          BY <3>2, <5>1
        <5>3. q[k] = q[k - 1] + Len(segments[k].text) + (IF k = 1 THEN 0 ELSE 2)
          BY <2>3, <5>1
        <5> QED BY <5>2, <5>3
      <4> QED BY <4>1, <4>2
    <3> QED BY <3>2, <3>3
  <2>9. u # <<>> /\ i # 0
    BY <2>6
  <2> HIDE DEF Upto
  <2> QED BY <2>2, <2>5, <2>8, <2>9
<1>5. JoinTexts(segments) \in A[n]
  <2> HIDE DEF A, Kept
  <2>1. <<>> \in A[0]
    BY <1>1, <1>2
  <2>2. \A i \in 1..Len(segments) :
          \A t \in A[i - 1] : t \in TextsOf(Nat) /\ AddText(t, segments[i]) \in A[i]
    BY <1>1, <1>4
  <2> QED BY <1>3, <2>1, <2>2, JoinFold
<1>6. JoinTexts(segments) \in Kept(n)
  BY <1>1, <1>5
<1> QED BY <1>6 DEF Lengths

\* ClauseLength is what its steps make, when they keep A.
LEMMA LengthFold ==
  ASSUME NEW d \in Seq(Block), NEW b,
         NEW A, 0 \in A[0],
         \A i \in 1..Len(d) : \A x \in A[i - 1] :
           /\ x \in Nat
           /\ (IF i \in ClauseOf(d, b) THEN x + Len(d[i].text) + (IF i = b THEN 0 ELSE 2) ELSE x) \in A[i]
  PROVE  ClauseLength(d, b) \in A[Len(d)]
<1> DEFINE T == Nat
           n == Len(d)
           add(x, k) == IF k \in ClauseOf(d, b) THEN x + Len(d[k].text) + (IF k = b THEN 0 ELSE 2) ELSE x
           ks == [i \in DOMAIN d |-> i]
           IsFold(g) == g = [s \in SUBSET (1..n) |->
              IF s = {} THEN 0 ELSE add(g[s \ {Max(s)}], ks[Max(s)])]
           g == CHOOSE g : IsFold(g)
           F == [i \in 1..n |->
                  [x \in T \cup {g[s] : s \in SUBSET (1..n)} |-> add(x, i)]]
<1>1. n \in Nat /\ DOMAIN d = 1..n /\ DOMAIN ks = 1..n /\ \A i \in 1..n : ks[i] = i /\ Len(d[i].text) \in Nat
  <2>1. \A i \in 1..n : d[i] \in Block
    OBVIOUS
  <2>2. \A i \in 1..n : d[i].text \in Seq(Nat)
    BY <2>1 DEF Block
  <2>3. \A i \in 1..n : Len(d[i].text) \in Nat
    BY <2>2
  <2> QED BY <2>3
<1>2. 0 \in T /\ \A i \in 1..n : \A x \in T : F[i][x] = add(x, i) /\ F[i][x] \in T
  <2> HIDE DEF g
  <2>1. ASSUME NEW i \in 1..n, NEW x \in T PROVE F[i][x] = add(x, i) /\ add(x, i) \in Nat
    <3>1. PICK m \in Nat : m = Len(d[i].text)
      BY <1>1
    <3>2. x + m + (IF i = b THEN 0 ELSE 2) \in Nat
      OBVIOUS
    <3>3. add(x, i) \in Nat
      BY <3>1, <3>2
    <3> HIDE DEF add
    <3> QED BY <3>3
  <2> HIDE DEF add, F
  <2> QED BY <2>1
<1> HIDE DEF g
<1>3. IsFold(g)
  <2>1. PICK h : Folds(h, F, 0, n) /\ \A s \in SUBSET (1..n) : h[s] \in T
    <3>1. n \in Nat /\ 0 \in T /\ \A x \in T, i \in 1..n : F[i][x] \in T
      <4> HIDE DEF T, n, F, add
      <4> QED BY <1>1, <1>2
    <3> HIDE DEF T, n, F
    <3> QED BY <3>1, FoldExists
  <2>2. ASSUME NEW s \in SUBSET (1..n), s # {}
        PROVE  F[Max(s)][h[s \ {Max(s)}]] = add(h[s \ {Max(s)}], ks[Max(s)])
    <3>1. Max(s) \in 1..n /\ s \ {Max(s)} \in SUBSET (1..n)
      BY <1>1, <2>2, GreatestIndex
    <3> HIDE DEF F, add, ks
    <3> QED BY <1>1, <1>2, <2>1, <3>1
  <2>3. IsFold(h)
    <3> HIDE DEF add, ks
    <3> QED BY <2>1, <2>2, Zenon DEF Folds
  <2> QED BY <2>3 DEF g
<1>4. Folds(g, F, 0, n)
  <2>1. ASSUME NEW s \in SUBSET (1..n), s # {}
        PROVE  F[Max(s)][g[s \ {Max(s)}]] = add(g[s \ {Max(s)}], ks[Max(s)])
    <3>1. Max(s) \in 1..n /\ s \ {Max(s)} \in SUBSET (1..n)
      BY <1>1, <2>1, GreatestIndex
    <3>2. F[Max(s)][g[s \ {Max(s)}]] = add(g[s \ {Max(s)}], Max(s))
      <4> HIDE DEF add
      <4> QED BY <3>1
    <3> HIDE DEF F, add, ks
    <3> QED BY <1>1, <3>1, <3>2
  <2> HIDE DEF F, add, ks
  <2> QED BY <1>3, <2>1, Zenon DEF Folds
<1>5. ClauseLength(d, b) = g[1..n]
  BY <1>1, Zenon DEF ClauseLength, FoldLeftDomain, FoldLeft, MapThenFoldSet, g
<1>6. \A i \in 1..n : \A x \in A[i - 1] : F[i][x] \in A[i]
  <2>1. \A i \in 1..n : \A x \in A[i - 1] : x \in T /\ add(x, i) \in A[i]
    OBVIOUS
  <2> HIDE DEF F, add
  <2>2. ASSUME NEW i \in 1..n, NEW x \in A[i - 1] PROVE F[i][x] \in A[i]
    <3>1. x \in T /\ add(x, i) \in A[i]
      BY <2>1
    <3>2. F[i][x] = add(x, i)
      BY <1>2, <3>1
    <3> QED BY <3>1, <3>2
  <2> QED BY <2>2
<1>7. g[1..n] \in A[n]
  <2> HIDE DEF F, T, n
  <2> QED BY <1>1, <1>4, <1>6, FoldPrefix
<1> QED BY <1>5, <1>7

\* The text of a clause of d is as long as ClauseLength says.
LEMMA ClauseLengthIs ==
  ASSUME NEW d \in Documents, NEW b \in 1..Len(d), NEW segments \in Seq(Block), segments # <<>>,
         ClauseAt(d, b, segments)
  PROVE  Len(JoinTexts(segments)) = ClauseLength(d, b)
<1>1. PICK n \in Nat, z \in Nat : n = Len(segments) /\ z = Len(d) /\ n # 0
  BY DocType
<1>2. /\ ClauseOf(d, b) = b..(b + n - 1) /\ b \in 1..z /\ b \in Nat
      /\ \A k \in 1..n : b + k - 1 \in 1..z /\ segments[k] = d[b + k - 1]
  BY <1>1 DEF ClauseAt, Stands
<1>3. \A k \in 1..Len(segments) : Letters(segments[k].text) # {}
  <2>1. \A m \in 1..z : Letters(d[m].text) # {}
    BY <1>1, DocType
  <2> QED BY <1>1, <1>2, <2>1
<1>4. PICK q : Lengths(segments, q) /\ q[Len(segments)] = Len(JoinTexts(segments))
  BY <1>3, JoinLength
<1>5. /\ q \in [0..n -> Nat] /\ q[0] = 0
      /\ \A k \in 1..n : q[k] = q[k - 1] + Len(segments[k].text) + (IF k = 1 THEN 0 ELSE 2)
  BY <1>1, <1>4 DEF Lengths
<1> DEFINE At(i) == IF i < b THEN 0 ELSE IF i <= b + n - 1 THEN i - b + 1 ELSE n
           A == [i \in 0..z |-> {q[At(i)]}]
<1>6. \A i \in 0..z : At(i) \in 0..n /\ q[At(i)] \in Nat
  <2>1. \A i \in 0..z : At(i) \in 0..n
    BY <1>2
  <2> HIDE DEF At
  <2> QED BY <1>5, <2>1
<1>7. /\ A[0] = {q[0]} /\ A[z] = {q[n]}
      /\ \A i \in 1..z : A[i] = {q[At(i)]} /\ A[i - 1] = {q[At(i - 1)]}
  <2>1. At(0) = 0 /\ At(z) = n /\ 0 \in 0..z /\ z \in 0..z
    <3>1. b + n - 1 \in 1..z
      BY <1>1, <1>2
    <3> QED BY <1>1, <1>2, <3>1
  <2>2. \A i \in 1..z : i \in 0..z /\ i - 1 \in 0..z
    OBVIOUS
  <2> HIDE DEF At
  <2> QED BY <2>1, <2>2
<1>8. ASSUME NEW i \in 1..z, NEW x \in A[i - 1]
      PROVE  /\ x \in Nat
             /\ (IF i \in ClauseOf(d, b) THEN x + Len(d[i].text) + (IF i = b THEN 0 ELSE 2) ELSE x) \in A[i]
  <2>1. x = q[At(i - 1)] /\ i - 1 \in 0..z /\ x \in Nat
    <3> HIDE DEF At, A
    <3> QED BY <1>6, <1>7
  <2>2. CASE i \in b..(b + n - 1)
    <3>1. PICK k \in 1..n : k = i - b + 1 /\ At(i) = k /\ At(i - 1) = k - 1 /\ (i = b <=> k = 1)
      BY <1>2, <2>2
    <3>2. segments[k] = d[i]
      <4>1. b + k - 1 = i
        BY <1>2, <3>1
      <4> QED BY <1>2, <4>1
    <3>3. q[k] = x + Len(d[i].text) + (IF i = b THEN 0 ELSE 2)
      <4> HIDE DEF At, A
      <4> QED BY <1>5, <2>1, <3>1, <3>2
    <3> HIDE DEF At, A
    <3>4. A[i] = {q[k]} /\ q[k] \in A[i] /\ i \in ClauseOf(d, b)
      BY <1>2, <1>7, <2>2, <3>1
    <3> QED BY <2>1, <3>3, <3>4
  <2>3. CASE i \notin b..(b + n - 1)
    <3>1. At(i) = At(i - 1)
      BY <1>1, <1>2, <2>3
    <3> HIDE DEF At, A
    <3> QED BY <1>2, <1>7, <2>1, <2>3, <3>1
  <2> QED BY <2>2, <2>3
<1>9. ClauseLength(d, b) \in A[Len(d)]
  <2>1. d \in Seq(Block) /\ 0 \in A[0]
    <3> HIDE DEF A
    <3> QED BY <1>5, <1>7, DocType
  <2> HIDE DEF A
  <2> QED BY <1>1, <1>8, <2>1, LengthFold
<1> HIDE DEF A
<1> QED BY <1>1, <1>4, <1>7, <1>9

\* A group of a document is one of its clauses: its text has the clause's letters,
\* in order, and its length.
LEMMA GroupKeeps ==
  ASSUME NEW d \in Documents, NEW g \in ClauseGroups(d)
  PROVE  /\ JoinTexts(g.segments) \in Seq(Nat) /\ InOrder(JoinTexts(g.segments))
         /\ Letters(JoinTexts(g.segments)) = LettersIn(g.segments) /\ LettersIn(g.segments) # {}
         /\ \E b \in 1..Len(d) : /\ BeginsClause(d, b)
                                 /\ LettersIn(g.segments) = ClauseText(d, b)
                                 /\ Len(JoinTexts(g.segments)) = ClauseLength(d, b)
<1>1. g.segments \in Seq(Block) /\ g.segments # <<>>
  BY GroupTypes DEF ClauseGroups
<1>2. PICK b \in 1..Len(d) : ClauseAt(d, b, g.segments)
  BY DEF ClauseGroups
<1>3. PICK n \in Nat, z \in Nat : n = Len(g.segments) /\ z = Len(d) /\ n # 0
  BY <1>1, DocType
<1>4. InTurn(TextsIn(g.segments)) /\ AllLetters(TextsIn(g.segments)) = LettersIn(g.segments)
  BY <1>2, <1>3, StandsInTurn DEF ClauseAt
<1>5. /\ JoinTexts(g.segments) \in Seq(Nat) /\ InOrder(JoinTexts(g.segments))
      /\ Letters(JoinTexts(g.segments)) = LettersIn(g.segments)
  BY <1>1, <1>4, JoinKeeps
<1>6. /\ ClauseOf(d, b) = b..(b + n - 1) /\ b \in Nat
      /\ \A k \in 1..n : b + k - 1 \in 1..z /\ g.segments[k] = d[b + k - 1]
  BY <1>2, <1>3 DEF ClauseAt, Stands
<1>7. LettersIn(g.segments) = ClauseText(d, b)
  <2>1. ASSUME NEW c \in LettersIn(g.segments) PROVE c \in ClauseText(d, b)
    <3>1. PICK k \in 1..n : c \in Letters(g.segments[k].text)
      BY <1>3 DEF LettersIn
    <3>2. b + k - 1 \in b..(b + n - 1)
      BY <1>6
    <3> QED BY <1>6, <3>1, <3>2 DEF ClauseText
  <2>2. ASSUME NEW c \in ClauseText(d, b) PROVE c \in LettersIn(g.segments)
    <3>1. PICK m \in b..(b + n - 1) : c \in Letters(d[m].text)
      BY <1>6 DEF ClauseText
    <3>2. m - b + 1 \in 1..n /\ b + (m - b + 1) - 1 = m
      BY <1>6
    <3>3. g.segments[m - b + 1] = d[m]
      BY <1>6, <3>2
    <3> QED BY <1>3, <3>1, <3>2, <3>3 DEF LettersIn
  <2> QED BY <2>1, <2>2
<1>8. LettersIn(g.segments) # {}
  <2>1. 1 \in 1..n /\ Letters(g.segments[1].text) # {}
    <3>1. 1 \in 1..n /\ b + 1 - 1 = b
      BY <1>3, <1>6
    <3>2. g.segments[1] = d[b]
      BY <1>6, <3>1
    <3> QED BY <3>1, <3>2, DocType
  <2> QED BY <1>3, <2>1 DEF LettersIn
<1>9. BeginsClause(d, b) /\ Len(JoinTexts(g.segments)) = ClauseLength(d, b)
  BY <1>1, <1>2, ClauseLengthIs DEF ClauseAt
<1> QED BY <1>5, <1>7, <1>8, <1>9

\* Paragraphs and sentences, merged, keep a text's letters, in turn: no letter is
\* a newline or a space.
LEMMA PartsKeep ==
  ASSUME NEW L, NEW text \in TextsOf(L), InOrder(text)
  PROVE  /\ InTurn(MergeSmallParts(Paragraphs(text)))
         /\ AllLetters(MergeSmallParts(Paragraphs(text))) = Letters(text)
         /\ InTurn(MergeSmallParts(Sentences(text)))
         /\ AllLetters(MergeSmallParts(Sentences(text))) = Letters(text)
<1>1. text \in Seq(Nat)
  BY DEF TextsOf
<1>2. InTurn(Paragraphs(text)) /\ AllLetters(Paragraphs(text)) = Letters(text)
  <2> DEFINE newlines == {i \in DOMAIN text : text[i] = NewLine}
             seps == {i \in newlines : {i - 1, i + 1} \cap newlines # {}}
  <2>1. \A i \in seps \cap DOMAIN text : ~IsLetter(text[i])
    BY DEF IsLetter, NewLine
  <2>2. Paragraphs(text) = SplitText(text, seps)
    BY DEF Paragraphs
  <2> HIDE DEF seps
  <2> QED BY <1>1, <2>1, <2>2, SplitKeeps
<1>3. InTurn(Sentences(text)) /\ AllLetters(Sentences(text)) = Letters(text)
  <2> DEFINE seps == {i \in DOMAIN text : text[i] = SentenceSpace}
  <2>1. \A i \in seps \cap DOMAIN text : ~IsLetter(text[i])
    BY DEF IsLetter, SentenceSpace
  <2>2. Sentences(text) = SplitText(text, seps)
    BY DEF Sentences
  <2> HIDE DEF seps
  <2> QED BY <1>1, <2>1, <2>2, SplitKeeps
<1>4. Paragraphs(text) \in Seq(PartsOf(L)) /\ Sentences(text) \in Seq(PartsOf(L))
  BY SplitType DEF Paragraphs, Sentences
<1> QED BY <1>2, <1>3, <1>4, MergeKeeps

-----------------------------------------------------------------------------
(* The character fallback                                                  *)

\* The letters of a text after its first a characters, as far as the b-th.
Between(text, a, b) == {text[i] : i \in {k \in (a + 1)..b : IsLetter(text[k])}}

\* Of a text in order, one part stands before the next, and two parts that meet
\* are one.
LEMMA BetweenTurn ==
  ASSUME NEW text \in Seq(Nat), InOrder(text), NEW a \in Nat, NEW b \in Nat, NEW c \in Nat,
         a <= b, b <= c, c <= Len(text)
  PROVE  /\ Between(text, a, c) = Between(text, a, b) \cup Between(text, b, c)
         /\ Before(Between(text, a, b), Between(text, b, c))
         /\ Between(text, a, b) \subseteq Letters(text)
         /\ Between(text, 0, Len(text)) = Letters(text)
<1>1. (a + 1)..c = ((a + 1)..b) \cup ((b + 1)..c)
  OBVIOUS
<1>2. Between(text, a, c) = Between(text, a, b) \cup Between(text, b, c)
  BY <1>1 DEF Between
<1>3. ASSUME NEW x \in Between(text, a, b), NEW y \in Between(text, b, c) PROVE x < y
  <2>1. PICK i \in (a + 1)..b : x = text[i] /\ IsLetter(text[i])
    BY DEF Between
  <2>2. PICK j \in (b + 1)..c : y = text[j] /\ IsLetter(text[j])
    BY DEF Between
  <2>3. i \in 1..Len(text) /\ j \in 1..Len(text) /\ i < j /\ DOMAIN text = 1..Len(text)
    OBVIOUS
  <2> QED BY <2>1, <2>2, <2>3 DEF InOrder
<1>4. Between(text, a, b) \subseteq Letters(text)
  <2>1. \A i \in (a + 1)..b : i \in 1..Len(text)
    OBVIOUS
  <2> QED BY <2>1, LettersAt DEF Between
<1>5. Between(text, 0, Len(text)) = Letters(text)
  <2>1. Between(text, 0, Len(text)) \subseteq Letters(text)
    BY LettersAt DEF Between
  <2>2. ASSUME NEW c1 \in Letters(text) PROVE c1 \in Between(text, 0, Len(text))
    <3>1. PICK i \in 1..Len(text) : text[i] = c1 /\ IsLetter(c1)
      BY LettersAt
    <3> QED BY <3>1 DEF Between
  <2> QED BY <2>1, <2>2
<1> QED BY <1>2, <1>3, <1>4, <1>5 DEF Before

\* The chunk of a round has the letters from its start to its end, in order, and
\* those that it begins with at its beginning.
LEMMA CharacterPiece ==
  ASSUME NEW text \in Seq(Nat), InOrder(text), NEW start \in Nat, NEW end \in Nat,
         start < end, end <= Len(text)
  PROVE  LET content == Strip(SubSeq(text, start + 1, end))
         IN  /\ content \in Seq(Nat) /\ InOrder(content)
             /\ Letters(content) = Between(text, start, end)
             /\ \A k \in Nat : start + k <= end =>
                  Between(text, start, start + k) \subseteq Range(SubSeq(content, 1, k))
<1> DEFINE part == SubSeq(text, start + 1, end)
<1>1. /\ part \in Seq(Nat) /\ Len(part) = end - start
      /\ \A i \in 1..(end - start) : part[i] = text[start + i]
      /\ Letters(part) = Between(text, start, end)
      /\ InOrder(part)
  <2>1. start + 1 \in Nat /\ 1 <= start + 1 /\ end - (start + 1) + 1 = end - start /\ start + 1 <= end
    OBVIOUS
  <2>2. \A i \in 1..(end - start) : (start + 1) + i - 1 = start + i
    OBVIOUS
  <2>3. /\ part \in Seq(Nat)
        /\ Len(part) = IF start + 1 <= end THEN end - (start + 1) + 1 ELSE 0
        /\ \A i \in 1..(end - (start + 1) + 1) : part[i] = text[(start + 1) + i - 1]
        /\ Letters(part) = {text[i] : i \in {k \in (start + 1)..end : IsLetter(text[k])}}
        /\ InOrder(text) => InOrder(part)
    BY <2>1, SubKeeps
  <2> HIDE DEF part
  <2> QED BY <2>1, <2>2, <2>3 DEF Between
<1> HIDE DEF part
<1>2. /\ Letters(Strip(part)) = Letters(part)
      /\ InOrder(part) => InOrder(Strip(part))
      /\ \A k \in Nat, i \in 1..Len(part) : i <= k /\ IsLetter(part[i])
           => part[i] \in Range(SubSeq(Strip(part), 1, k))
  BY <1>1, StripKeeps
<1>3. Strip(part) \in Seq(Nat)
  <2>1. part \in TextsOf(Nat)
    BY <1>1, LettersAt DEF TextsOf
  <2> QED BY <2>1, StripType DEF TextsOf
<1>4. ASSUME NEW k \in Nat, start + k <= end, NEW c \in Between(text, start, start + k)
      PROVE  c \in Range(SubSeq(Strip(part), 1, k))
  <2>1. PICK j \in (start + 1)..(start + k) : c = text[j] /\ IsLetter(text[j])
    BY DEF Between
  <2>2. PICK i \in 1..k : j = start + i /\ i \in 1..(end - start)
    <3>1. j - start \in 1..k /\ j - start \in 1..(end - start) /\ j = start + (j - start)
      BY <1>4
    <3> QED BY <3>1
  <2>3. part[i] = c /\ i \in 1..Len(part) /\ i <= k
    BY <1>1, <2>1, <2>2
  <2> QED BY <1>2, <2>1, <2>3
<1> QED BY <1>1, <1>2, <1>3, <1>4 DEF part

\* How far a piece's text stands in chunks, the letters that do not yet and those
\* that its next chunk repeats.
Written(p) == IF p.start = 0 THEN 0 ELSE p.start + ChunkOverlap
Waiting(p) == Between(p.text, Written(p), Len(p.text))
Repeated(p) == Between(p.text, p.start, Written(p))

\* A piece that has not been cut.
LEMMA WholePiece ==
  ASSUME NEW p, p.text \in Seq(Nat), InOrder(p.text), p.start = 0
  PROVE  Written(p) = 0 /\ Waiting(p) = Letters(p.text) /\ Repeated(p) = {}
<1>1. Len(p.text) \in Nat /\ Written(p) = 0
  BY DEF Written
<1>2. Between(p.text, 0, Len(p.text)) = Letters(p.text)
  BY <1>1, BetweenTurn
<1>3. Between(p.text, 0, 0) = {}
  <2>1. (0 + 1)..0 = {}
    OBVIOUS
  <2> QED BY <2>1 DEF Between
<1> QED BY <1>1, <1>2, <1>3 DEF Waiting, Repeated

\* A round of the fallback: its chunk has the letters that it repeats, at its
\* beginning, and the next ones; what it leaves stands behind them, and of that
\* the next round repeats only what this one writes.
InRound(p, end, content) ==
  /\ content \in Seq(Nat) /\ InOrder(content)
  /\ Letters(content) = Repeated(p) \cup Between(p.text, Written(p), end)
  /\ Repeated(p) \subseteq Range(SubSeq(content, 1, ChunkOverlap))
  /\ Waiting(p) = Between(p.text, Written(p), end) \cup Between(p.text, end, Len(p.text))
  /\ Before(Letters(content), Between(p.text, end, Len(p.text)))
  /\ ~(end < Len(p.text)) => Between(p.text, end, Len(p.text)) = {}
  /\ end < Len(p.text) =>
       \A r : r.text = p.text /\ r.start = end - ChunkOverlap =>
         /\ Written(r) = end
         /\ Waiting(r) = Between(p.text, end, Len(p.text))
         /\ Repeated(r) \subseteq Between(p.text, Written(p), end)
LEMMA RoundKeeps ==
  ASSUME NEW p, p.text \in Seq(Nat), InOrder(p.text), p.start \in Nat, p.start < Len(p.text),
         Written(p) < Len(p.text),
         NEW end, end = PieceEnd(p.text, p.start),
         NEW content, content = Strip(SubSeq(p.text, p.start + 1, end))
  PROVE  InRound(p, end, content)
<1> DEFINE text == p.text
           start == p.start
           w == Written(p)
           n == Len(text)
<1>1. /\ ChunkOverlap \in Nat /\ n \in Nat /\ start \in Nat /\ w \in Nat
      /\ w = IF start = 0 THEN 0 ELSE start + ChunkOverlap
      /\ end \in Nat /\ start < end /\ end <= n
      /\ end < n => end > start + 2 * ChunkOverlap
  <2>1. ChunkOverlap \in Nat /\ Len(p.text) \in Nat
    BY SizesAssumption
  <2>2. /\ PieceEnd(text, start) \in (start + 1)..n
        /\ PieceEnd(text, start) < n => PieceEnd(text, start) > start + 2 * ChunkOverlap
    BY PieceEnds
  <2> HIDE DEF text, start, n
  <2> QED BY <2>1, <2>2 DEF Written, text, start, n
<1>2. start <= w /\ w <= end /\ w < n /\ w <= start + ChunkOverlap
  <2>1. w < n
    OBVIOUS
  <2> HIDE DEF w, n, start
  <2> QED BY <1>1, <2>1
<1>3. /\ content \in Seq(Nat) /\ InOrder(content)
      /\ Letters(content) = Between(text, start, end)
      /\ \A k \in Nat : start + k <= end =>
           Between(text, start, start + k) \subseteq Range(SubSeq(content, 1, k))
  <2>1. text \in Seq(Nat) /\ InOrder(text)
    OBVIOUS
  <2> HIDE DEF n, w
  <2> QED BY <1>1, <2>1, CharacterPiece DEF n
<1>4. /\ Between(text, start, end) = Between(text, start, w) \cup Between(text, w, end)
      /\ Between(text, w, n) = Between(text, w, end) \cup Between(text, end, n)
      /\ Before(Between(text, start, end), Between(text, end, n))
  <2>1. text \in Seq(Nat) /\ InOrder(text)
    OBVIOUS
  <2> HIDE DEF w, start
  <2> QED BY <1>1, <1>2, <2>1, BetweenTurn
<1>5. Repeated(p) \subseteq Range(SubSeq(content, 1, ChunkOverlap))
  <2>1. CASE start = 0
    <3>1. Repeated(p) = {}
      BY <2>1, WholePiece
    <3> QED BY <3>1
  <2>2. CASE start # 0
    <3>1. w = start + ChunkOverlap
      BY <1>1, <2>2
    <3>2. Between(text, start, start + ChunkOverlap) \subseteq Range(SubSeq(content, 1, ChunkOverlap))
      <4> HIDE DEF w, n
      <4> QED BY <1>1, <1>2, <1>3, <3>1
    <3> QED BY <3>1, <3>2 DEF Repeated
  <2> QED BY <2>1, <2>2
<1>6. ~(end < n) => Between(text, end, n) = {}
  <2>1. ~(end < n) => (end + 1)..n = {}
    <3> HIDE DEF n
    <3> QED BY <1>1
  <2> HIDE DEF n
  <2> QED BY <2>1 DEF Between
<1>7. ASSUME end < n, NEW r, r.text = text, r.start = end - ChunkOverlap
      PROVE  /\ Written(r) = end
             /\ Waiting(r) = Between(text, end, n)
             /\ Repeated(r) \subseteq Between(text, w, end)
  <2>1. /\ end - ChunkOverlap \in Nat /\ end - ChunkOverlap # 0 /\ w <= end - ChunkOverlap
        /\ end - ChunkOverlap + ChunkOverlap = end /\ end - ChunkOverlap <= end
    <3> HIDE DEF n, w, start
    <3> QED BY <1>1, <1>2, <1>7
  <2>2. Written(r) = end
    BY <1>7, <2>1 DEF Written
  <2>3. Between(text, w, end) = Between(text, w, end - ChunkOverlap) \cup Between(text, end - ChunkOverlap, end)
    <3>1. text \in Seq(Nat) /\ InOrder(text)
      OBVIOUS
    <3>2. PICK s \in Nat : s = end - ChunkOverlap /\ w <= s /\ s <= end
      BY <2>1
    <3> HIDE DEF w, start, text
    <3>3. Between(text, w, end) = Between(text, w, s) \cup Between(text, s, end)
      <4>1. w \in Nat /\ end \in Nat /\ end <= Len(text)
        BY <1>1
      <4> HIDE DEF n
      <4> QED BY <3>1, <3>2, <4>1, BetweenTurn
    <3> QED BY <3>2, <3>3
  <2> QED BY <1>7, <2>2, <2>3 DEF Waiting, Repeated
<1> QED BY <1>3, <1>4, <1>5, <1>6, <1>7 DEF Waiting, Repeated, InRound

-----------------------------------------------------------------------------
(* What is still to cut is in turn                                         *)

\* The first group and the others.
LEMMA GroupsTail ==
  ASSUME NEW d \in Documents, NEW gs \in Seq(ClauseGroups(d)), gs # <<>>, Lined(LettersPer(gs))
  PROVE  /\ Head(gs) \in ClauseGroups(d) /\ Tail(gs) \in Seq(ClauseGroups(d))
         /\ Lined(LettersPer(Tail(gs)))
         /\ Together(LettersPer(gs)) = LettersOf(Head(gs)) \cup Together(LettersPer(Tail(gs)))
         /\ Before(LettersOf(Head(gs)), Together(LettersPer(Tail(gs))))
<1>1. PICK n \in Nat, rest \in Seq(ClauseGroups(d)) :
        /\ n = Len(gs) /\ n # 0 /\ Head(gs) = gs[1] /\ Head(gs) \in ClauseGroups(d)
        /\ rest = Tail(gs) /\ Len(rest) = n - 1 /\ \A k \in 1..(n - 1) : rest[k] = gs[k + 1]
  <2>1. /\ Head(gs) = gs[1] /\ Head(gs) \in ClauseGroups(d) /\ Tail(gs) \in Seq(ClauseGroups(d))
        /\ Len(Tail(gs)) = Len(gs) - 1 /\ \A k \in 1..Len(Tail(gs)) : Tail(gs)[k] = gs[k + 1]
    BY HeadTailProperties
  <2>2. Len(gs) \in Nat /\ Len(gs) # 0
    OBVIOUS
  <2> QED BY <2>1, <2>2
<1>2. /\ Len(LettersPer(gs)) = n /\ \A k \in 1..n : LettersPer(gs)[k] = LettersOf(gs[k])
      /\ Len(LettersPer(rest)) = n - 1 /\ \A k \in 1..(n - 1) : LettersPer(rest)[k] = LettersOf(gs[k + 1])
  BY <1>1 DEF LettersPer, LettersOf, LettersIn
<1>3. \A j, k \in 1..n : j < k => Before(LettersOf(gs[j]), LettersOf(gs[k]))
  BY <1>2 DEF Lined
<1>4. Lined(LettersPer(rest))
  <2> SUFFICES ASSUME NEW j \in 1..(n - 1), NEW k \in 1..(n - 1), j < k
               PROVE  Before(LettersOf(gs[j + 1]), LettersOf(gs[k + 1]))
    BY <1>2 DEF Lined
  <2>1. j + 1 \in 1..n /\ k + 1 \in 1..n /\ j + 1 < k + 1
    OBVIOUS
  <2> QED BY <1>3, <2>1
<1>5. Before(LettersOf(gs[1]), Together(LettersPer(rest)))
  <2> SUFFICES ASSUME NEW c \in LettersOf(gs[1]), NEW e \in Together(LettersPer(rest)) PROVE c < e
    BY DEF Before
  <2>1. PICK k \in 1..(n - 1) : e \in LettersOf(gs[k + 1])
    BY <1>2 DEF Together
  <2>2. 1 \in 1..n /\ k + 1 \in 1..n /\ 1 < k + 1
    BY <1>1
  <2> QED BY <1>3, <2>1, <2>2 DEF Before
<1>6. Together(LettersPer(gs)) = LettersOf(gs[1]) \cup Together(LettersPer(rest))
  <2>1. ASSUME NEW c \in Together(LettersPer(gs)) PROVE c \in LettersOf(gs[1]) \cup Together(LettersPer(rest))
    <3>1. PICK k \in 1..n : c \in LettersOf(gs[k])
      BY <1>2 DEF Together
    <3>2. CASE k = 1
      BY <3>1, <3>2
    <3>3. CASE k # 1
      <4>1. k - 1 \in 1..(n - 1) /\ (k - 1) + 1 = k
        BY <3>3
      <4>2. LettersPer(rest)[k - 1] = LettersOf(gs[k])
        BY <1>2, <4>1
      <4> QED BY <1>2, <3>1, <4>1, <4>2 DEF Together
    <3> QED BY <3>2, <3>3
  <2>2. ASSUME NEW c \in LettersOf(gs[1]) \cup Together(LettersPer(rest)) PROVE c \in Together(LettersPer(gs))
    <3>1. CASE c \in LettersOf(gs[1])
      <4>1. 1 \in 1..n
        BY <1>1
      <4> QED BY <1>2, <3>1, <4>1 DEF Together
    <3>2. CASE c \in Together(LettersPer(rest))
      <4>1. PICK k \in 1..(n - 1) : c \in LettersOf(gs[k + 1])
        BY <1>2, <3>2 DEF Together
      <4>2. k + 1 \in 1..n
        OBVIOUS
      <4> QED BY <1>2, <4>1, <4>2 DEF Together
    <3> QED BY <2>2, <3>1, <3>2
  <2> QED BY <2>1, <2>2
<1> QED BY <1>1, <1>4, <1>5, <1>6

\* The first piece and the others.
LEMMA PiecesTail ==
  ASSUME NEW S, NEW ps \in Seq(S), ps # <<>>, InTurn(TextsIn(ps))
  PROVE  /\ ps[1] \in S /\ Tail(ps) \in Seq(S) /\ InTurn(TextsIn(Tail(ps)))
         /\ AllLetters(TextsIn(ps)) = Letters(ps[1].text) \cup AllLetters(TextsIn(Tail(ps)))
         /\ Before(Letters(ps[1].text), AllLetters(TextsIn(Tail(ps))))
         /\ InOrder(ps[1].text) /\ Letters(ps[1].text) # {}
<1>1. PICK n \in Nat, rest \in Seq(S) :
        /\ n = Len(ps) /\ n # 0 /\ ps[1] \in S
        /\ rest = Tail(ps) /\ Len(rest) = n - 1 /\ \A k \in 1..(n - 1) : rest[k] = ps[k + 1]
  <2>1. /\ Head(ps) = ps[1] /\ Head(ps) \in S /\ Tail(ps) \in Seq(S)
        /\ Len(Tail(ps)) = Len(ps) - 1 /\ \A k \in 1..Len(Tail(ps)) : Tail(ps)[k] = ps[k + 1]
    BY HeadTailProperties
  <2>2. Len(ps) \in Nat /\ Len(ps) # 0
    OBVIOUS
  <2> QED BY <2>1, <2>2
<1>2. /\ Len(TextsIn(ps)) = n /\ \A k \in 1..n : TextsIn(ps)[k] = ps[k].text
      /\ Len(TextsIn(rest)) = n - 1 /\ \A k \in 1..(n - 1) : TextsIn(rest)[k] = ps[k + 1].text
  BY <1>1 DEF TextsIn
<1>3. /\ \A k \in 1..n : InOrder(ps[k].text) /\ Letters(ps[k].text) # {}
      /\ \A j, k \in 1..n : j < k => Before(Letters(ps[j].text), Letters(ps[k].text))
  BY <1>2 DEF InTurn
<1>4. InTurn(TextsIn(rest))
  <2>1. \A k \in 1..(n - 1) : k + 1 \in 1..n
    OBVIOUS
  <2>2. ASSUME NEW j \in 1..(n - 1), NEW k \in 1..(n - 1), j < k
        PROVE  Before(Letters(ps[j + 1].text), Letters(ps[k + 1].text))
    <3>1. j + 1 \in 1..n /\ k + 1 \in 1..n /\ j + 1 < k + 1
      BY <2>2
    <3> QED BY <1>3, <3>1
  <2>3. \A k \in 1..(n - 1) : InOrder(TextsIn(rest)[k]) /\ Letters(TextsIn(rest)[k]) # {}
    BY <1>2, <1>3, <2>1
  <2>4. \A j, k \in 1..(n - 1) : j < k => Before(Letters(TextsIn(rest)[j]), Letters(TextsIn(rest)[k]))
    BY <1>2, <2>2
  <2>5. Len(TextsIn(rest)) = n - 1
    BY <1>2
  <2> QED BY <2>3, <2>4, <2>5 DEF InTurn
<1>5. Before(Letters(ps[1].text), AllLetters(TextsIn(rest)))
  <2> SUFFICES ASSUME NEW c \in Letters(ps[1].text), NEW e \in AllLetters(TextsIn(rest)) PROVE c < e
    BY DEF Before
  <2>1. PICK k \in 1..(n - 1) : e \in Letters(ps[k + 1].text)
    BY <1>2 DEF AllLetters, LettersUpTo
  <2>2. 1 \in 1..n /\ k + 1 \in 1..n /\ 1 < k + 1
    BY <1>1
  <2> QED BY <1>3, <2>1, <2>2 DEF Before
<1>6. AllLetters(TextsIn(ps)) = Letters(ps[1].text) \cup AllLetters(TextsIn(rest))
  <2>1. ASSUME NEW c \in AllLetters(TextsIn(ps))
        PROVE  c \in Letters(ps[1].text) \cup AllLetters(TextsIn(rest))
    <3>1. PICK k \in 1..n : c \in Letters(ps[k].text)
      BY <1>2 DEF AllLetters, LettersUpTo
    <3>2. CASE k = 1
      BY <3>1, <3>2
    <3>3. CASE k # 1
      <4>1. k - 1 \in 1..(n - 1) /\ (k - 1) + 1 = k
        BY <3>3
      <4>2. TextsIn(rest)[k - 1] = ps[k].text
        BY <1>2, <4>1
      <4> QED BY <1>2, <3>1, <4>1, <4>2 DEF AllLetters, LettersUpTo
    <3> QED BY <3>2, <3>3
  <2>2. ASSUME NEW c \in Letters(ps[1].text) \cup AllLetters(TextsIn(rest))
        PROVE  c \in AllLetters(TextsIn(ps))
    <3>1. CASE c \in Letters(ps[1].text)
      <4>1. 1 \in 1..n
        BY <1>1
      <4> QED BY <1>2, <3>1, <4>1 DEF AllLetters, LettersUpTo
    <3>2. CASE c \in AllLetters(TextsIn(rest))
      <4>1. PICK k \in 1..(n - 1) : c \in Letters(ps[k + 1].text)
        BY <1>2, <3>2 DEF AllLetters, LettersUpTo
      <4>2. k + 1 \in 1..n
        OBVIOUS
      <4> QED BY <1>2, <4>1, <4>2 DEF AllLetters, LettersUpTo
    <3> QED BY <2>2, <3>1, <3>2
  <2> QED BY <2>1, <2>2
<1>7. 1 \in 1..n
  BY <1>1
<1> QED BY <1>1, <1>3, <1>4, <1>5, <1>6, <1>7

\* Pieces put before others.
LEMMA PiecesConcat ==
  ASSUME NEW S, NEW x \in Seq(S), NEW y \in Seq(S), InTurn(TextsIn(x)), InTurn(TextsIn(y)),
         Before(AllLetters(TextsIn(x)), AllLetters(TextsIn(y)))
  PROVE  /\ x \o y \in Seq(S) /\ InTurn(TextsIn(x \o y))
         /\ AllLetters(TextsIn(x \o y)) = AllLetters(TextsIn(x)) \cup AllLetters(TextsIn(y))
<1>1. PICK w \in Seq(S), m \in Nat, n \in Nat :
         /\ w = x \o y /\ m = Len(x) /\ n = Len(y) /\ Len(w) = m + n
         /\ \A k \in 1..(m + n) : w[k] = IF k <= m THEN x[k] ELSE y[k - m]
  <2>1. /\ x \o y \in Seq(S) /\ Len(x \o y) = Len(x) + Len(y)
        /\ \A k \in 1..Len(x) + Len(y) : (x \o y)[k] = IF k <= Len(x) THEN x[k] ELSE y[k - Len(x)]
    BY ConcatProperties
  <2>2. Len(x) \in Nat /\ Len(y) \in Nat
    OBVIOUS
  <2> QED BY <2>1, <2>2
<1> DEFINE X(k) == Letters(x[k].text)
           Y(k) == Letters(y[k].text)
           W(k) == Letters(w[k].text)
<1>2. /\ \A k \in 1..m : InOrder(x[k].text) /\ X(k) # {}
      /\ \A j, k \in 1..m : j < k => Before(X(j), X(k))
      /\ \A c : c \in AllLetters(TextsIn(x)) <=> \E k \in 1..m : c \in X(k)
  BY <1>1 DEF InTurn, TextsIn, AllLetters, LettersUpTo
<1>3. /\ \A k \in 1..n : InOrder(y[k].text) /\ Y(k) # {}
      /\ \A j, k \in 1..n : j < k => Before(Y(j), Y(k))
      /\ \A c : c \in AllLetters(TextsIn(y)) <=> \E k \in 1..n : c \in Y(k)
  BY <1>1 DEF InTurn, TextsIn, AllLetters, LettersUpTo
<1>4. \A j \in 1..m, k \in 1..n : Before(X(j), Y(k))
  BY <1>2, <1>3 DEF Before
<1>5. \A k \in 1..(m + n) : \/ k \in 1..m /\ w[k] = x[k]
                            \/ k > m /\ k - m \in 1..n /\ w[k] = y[k - m]
  <2> SUFFICES ASSUME NEW k \in 1..(m + n) PROVE \/ k \in 1..m /\ w[k] = x[k]
                                                 \/ k > m /\ k - m \in 1..n /\ w[k] = y[k - m]
    OBVIOUS
  <2>1. CASE k <= m
    BY <1>1, <2>1
  <2>2. CASE ~(k <= m)
    BY <1>1, <2>2
  <2> QED BY <2>1, <2>2
<1>6. \A k \in 1..(m + n) : InOrder(w[k].text) /\ W(k) # {}
  BY <1>2, <1>3, <1>5
<1>7. ASSUME NEW j \in 1..(m + n), NEW k \in 1..(m + n), j < k PROVE Before(W(j), W(k))
  <2>1. CASE k \in 1..m /\ w[k] = x[k]
    <3>1. j \in 1..m /\ ~(j > m)
      BY <1>7, <2>1
    <3> HIDE DEF X
    <3>2. W(j) = X(j) /\ W(k) = X(k)
      BY <1>5, <2>1, <3>1 DEF X
    <3> QED BY <1>2, <1>7, <2>1, <3>1, <3>2
  <2>2. CASE k > m /\ k - m \in 1..n /\ w[k] = y[k - m]
    <3>1. CASE j \in 1..m /\ w[j] = x[j]
      BY <1>4, <2>2, <3>1
    <3>2. CASE j > m /\ j - m \in 1..n /\ w[j] = y[j - m]
      <4>1. j - m < k - m
        BY <1>7
      <4> QED BY <1>3, <2>2, <3>2, <4>1
    <3> QED BY <1>5, <3>1, <3>2
  <2> QED BY <1>5, <2>1, <2>2
<1>8. InTurn(TextsIn(w))
  <2>1. Len(TextsIn(w)) = m + n /\ \A k \in 1..(m + n) : TextsIn(w)[k] = w[k].text
    BY <1>1 DEF TextsIn
  <2> QED BY <1>6, <1>7, <2>1 DEF InTurn
<1>9. \A c : c \in AllLetters(TextsIn(w)) <=> \E k \in 1..(m + n) : c \in W(k)
  <2>1. Len(TextsIn(w)) = m + n /\ \A k \in 1..(m + n) : TextsIn(w)[k] = w[k].text
    BY <1>1 DEF TextsIn
  <2> QED BY <2>1 DEF AllLetters, LettersUpTo
<1>10. \A k \in 1..m : k \in 1..(m + n) /\ w[k] = x[k]
  BY <1>1
<1>11. ASSUME NEW k \in 1..n PROVE k + m \in 1..(m + n) /\ w[k + m] = y[k]
  <2>1. k + m \in 1..(m + n) /\ ~(k + m <= m) /\ (k + m) - m = k
    OBVIOUS
  <2> QED BY <1>1, <2>1
<1>12. AllLetters(TextsIn(w)) = AllLetters(TextsIn(x)) \cup AllLetters(TextsIn(y))
  <2>1. ASSUME NEW c \in AllLetters(TextsIn(w))
        PROVE  c \in AllLetters(TextsIn(x)) \cup AllLetters(TextsIn(y))
    BY <1>2, <1>3, <1>5, <1>9
  <2>2. ASSUME NEW c \in AllLetters(TextsIn(x)) PROVE c \in AllLetters(TextsIn(w))
    BY <1>2, <1>9, <1>10
  <2>3. ASSUME NEW c \in AllLetters(TextsIn(y)) PROVE c \in AllLetters(TextsIn(w))
    <3>1. PICK k \in 1..n : c \in Y(k)
      BY <1>3
    <3>2. c \in W(k + m)
      BY <1>11, <3>1
    <3> QED BY <1>9, <1>11, <3>2
  <2> QED BY <2>1, <2>2, <2>3
<1> QED BY <1>1, <1>8, <1>12

-----------------------------------------------------------------------------
(* What is still to cut, step by step                                      *)

\* What is left to cut of groups gs when pieces ps of the first are, behind the
\* first piece and with it.
RestOf(ps, gs) == AllLetters(TextsIn(Tail(ps))) \cup Together(LettersPer(Tail(gs)))
LeftOf(ps, gs) ==
  IF ps = <<>> THEN Together(LettersPer(gs)) ELSE Waiting(ps[1]) \cup RestOf(ps, gs)

\* What the next chunk repeats.
AgainOf(ps) == IF ps = <<>> THEN {} ELSE Repeated(ps[1])

\* Groups stand in turn, and so do the pieces of the first, which is too long to
\* be one chunk; only the first piece may have been begun, by characters.
PiecesInTurn(ps, gs) ==
  /\ gs # <<>>
  /\ ps \in Seq(PiecesOf(LettersOf(Head(gs))))
  /\ InTurn(TextsIn(ps))
  /\ Written(ps[1]) < Len(ps[1].text)
  /\ \A k \in 1..Len(ps) : k # 1 \/ ps[k].level # "character" => ps[k].start = 0
  /\ Len(JoinTexts(Head(gs).segments)) > MaxChunkSize
QueueInv(ps, gs, d) ==
  /\ gs \in Seq(ClauseGroups(d)) /\ Lined(LettersPer(gs))
  /\ ps # <<>> => PiecesInTurn(ps, gs)

\* The first piece stands before the rest.
LEMMA FirstPiece ==
  ASSUME NEW d \in Documents, NEW gs, NEW ps, QueueInv(ps, gs, d), ps # <<>>
  PROVE  /\ ps[1] \in PiecesOf(LettersOf(Head(gs))) /\ ps[1].text \in Seq(Nat) /\ ps[1].start \in Nat
         /\ ps[1].text \in TextsOf(LettersOf(Head(gs)))
         /\ InOrder(ps[1].text) /\ Letters(ps[1].text) # {} /\ Len(ps[1].text) \in Nat
         /\ ps[1].start < Len(ps[1].text)
         /\ Before(Letters(ps[1].text), RestOf(ps, gs))
         /\ LeftOf(ps, gs) = Waiting(ps[1]) \cup RestOf(ps, gs)
         /\ gs \in Seq(ClauseGroups(d)) /\ gs # <<>> /\ Head(gs) \in ClauseGroups(d)
<1> DEFINE S == PiecesOf(LettersOf(Head(gs)))
<1>1. /\ ps \in Seq(S) /\ InTurn(TextsIn(ps)) /\ gs # <<>> /\ gs \in Seq(ClauseGroups(d))
      /\ Lined(LettersPer(gs))
  BY DEF QueueInv, PiecesInTurn
<1>2. /\ ps[1] \in S /\ InOrder(ps[1].text) /\ Letters(ps[1].text) # {}
      /\ Before(Letters(ps[1].text), AllLetters(TextsIn(Tail(ps))))
  <2> HIDE DEF S
  <2> QED BY <1>1, PiecesTail
<1>3. /\ ps[1].text \in PartsOf(LettersOf(Head(gs))) /\ ps[1].start \in Nat
      /\ ps[1].start < Len(ps[1].text)
  BY <1>2 DEF PiecesOf
<1>4. /\ ps[1].text \in TextsOf(LettersOf(Head(gs))) /\ ps[1].text \in Seq(Nat)
      /\ Letters(ps[1].text) \subseteq LettersOf(Head(gs))
  BY <1>3 DEF PartsOf, TextsOf
<1>5. Head(gs) \in ClauseGroups(d) /\ Before(LettersOf(Head(gs)), Together(LettersPer(Tail(gs))))
  BY <1>1, GroupsTail
<1>6. Before(Letters(ps[1].text), RestOf(ps, gs))
  BY <1>2, <1>4, <1>5 DEF Before, RestOf
<1>7. LeftOf(ps, gs) = Waiting(ps[1]) \cup RestOf(ps, gs)
  BY DEF LeftOf
<1> QED BY <1>1, <1>2, <1>3, <1>4, <1>5, <1>6, <1>7

\* Pieces that have not been begun.
LEMMA WholePieces ==
  ASSUME NEW d \in Documents, NEW gs, NEW ps, QueueInv(ps, gs, d), ps # <<>>, ps[1].start = 0
  PROVE  /\ LeftOf(ps, gs) = AllLetters(TextsIn(ps)) \cup Together(LettersPer(Tail(gs)))
         /\ LeftOf(ps, gs) = Letters(ps[1].text) \cup RestOf(ps, gs)
         /\ AgainOf(ps) = {}
<1>1. Waiting(ps[1]) = Letters(ps[1].text) /\ Repeated(ps[1]) = {}
  BY FirstPiece, WholePiece
<1>2. LeftOf(ps, gs) = Letters(ps[1].text) \cup RestOf(ps, gs)
  BY <1>1, FirstPiece
<1> DEFINE S == PiecesOf(LettersOf(Head(gs)))
<1>3. ps \in Seq(S) /\ InTurn(TextsIn(ps))
  BY DEF QueueInv, PiecesInTurn
<1>4. AllLetters(TextsIn(ps)) = Letters(ps[1].text) \cup AllLetters(TextsIn(Tail(ps)))
  <2> HIDE DEF S
  <2> QED BY <1>3, PiecesTail
<1> QED BY <1>1, <1>2, <1>4 DEF RestOf, AgainOf

\* The first piece is done.
LEMMA DropPiece ==
  ASSUME NEW d \in Documents, NEW gs, NEW ps, QueueInv(ps, gs, d), ps # <<>>,
         NEW rest, rest = Tail(ps), NEW left, left = IF rest = <<>> THEN Tail(gs) ELSE gs
  PROVE  QueueInv(rest, left, d) /\ LeftOf(rest, left) = RestOf(ps, gs) /\ AgainOf(rest) = {}
<1> DEFINE S == PiecesOf(LettersOf(Head(gs)))
<1>1. /\ ps \in Seq(S) /\ InTurn(TextsIn(ps)) /\ gs # <<>> /\ gs \in Seq(ClauseGroups(d))
      /\ Lined(LettersPer(gs)) /\ Len(JoinTexts(Head(gs).segments)) > MaxChunkSize
      /\ \A k \in 1..Len(ps) : k # 1 \/ ps[k].level # "character" => ps[k].start = 0
  BY DEF QueueInv, PiecesInTurn
<1>2. /\ rest \in Seq(S) /\ InTurn(TextsIn(rest))
  <2> HIDE DEF S
  <2> QED BY <1>1, PiecesTail
<1>3. CASE rest = <<>>
  <2>1. Tail(gs) \in Seq(ClauseGroups(d)) /\ Lined(LettersPer(Tail(gs)))
    BY <1>1, GroupsTail
  <2>2. AllLetters(TextsIn(rest)) = {}
    <3>1. Len(<<>>) = 0 /\ 1..0 = {}
      OBVIOUS
    <3>2. Len(TextsIn(<<>>)) = 0
      BY <3>1 DEF TextsIn
    <3> QED BY <1>3, <3>1, <3>2 DEF AllLetters, LettersUpTo
  <2> QED BY <1>3, <2>1, <2>2 DEF QueueInv, LeftOf, RestOf, AgainOf
<1>4. CASE rest # <<>>
  <2>1. /\ Len(rest) = Len(ps) - 1 /\ Len(rest) \in Nat /\ Len(rest) # 0 /\ Len(ps) \in Nat
        /\ \A k \in 1..Len(rest) : rest[k] = ps[k + 1]
    BY <1>1, <1>2, <1>4, HeadTailProperties
  <2>2. \A k \in 1..Len(rest) : rest[k].start = 0
    <3>1. \A k \in 1..Len(rest) : k + 1 \in 1..Len(ps) /\ k + 1 # 1
      BY <2>1
    <3> QED BY <1>1, <2>1, <3>1
  <2>3. 1 \in 1..Len(rest) /\ rest[1] \in S
    <3>1. 1 \in 1..Len(rest)
      BY <2>1
    <3> HIDE DEF S
    <3> QED BY <1>2, <3>1
  <2>4. Written(rest[1]) = 0 /\ 0 < Len(rest[1].text)
    BY <2>2, <2>3 DEF PiecesOf, Written
  <2>5. left = gs /\ PiecesInTurn(rest, gs)
    BY <1>1, <1>2, <1>4, <2>2, <2>4 DEF PiecesInTurn
  <2>6. QueueInv(rest, gs, d)
    BY <1>1, <2>5 DEF QueueInv
  <2>7. /\ LeftOf(rest, gs) = AllLetters(TextsIn(rest)) \cup Together(LettersPer(Tail(gs)))
        /\ AgainOf(rest) = {}
    BY <1>4, <2>2, <2>3, <2>6, WholePieces
  <2> QED BY <2>5, <2>6, <2>7 DEF RestOf
<1> QED BY <1>3, <1>4

\* The first piece has been cut, or is left to the next level.
Replaced(qs, p, ps, gs, d) ==
  /\ QueueInv(qs, gs, d)
  /\ LeftOf(qs, gs) = Waiting(p) \cup RestOf(ps, gs)
  /\ AgainOf(qs) = Repeated(p)
LEMMA ReplacePiece ==
  ASSUME NEW d \in Documents, NEW gs, NEW ps, QueueInv(ps, gs, d), ps # <<>>,
         NEW p \in PiecesOf(LettersOf(Head(gs))), p.text = ps[1].text, p.level = "character",
         Written(p) < Len(p.text)
  PROVE  Replaced([ps EXCEPT ![1] = p], p, ps, gs, d)
<1> DEFINE S == PiecesOf(LettersOf(Head(gs)))
<1>1. /\ ps \in Seq(S) /\ InTurn(TextsIn(ps)) /\ gs # <<>> /\ gs \in Seq(ClauseGroups(d))
      /\ Lined(LettersPer(gs)) /\ Len(JoinTexts(Head(gs).segments)) > MaxChunkSize
      /\ \A k \in 1..Len(ps) : k # 1 \/ ps[k].level # "character" => ps[k].start = 0
  BY DEF QueueInv, PiecesInTurn
<1>2. Len(ps) \in Nat /\ 1 \in 1..Len(ps)
  BY <1>1
<1>3. PICK qs \in Seq(S) : /\ qs = [ps EXCEPT ![1] = p] /\ Len(qs) = Len(ps)
                           /\ \A k \in 1..Len(ps) : qs[k] = IF k = 1 THEN p ELSE ps[k]
  <2> HIDE DEF S
  <2>1. p \in S
    BY DEF S
  <2>2. /\ [ps EXCEPT ![1] = p] \in Seq(S) /\ Len([ps EXCEPT ![1] = p]) = Len(ps)
        /\ \A k \in 1..Len(ps) : [ps EXCEPT ![1] = p][k] = IF k = 1 THEN p ELSE ps[k]
    BY <1>1, <1>2, <2>1, ExceptSeq
  <2> QED BY <2>2
<1>4. qs[1] = p /\ qs # <<>>
  BY <1>2, <1>3
<1>5. TextsIn(qs) = TextsIn(ps)
  <2>1. \A k \in 1..Len(ps) : qs[k].text = ps[k].text
    BY <1>3
  <2> QED BY <1>3, <2>1 DEF TextsIn
<1>6. \A k \in 1..Len(qs) : k # 1 \/ qs[k].level # "character" => qs[k].start = 0
  BY <1>1, <1>3
<1>7. QueueInv(qs, gs, d)
  <2>1. qs \in Seq(PiecesOf(LettersOf(Head(gs))))
    OBVIOUS
  <2>2. Written(qs[1]) < Len(qs[1].text)
    BY <1>4
  <2> HIDE DEF S
  <2>3. PiecesInTurn(qs, gs)
    BY <1>1, <1>5, <1>6, <2>1, <2>2 DEF PiecesInTurn
  <2> QED BY <1>1, <2>3 DEF QueueInv
<1>8. AllLetters(TextsIn(Tail(qs))) = AllLetters(TextsIn(Tail(ps)))
  <2>1. Tail(qs) = Tail(ps)
    <3>1. \A k \in 2..Len(ps) : qs[k] = ps[k]
      BY <1>3
    <3> HIDE DEF S
    <3> QED BY <1>1, <1>2, <1>3, <3>1
  <2> QED BY <2>1
<1>9. LeftOf(qs, gs) = Waiting(p) \cup RestOf(ps, gs) /\ AgainOf(qs) = Repeated(p)
  BY <1>4, <1>8 DEF LeftOf, RestOf, AgainOf
<1> QED BY <1>3, <1>7, <1>9 DEF Replaced

\* New pieces have the texts they are made of, and none has been begun.
LEMMA NewPieces ==
  ASSUME NEW L, NEW level \in Levels, NEW texts \in Seq(PartsOf(L)), AllLetters(texts) # {}
  PROVE  /\ Pieces(level, texts) \in Seq(PiecesOf(L)) /\ Len(Pieces(level, texts)) = Len(texts)
         /\ Len(texts) \in Nat /\ Len(texts) # 0
         /\ TextsIn(Pieces(level, texts)) = texts
         /\ \A k \in 1..Len(texts) : Pieces(level, texts)[k].start = 0
<1>1. PICK n \in Nat : n = Len(texts) /\ DOMAIN texts = 1..n
  OBVIOUS
<1>2. Pieces(level, texts) = [k \in 1..n |-> [level |-> level, text |-> texts[k], start |-> 0]]
  BY <1>1 DEF Pieces, Piece
<1>3. Pieces(level, texts) \in Seq(PiecesOf(L))
  BY PiecesType
<1>4. PICK qs : qs = Pieces(level, texts)
  OBVIOUS
<1>5. Len(qs) = n
  BY <1>1, <1>2, <1>4
<1>6. \A k \in 1..n : qs[k].text = texts[k] /\ qs[k].start = 0
  BY <1>2, <1>4
<1>7. texts = [k \in 1..n |-> texts[k]]
  BY <1>1
<1>8. TextsIn(qs) = texts
  BY <1>5, <1>6, <1>7 DEF TextsIn
<1>9. n # 0
  <2>1. ASSUME n = 0 PROVE AllLetters(texts) = {}
    <3>1. 1..0 = {}
      OBVIOUS
    <3> QED BY <1>1, <2>1, <3>1 DEF AllLetters, LettersUpTo
  <2> QED BY <2>1
<1> QED BY <1>1, <1>3, <1>4, <1>5, <1>6, <1>8, <1>9

\* A paragraph or a sentence is cut into the next level's pieces, put before the
\* others.
LEMMA CutPiece ==
  ASSUME NEW d \in Documents, NEW gs, NEW ps, QueueInv(ps, gs, d), ps # <<>>, ps[1].start = 0,
         NEW level \in Levels, NEW texts \in Seq(PartsOf(LettersOf(Head(gs)))), InTurn(texts),
         AllLetters(texts) = Letters(ps[1].text)
  PROVE  /\ QueueInv(Pieces(level, texts) \o Tail(ps), gs, d)
         /\ LeftOf(Pieces(level, texts) \o Tail(ps), gs) = LeftOf(ps, gs)
         /\ AgainOf(Pieces(level, texts) \o Tail(ps)) = {}
<1> DEFINE S == PiecesOf(LettersOf(Head(gs)))
           new == Pieces(level, texts)
<1>1. /\ ps \in Seq(S) /\ InTurn(TextsIn(ps)) /\ gs # <<>> /\ gs \in Seq(ClauseGroups(d))
      /\ Lined(LettersPer(gs)) /\ Len(JoinTexts(Head(gs).segments)) > MaxChunkSize
      /\ \A k \in 1..Len(ps) : k # 1 \/ ps[k].level # "character" => ps[k].start = 0
  BY DEF QueueInv, PiecesInTurn
<1>2. /\ Tail(ps) \in Seq(S) /\ InTurn(TextsIn(Tail(ps)))
      /\ Before(Letters(ps[1].text), AllLetters(TextsIn(Tail(ps))))
      /\ Letters(ps[1].text) # {}
  <2> HIDE DEF S
  <2> QED BY <1>1, PiecesTail
<1>3. /\ new \in Seq(S) /\ Len(new) = Len(texts) /\ Len(texts) \in Nat /\ Len(texts) # 0
      /\ TextsIn(new) = texts /\ \A k \in 1..Len(texts) : new[k].start = 0
  BY <1>2, NewPieces
<1> HIDE DEF new
<1>6. PICK qs \in Seq(S) : /\ qs = new \o Tail(ps) /\ InTurn(TextsIn(qs))
                           /\ AllLetters(TextsIn(qs)) = Letters(ps[1].text) \cup AllLetters(TextsIn(Tail(ps)))
  <2>1. Before(AllLetters(TextsIn(new)), AllLetters(TextsIn(Tail(ps))))
    BY <1>2, <1>3
  <2>0. InTurn(TextsIn(new)) /\ InTurn(TextsIn(Tail(ps))) /\ new \in Seq(S) /\ Tail(ps) \in Seq(S)
    BY <1>2, <1>3
  <2> HIDE DEF S
  <2>3. PICK rest \in Seq(S) : rest = Tail(ps)
    BY <2>0
  <2>4. /\ InTurn(TextsIn(rest)) /\ new \in Seq(S) /\ InTurn(TextsIn(new))
        /\ Before(AllLetters(TextsIn(new)), AllLetters(TextsIn(rest)))
    BY <2>0, <2>1, <2>3
  <2>2. /\ new \o rest \in Seq(S) /\ InTurn(TextsIn(new \o rest))
        /\ AllLetters(TextsIn(new \o rest)) = AllLetters(TextsIn(new)) \cup AllLetters(TextsIn(rest))
    BY <2>4, PiecesConcat
  <2> QED BY <1>3, <2>2, <2>3
<1>7. PICK m \in Nat, n \in Nat : m = Len(new) /\ m # 0 /\ n = Len(Tail(ps)) /\ Len(qs) = m + n /\ Len(ps) = n + 1
  <2>1. Len(Tail(ps)) = Len(ps) - 1 /\ Len(ps) \in Nat /\ Len(ps) # 0 /\ Len(new) \in Nat
    <3> HIDE DEF S
    <3> QED BY <1>1, <1>3, HeadTailProperties
  <2>2. Len(new \o Tail(ps)) = Len(new) + Len(Tail(ps))
    <3> HIDE DEF S
    <3> QED BY <1>2, <1>3, ConcatProperties
  <2>5. PICK l \in Nat : l = Len(ps) /\ l # 0
    BY <2>1
  <2>6. l - 1 \in Nat /\ l - 1 = Len(Tail(ps))
    BY <2>1, <2>5
  <2>3. PICK n \in Nat : n = l - 1 /\ n = Len(Tail(ps))
    BY <2>6
  <2>4. l = n + 1 /\ Len(qs) = Len(new) + n
    <3>1. l = n + 1
      BY <2>3
    <3>2. Len(qs) = Len(new) + n
      <4> HIDE DEF S
      <4> QED BY <1>6, <2>2, <2>3
    <3> QED BY <3>1, <3>2
  <2> QED BY <1>3, <2>1, <2>3, <2>4, <2>5
<1>8. ASSUME NEW k \in 1..(m + n) PROVE qs[k].start = 0
  <2>1. qs[k] = IF k <= m THEN new[k] ELSE Tail(ps)[k - m]
    <3>1. \A i \in 1..Len(new) + Len(Tail(ps)) :
            (new \o Tail(ps))[i] = IF i <= Len(new) THEN new[i] ELSE Tail(ps)[i - Len(new)]
      <4> HIDE DEF S
      <4> QED BY <1>2, <1>3, ConcatProperties
    <3> QED BY <1>6, <1>7, <3>1
  <2>2. CASE k <= m
    <3>1. k \in 1..Len(texts) /\ qs[k] = new[k]
      BY <1>3, <1>7, <2>1, <2>2
    <3> HIDE DEF S
    <3> QED BY <1>3, <3>1
  <2>3. CASE ~(k <= m)
    <3>1. k - m \in 1..n /\ k - m + 1 \in 1..(n + 1) /\ k - m + 1 # 1
      BY <1>7, <2>3
    <3>2. Tail(ps)[k - m] = ps[k - m + 1]
      <4>1. \A i \in 1..Len(Tail(ps)) : Tail(ps)[i] = ps[i + 1]
        <5>1. ps # <<>>
          OBVIOUS
        <5> HIDE DEF S
        <5> QED BY <1>1, <5>1, HeadTailProperties
      <4> QED BY <1>7, <3>1, <4>1
    <3> QED BY <1>1, <1>7, <2>1, <2>3, <3>1, <3>2
  <2> QED BY <2>2, <2>3
<1>9. 1 \in 1..(m + n) /\ qs # <<>> /\ qs[1] \in S
  <2>1. 1 \in 1..(m + n) /\ 1 \in 1..Len(qs)
    BY <1>7
  <2>2. qs[1] \in S
    <3> HIDE DEF S
    <3> QED BY <2>1
  <2>3. qs # <<>>
    BY <1>6, <2>1
  <2> QED BY <2>1, <2>2, <2>3
<1>10. Written(qs[1]) < Len(qs[1].text)
  <2>1. qs[1].start = 0 /\ qs[1].start < Len(qs[1].text)
    BY <1>8, <1>9 DEF PiecesOf
  <2> QED BY <2>1 DEF Written
<1>11. QueueInv(qs, gs, d)
  <2>1. qs \in Seq(PiecesOf(LettersOf(Head(gs)))) /\ \A k \in 1..Len(qs) : qs[k].start = 0
    BY <1>7, <1>8
  <2>2. PiecesInTurn(qs, gs)
    <3> HIDE DEF S
    <3> QED BY <1>1, <1>6, <1>10, <2>1 DEF PiecesInTurn
  <2> QED BY <1>1, <2>2 DEF QueueInv
<1>12. /\ LeftOf(qs, gs) = AllLetters(TextsIn(qs)) \cup Together(LettersPer(Tail(gs)))
       /\ AgainOf(qs) = {}
  BY <1>8, <1>9, <1>11, WholePieces
<1>13. LeftOf(ps, gs) = Letters(ps[1].text) \cup RestOf(ps, gs)
  BY WholePieces
<1>14. LeftOf(qs, gs) = LeftOf(ps, gs)
  BY <1>6, <1>12, <1>13 DEF RestOf
<1> HIDE DEF S
<1> QED BY <1>6, <1>11, <1>12, <1>14 DEF new

\* The first group is cut into paragraphs.
LEMMA CutFirstGroup ==
  ASSUME NEW d \in Documents, NEW gs, gs # <<>>, QueueInv(<<>>, gs, d),
         Len(JoinTexts(Head(gs).segments)) > MaxChunkSize,
         NEW texts \in Seq(PartsOf(LettersOf(Head(gs)))), InTurn(texts),
         AllLetters(texts) = LettersOf(Head(gs))
  PROVE  /\ QueueInv(Pieces("paragraph", texts), gs, d)
         /\ LeftOf(Pieces("paragraph", texts), gs) = LeftOf(<<>>, gs)
         /\ AgainOf(Pieces("paragraph", texts)) = {}
<1> DEFINE S == PiecesOf(LettersOf(Head(gs)))
<1>1. gs \in Seq(ClauseGroups(d)) /\ Lined(LettersPer(gs))
  BY DEF QueueInv
<1>4. /\ Head(gs) \in ClauseGroups(d) /\ LettersOf(Head(gs)) # {}
      /\ Together(LettersPer(gs)) = LettersOf(Head(gs)) \cup Together(LettersPer(Tail(gs)))
  <2>1. /\ Head(gs) \in ClauseGroups(d)
        /\ Together(LettersPer(gs)) = LettersOf(Head(gs)) \cup Together(LettersPer(Tail(gs)))
    BY <1>1, GroupsTail
  <2>2. LettersIn(Head(gs).segments) # {}
    BY <2>1, GroupKeeps
  <2> QED BY <2>1, <2>2 DEF LettersOf, LettersIn
<1>5. PICK qs \in Seq(S) :
        /\ qs = Pieces("paragraph", texts) /\ Len(qs) \in Nat /\ Len(qs) # 0
        /\ TextsIn(qs) = texts /\ \A k \in 1..Len(qs) : qs[k].start = 0
  <2>1. "paragraph" \in Levels
    BY DEF Levels
  <2> QED BY <1>4, <2>1, NewPieces
<1>6. 1 \in 1..Len(qs) /\ qs # <<>> /\ qs[1] \in S
  <2>1. 1 \in 1..Len(qs)
    BY <1>5
  <2> HIDE DEF S
  <2> QED BY <1>5, <2>1
<1>7. Written(qs[1]) < Len(qs[1].text)
  <2>1. qs[1].start = 0 /\ qs[1].start < Len(qs[1].text)
    BY <1>5, <1>6 DEF PiecesOf
  <2> QED BY <2>1 DEF Written
<1>8. QueueInv(qs, gs, d)
  <2>1. PiecesInTurn(qs, gs)
    BY <1>5, <1>7 DEF PiecesInTurn
  <2> QED BY <1>1, <2>1 DEF QueueInv
<1>9. /\ LeftOf(qs, gs) = AllLetters(TextsIn(qs)) \cup Together(LettersPer(Tail(gs)))
      /\ AgainOf(qs) = {}
  BY <1>5, <1>6, <1>8, WholePieces
<1> QED BY <1>4, <1>5, <1>8, <1>9 DEF LeftOf

-----------------------------------------------------------------------------
(* What has been cut is in turn                                            *)

\* The chunks' texts, in turn: with what is left they have all the letters of
\* the document, and they stand before what is left; neighbours share no more
\* than an overlap, and the next chunk repeats letters of the last one only.
TextsInTurn(ts) ==
  /\ \A i \in 1..Len(ts) : InOrder(ts[i])
  /\ \A i, j \in 1..Len(ts) : i < j =>
       LET earlier == Letters(ts[i])
           later == Letters(ts[j])
           shared == earlier \cap later
       IN  /\ Before(earlier, later \ shared)
           /\ shared # {} => j = i + 1 /\ shared \subseteq Range(SubSeq(ts[j], 1, ChunkOverlap))
CutInTurn(ts, left, again, all) ==
  /\ AllLetters(ts) \cup left = all
  /\ Before(AllLetters(ts), left)
  /\ TextsInTurn(ts)
  /\ again # {} => ts # <<>> /\ again \subseteq Letters(ts[Len(ts)])
  /\ \A i \in 1..(Len(ts) - 1) : Before(Letters(ts[i]), again)

\* A new chunk that begins with what is to be repeated and goes on with what is
\* left keeps the chunks in turn.
LEMMA EmitTurn ==
  ASSUME NEW ts \in Seq(Seq(Nat)), NEW left, NEW again, NEW all, CutInTurn(ts, left, again, all),
         NEW t \in Seq(Nat), InOrder(t), Letters(t) \subseteq again \cup left,
         again \subseteq Range(SubSeq(t, 1, ChunkOverlap)),
         NEW rest, rest \subseteq left, left \subseteq Letters(t) \cup rest, Before(Letters(t), rest),
         NEW next, next \subseteq left, next \subseteq Letters(t)
  PROVE  CutInTurn(Append(ts, t), rest, next, all)
<1>1. PICK n \in Nat, us \in Seq(Seq(Nat)) :
        /\ n = Len(ts) /\ us = Append(ts, t) /\ Len(us) = n + 1
        /\ us[n + 1] = t /\ \A i \in 1..n : us[i] = ts[i]
  <2>1. /\ Append(ts, t) \in Seq(Seq(Nat)) /\ Len(Append(ts, t)) = Len(ts) + 1 /\ Len(ts) \in Nat
        /\ Append(ts, t)[Len(ts) + 1] = t /\ \A i \in 1..Len(ts) : Append(ts, t)[i] = ts[i]
    BY AppendProperties
  <2> QED BY <2>1
<1>2. /\ AllLetters(ts) \cup left = all /\ Before(AllLetters(ts), left) /\ TextsInTurn(ts)
      /\ again # {} => ts # <<>> /\ again \subseteq Letters(ts[n])
      /\ \A i \in 1..(n - 1) : Before(Letters(ts[i]), again)
  BY <1>1 DEF CutInTurn
<1>3. AllLetters(us) = AllLetters(ts) \cup Letters(t)
  <2>1. \A c : c \in AllLetters(us) <=> \E i \in 1..(n + 1) : c \in Letters(us[i])
    BY <1>1 DEF AllLetters, LettersUpTo
  <2>2. \A c : c \in AllLetters(ts) <=> \E i \in 1..n : c \in Letters(ts[i])
    BY <1>1 DEF AllLetters, LettersUpTo
  <2>3. 1..(n + 1) = (1..n) \cup {n + 1}
    OBVIOUS
  <2>4. \A i \in 1..n : Letters(us[i]) = Letters(ts[i])
    BY <1>1
  <2>5. Letters(us[n + 1]) = Letters(t)
    BY <1>1
  <2>6. \A c : c \in AllLetters(us) <=> c \in AllLetters(ts) \/ c \in Letters(t)
    BY <2>1, <2>2, <2>3, <2>4, <2>5
  <2> QED BY <2>6
<1>4. \A i \in 1..n : Letters(ts[i]) \subseteq AllLetters(ts)
  BY <1>1 DEF AllLetters, LettersUpTo
<1>5. again \subseteq AllLetters(ts)
  <2>1. ASSUME again # {} PROVE n \in 1..n
    <3>1. ts # <<>>
      BY <1>2, <2>1
    <3> QED BY <1>1, <3>1
  <2> QED BY <1>2, <1>4, <2>1
<1>6. AllLetters(us) \cup rest = all
  BY <1>2, <1>3, <1>5
<1>7. Before(AllLetters(us), rest)
  BY <1>2, <1>3 DEF Before
<1>8. AllLetters(ts) \subseteq Nat
  <2>1. \A i \in 1..n : Letters(ts[i]) \subseteq Nat
    BY <1>1, LettersAt
  <2> QED BY <1>1, <2>1 DEF AllLetters, LettersUpTo
<1>9. \A c \in AllLetters(ts) : c \notin left
  <2> SUFFICES ASSUME NEW c \in AllLetters(ts), c \in left PROVE FALSE
    OBVIOUS
  <2>1. c \in Nat /\ c < c
    BY <1>2, <1>8 DEF Before
  <2> QED BY <2>1
<1>10. ASSUME NEW i \in 1..n
       PROVE  LET shared == Letters(ts[i]) \cap Letters(t)
              IN  /\ Before(Letters(ts[i]), Letters(t) \ shared)
                  /\ shared # {} => n + 1 = i + 1 /\ shared \subseteq Range(SubSeq(t, 1, ChunkOverlap))
  <2> DEFINE shared == Letters(ts[i]) \cap Letters(t)
  <2>1. shared \subseteq again
    BY <1>4, <1>9
  <2>2. CASE i = n
    <3>1. Letters(t) \ shared \subseteq left
      BY <1>2, <2>2
    <3>2. Before(Letters(ts[i]), Letters(t) \ shared)
      BY <1>2, <1>4, <3>1 DEF Before
    <3> QED BY <2>1, <2>2, <3>2
  <2>3. CASE i # n
    <3>1. Before(Letters(ts[i]), again)
      <4>1. i \in 1..(n - 1)
        BY <2>3
      <4> QED BY <1>2, <4>1
    <3>2. Before(Letters(ts[i]), Letters(t))
      BY <1>2, <1>4, <3>1 DEF Before
    <3>3. shared = {}
      <4> SUFFICES ASSUME NEW c \in shared PROVE FALSE
        OBVIOUS
      <4>1. c \in Nat /\ c < c
        BY <1>4, <1>8, <3>2 DEF Before
      <4> QED BY <4>1
    <3>4. Before(Letters(ts[i]), Letters(t) \ shared)
      BY <3>2 DEF Before
    <3> QED BY <3>3, <3>4
  <2> QED BY <2>2, <2>3
<1>11. TextsInTurn(us)
  <2>1. \A i \in 1..(n + 1) : i \in 1..n \/ i = n + 1
    OBVIOUS
  <2>2. \A i \in 1..(n + 1) : InOrder(us[i])
    BY <1>1, <1>2, <2>1 DEF TextsInTurn
  <2>3. ASSUME NEW i \in 1..(n + 1), NEW j \in 1..(n + 1), i < j
        PROVE  LET earlier == Letters(us[i])
                   later == Letters(us[j])
                   shared == earlier \cap later
               IN  /\ Before(earlier, later \ shared)
                   /\ shared # {} => j = i + 1 /\ shared \subseteq Range(SubSeq(us[j], 1, ChunkOverlap))
    <3>1. CASE j = n + 1
      <4>1. i \in 1..n
        BY <2>3, <3>1
      <4>2. us[i] = ts[i] /\ us[j] = t
        BY <1>1, <3>1, <4>1
      <4> QED BY <1>10, <3>1, <4>1, <4>2
    <3>2. CASE j # n + 1
      <4>1. i \in 1..n /\ j \in 1..n
        BY <2>3, <3>2
      <4>2. us[i] = ts[i] /\ us[j] = ts[j]
        BY <1>1, <4>1
      <4>3. LET earlier == Letters(ts[i])
                later == Letters(ts[j])
                shared == earlier \cap later
            IN  /\ Before(earlier, later \ shared)
                /\ shared # {} => j = i + 1 /\ shared \subseteq Range(SubSeq(ts[j], 1, ChunkOverlap))
        BY <1>1, <1>2, <2>3, <4>1 DEF TextsInTurn
      <4> QED BY <4>2, <4>3
    <3> QED BY <3>1, <3>2
  <2> QED BY <1>1, <2>2, <2>3 DEF TextsInTurn
<1>12. \A i \in 1..((n + 1) - 1) : Before(Letters(us[i]), next)
  <2> SUFFICES ASSUME NEW i \in 1..n PROVE Before(Letters(ts[i]), next)
    BY <1>1
  <2> QED BY <1>2, <1>4 DEF Before
<1>13. us # <<>> /\ next \subseteq Letters(us[n + 1])
  <2>1. Len(us) # 0
    BY <1>1
  <2> QED BY <1>1, <2>1
<1> QED BY <1>1, <1>6, <1>7, <1>11, <1>12, <1>13 DEF CutInTurn

\* The clause part of CutOnlyToFit, of the chunks' texts.
ClausesCut(ts, d) ==
  \A b \in 1..Len(d) : BeginsClause(d, b) =>
    LET holding == {i \in 1..Len(ts) : Letters(ts[i]) \cap ClauseText(d, b) # {}}
    IN  /\ \A i \in holding : Letters(ts[i]) \subseteq ClauseText(d, b)
        /\ ClauseLength(d, b) <= MaxChunkSize => \A i, j \in holding : i = j

\* A new chunk of a clause keeps it, if the clause is too long or nothing of it
\* has been cut.
LEMMA EmitCut ==
  ASSUME NEW d \in Documents, NEW ts \in Seq(Seq(Nat)), ClausesCut(ts, d),
         NEW b \in 1..Len(d), BeginsClause(d, b),
         NEW t \in Seq(Nat), Letters(t) \subseteq ClauseText(d, b),
         ClauseLength(d, b) <= MaxChunkSize => AllLetters(ts) \cap ClauseText(d, b) = {}
  PROVE  ClausesCut(Append(ts, t), d)
<1>1. PICK n \in Nat, us \in Seq(Seq(Nat)) :
        /\ n = Len(ts) /\ us = Append(ts, t) /\ Len(us) = n + 1
        /\ us[n + 1] = t /\ \A i \in 1..n : us[i] = ts[i]
  <2>1. /\ Append(ts, t) \in Seq(Seq(Nat)) /\ Len(Append(ts, t)) = Len(ts) + 1 /\ Len(ts) \in Nat
        /\ Append(ts, t)[Len(ts) + 1] = t /\ \A i \in 1..Len(ts) : Append(ts, t)[i] = ts[i]
    BY AppendProperties
  <2> QED BY <2>1
<1>2. \A i \in 1..(n + 1) : i \in 1..n \/ i = n + 1
  OBVIOUS
<1> SUFFICES ASSUME NEW c \in 1..Len(d), BeginsClause(d, c)
             PROVE  LET holding == {i \in 1..(n + 1) : Letters(us[i]) \cap ClauseText(d, c) # {}}
                    IN  /\ \A i \in holding : Letters(us[i]) \subseteq ClauseText(d, c)
                        /\ ClauseLength(d, c) <= MaxChunkSize => \A i, j \in holding : i = j
  BY <1>1 DEF ClausesCut
<1> DEFINE before == {i \in 1..n : Letters(ts[i]) \cap ClauseText(d, c) # {}}
           holding == {i \in 1..(n + 1) : Letters(us[i]) \cap ClauseText(d, c) # {}}
<1>3. /\ \A i \in before : Letters(ts[i]) \subseteq ClauseText(d, c)
      /\ ClauseLength(d, c) <= MaxChunkSize => \A i, j \in before : i = j
  BY <1>1 DEF ClausesCut
<1>4. \A i \in holding : (i \in before /\ us[i] = ts[i]) \/ (i = n + 1 /\ us[i] = t)
  BY <1>1, <1>2
<1>5. CASE c = b
  <2>1. \A i \in holding : Letters(us[i]) \subseteq ClauseText(d, c)
    <3> HIDE DEF holding, before
    <3> QED BY <1>3, <1>4, <1>5
  <2>2. ASSUME ClauseLength(d, c) <= MaxChunkSize PROVE before = {}
    <3>1. AllLetters(ts) \cap ClauseText(d, c) = {}
      BY <1>5, <2>2
    <3>2. \A i \in 1..n : Letters(ts[i]) \subseteq AllLetters(ts)
      BY <1>1 DEF AllLetters, LettersUpTo
    <3> QED BY <3>1, <3>2
  <2> HIDE DEF before
  <2> QED BY <1>4, <2>1, <2>2
<1>6. CASE c # b
  <2>1. ClauseText(d, b) \cap ClauseText(d, c) = {}
    BY <1>6, ClausesApart
  <2>2. n + 1 \notin holding
    BY <1>1, <2>1
  <2> HIDE DEF holding, before
  <2>3. \A i \in holding : i \in before /\ us[i] = ts[i]
    BY <1>4, <2>2
  <2> QED BY <1>3, <2>3 DEF holding
<1> QED BY <1>5, <1>6

\* The texts of the chunks, and of one more.
Contents == [i \in 1..Len(chunks) |-> chunks[i].content]

\* The texts have the types the chunks give them.
LEMMA ContentsType ==
  ASSUME ChainInv
  PROVE  /\ Contents \in Seq(Seq(Nat)) /\ Len(Contents) = Len(chunks)
         /\ DOMAIN chunks = 1..Len(chunks) /\ Len(chunks) \in Nat
         /\ \A i \in 1..Len(chunks) : Contents[i] = chunks[i].content
<1>1. chunks \in Seq(ChunksOf(doc)) /\ Len(chunks) \in Nat
  BY DEF ChainInv
<1>2. \A i \in 1..Len(chunks) : chunks[i].content \in Seq(Nat)
  <2>1. \A i \in 1..Len(chunks) : chunks[i] \in ChunksOf(doc)
    BY <1>1
  <2> QED BY <2>1 DEF ChunksOf
<1> QED BY <1>1, <1>2 DEF Contents

\* Emit adds its text and changes no other.
LEMMA EmitContents ==
  ASSUME ChainInv, NEW g, NEW content \in Seq(Nat), Emit(g, content)
  PROVE  Contents' = Append(Contents, content)
<1> DEFINE n == Len(chunks)
           linked == IF prev = 0 THEN chunks ELSE [chunks EXCEPT ![prev].next = n + 1]
           new == [content |-> content, page |-> Head(g.segments).page,
                   section |-> g.heading.text, previous |-> prev, next |-> 0]
<1>1. chunks \in Seq(ChunksOf(doc)) /\ n \in Nat /\ prev = n
  BY DEF ChainInv
<1>2. chunks' = Append(linked, new)
  BY DEF Emit
<1>3. linked \in Seq(Range(linked)) /\ Len(linked) = n /\ \A i \in 1..n : linked[i].content = chunks[i].content
  <2>1. CASE n = 0
    BY <1>1, <2>1 DEF Range
  <2>2. CASE n # 0
    <3>1. \A i \in 1..n : chunks[i] \in ChunksOf(doc)
      BY <1>1
    <3>2. linked = [i \in 1..n |-> IF i = n THEN [chunks[n] EXCEPT !.next = n + 1] ELSE chunks[i]]
      <4>1. linked = [chunks EXCEPT ![n] = [chunks[n] EXCEPT !.next = n + 1]]
        BY <1>1, <2>2
      <4>2. DOMAIN chunks = 1..n
        BY <1>1
      <4> HIDE DEF linked, n
      <4> QED BY <4>1, <4>2
    <3>3. [chunks[n] EXCEPT !.next = n + 1].content = chunks[n].content
      <4>1. n \in 1..n
        BY <1>1, <2>2
      <4>2. PICK c \in ChunksOf(doc) : c = chunks[n]
        BY <3>1, <4>1
      <4>3. [c EXCEPT !.next = n + 1].content = c.content
        BY DEF ChunksOf
      <4> QED BY <4>2, <4>3
    <3>4. DOMAIN linked = 1..n /\ \A i \in 1..n : linked[i] \in Range(linked)
      <4> HIDE DEF linked, n
      <4> QED BY <3>2 DEF Range
    <3>5. \A i \in 1..n : linked[i].content = chunks[i].content
      <4> HIDE DEF linked, n
      <4> QED BY <3>2, <3>3
    <3>7. linked \in Seq(Range(linked)) /\ Len(linked) = n
      <4> DEFINE e(i) == IF i = n THEN [chunks[n] EXCEPT !.next = n + 1] ELSE chunks[i]
      <4>1. PICK R : R = Range(linked)
        OBVIOUS
      <4> HIDE DEF linked, n
      <4>2. \A i \in 1..n : e(i) \in R
        BY <3>2, <3>4, <4>1
      <4>3. linked = [i \in 1..n |-> e(i)]
        BY <3>2
      <4> HIDE DEF e
      <4>4. [i \in 1..n |-> e(i)] \in Seq(R) /\ Len([i \in 1..n |-> e(i)]) = n
        BY <1>1, <4>2
      <4> QED BY <4>1, <4>3, <4>4
    <3> QED BY <3>5, <3>7
  <2> QED BY <2>1, <2>2
<1> HIDE DEF linked
<1>4. new.content = content
  OBVIOUS
<1> HIDE DEF new
<1>5. /\ Len(chunks') = n + 1 /\ chunks'[n + 1] = new
      /\ \A i \in 1..n : chunks'[i] = linked[i]
  <2>1. PICK S : linked \in Seq(S) /\ new \in S
    <3>1. linked \in Seq(Range(linked) \cup {new})
      BY <1>3, SeqMonotonic
    <3> QED BY <3>1
  <2> QED BY <1>2, <1>3, <2>1, AppendProperties
<1>6. /\ Contents \in Seq(Seq(Nat)) /\ Len(Contents) = n
      /\ \A i \in 1..n : Contents[i] = chunks[i].content
  BY ContentsType
<1>7. PICK us \in Seq(Seq(Nat)) : /\ us = Append(Contents, content) /\ Len(us) = n + 1
                                  /\ us[n + 1] = content /\ \A i \in 1..n : us[i] = Contents[i]
  <2>1. /\ Append(Contents, content) \in Seq(Seq(Nat)) /\ Len(Append(Contents, content)) = Len(Contents) + 1
        /\ Append(Contents, content)[Len(Contents) + 1] = content
        /\ \A i \in 1..Len(Contents) : Append(Contents, content)[i] = Contents[i]
    BY <1>6, AppendProperties
  <2> QED BY <1>6, <2>1
<1>8. Contents' = [i \in 1..(n + 1) |-> chunks'[i].content]
  BY <1>5 DEF Contents
<1>9. \A i \in 1..(n + 1) : chunks'[i].content = us[i]
  <2>1. \A i \in 1..(n + 1) : i \in 1..n \/ i = n + 1
    BY <1>1
  <2> QED BY <1>3, <1>4, <1>5, <1>6, <1>7, <2>1
<1>10. us = [i \in 1..(n + 1) |-> us[i]]
  <2>1. us = [i \in 1..Len(us) |-> us[i]]
    OBVIOUS
  <2> HIDE DEF n
  <2> QED BY <1>7, <2>1
<1> QED BY <1>7, <1>8, <1>9, <1>10

-----------------------------------------------------------------------------
(* The invariant of the text                                               *)

\* The inductive invariant of the text: what is still to cut stands in turn, the
\* chunks have what is not left, in turn, and no clause has been cut or shared
\* but for its length.
TextInv ==
  /\ QueueInv(work, groups, doc)
  /\ CutInTurn(Contents, LeftOf(work, groups), AgainOf(work), BodyLetters(doc))
  /\ ClausesCut(Contents, doc)
  /\ done => work = <<>> /\ groups = <<>>

\* A chunk is emitted and what is left is what the chunk has not got.
LEMMA EmitText ==
  ASSUME ChunkerInv, TextInv, groups # <<>>, doc' = doc, done' = done,
         NEW content \in Seq(Nat), Emit(Head(groups), content), InOrder(content),
         Letters(content) \subseteq LettersOf(Head(groups)),
         Letters(content) \subseteq AgainOf(work) \cup LeftOf(work, groups),
         AgainOf(work) \subseteq Range(SubSeq(content, 1, ChunkOverlap)),
         QueueInv(work', groups', doc),
         LeftOf(work', groups') \subseteq LeftOf(work, groups),
         LeftOf(work, groups) \subseteq Letters(content) \cup LeftOf(work', groups'),
         Before(Letters(content), LeftOf(work', groups')),
         AgainOf(work') \subseteq LeftOf(work, groups), AgainOf(work') \subseteq Letters(content),
         \/ Len(JoinTexts(Head(groups).segments)) > MaxChunkSize
         \/ LettersOf(Head(groups)) \subseteq LeftOf(work, groups)
  PROVE  TextInv'
<1>1. ChainInv /\ doc \in Documents
  BY DEF ChunkerInv, WorkInv
<1>2. Contents' = Append(Contents, content) /\ Contents \in Seq(Seq(Nat))
  BY <1>1, EmitContents, ContentsType
<1>3. CutInTurn(Contents, LeftOf(work, groups), AgainOf(work), BodyLetters(doc)) /\ ClausesCut(Contents, doc)
  BY DEF TextInv
<1>4. CutInTurn(Append(Contents, content), LeftOf(work', groups'), AgainOf(work'), BodyLetters(doc))
  <2>1. PICK left, again, rest, next :
          /\ left = LeftOf(work, groups) /\ again = AgainOf(work)
          /\ rest = LeftOf(work', groups') /\ next = AgainOf(work')
    OBVIOUS
  <2>2. CutInTurn(Append(Contents, content), rest, next, BodyLetters(doc))
    BY <1>2, <1>3, <2>1, EmitTurn
  <2> QED BY <2>1, <2>2
<1>5. Head(groups) \in ClauseGroups(doc)
  BY <1>1 DEF TextInv, QueueInv
<1>6. PICK b \in 1..Len(doc) : /\ BeginsClause(doc, b) /\ LettersOf(Head(groups)) = ClauseText(doc, b)
                               /\ Len(JoinTexts(Head(groups).segments)) = ClauseLength(doc, b)
                               /\ ClauseLength(doc, b) \in Nat
  <2>1. JoinTexts(Head(groups).segments) \in Seq(Nat)
    BY <1>1, <1>5, GroupKeeps
  <2>2. Len(JoinTexts(Head(groups).segments)) \in Nat
    BY <2>1
  <2>3. LettersOf(Head(groups)) = LettersIn(Head(groups).segments)
    BY DEF LettersOf, LettersIn
  <2> QED BY <1>1, <1>5, <2>2, <2>3, GroupKeeps
<1>7. ASSUME ClauseLength(doc, b) <= MaxChunkSize PROVE AllLetters(Contents) \cap ClauseText(doc, b) = {}
  <2>1. MaxChunkSize \in Nat
    BY SizesAssumption
  <2>2. ClauseText(doc, b) \subseteq LeftOf(work, groups)
    BY <1>6, <1>7, <2>1
  <2>3. Before(AllLetters(Contents), LeftOf(work, groups))
    BY <1>3 DEF CutInTurn
  <2>4. AllLetters(Contents) \subseteq Nat
    <3>1. \A i \in 1..Len(Contents) : Letters(Contents[i]) \subseteq Nat
      BY <1>2, LettersAt
    <3> QED BY <3>1 DEF AllLetters, LettersUpTo
  <2> SUFFICES ASSUME NEW c \in AllLetters(Contents), c \in ClauseText(doc, b) PROVE FALSE
    OBVIOUS
  <2>5. c \in Nat /\ c < c
    BY <2>2, <2>3, <2>4 DEF Before
  <2> QED BY <2>5
<1>8. ClausesCut(Append(Contents, content), doc)
  BY <1>1, <1>2, <1>3, <1>6, <1>7, EmitCut
<1>9. ~done
  BY DEF TextInv
<1> QED BY <1>2, <1>4, <1>8, <1>9 DEF TextInv

\* No chunk is emitted and as much is left.
LEMMA SameText ==
  ASSUME TextInv, doc' = doc, done' = done, chunks' = chunks, groups # <<>>,
         QueueInv(work', groups', doc), LeftOf(work', groups') = LeftOf(work, groups),
         AgainOf(work') = AgainOf(work)
  PROVE  TextInv'
<1>1. Contents' = Contents
  BY DEF Contents
<1>2. ~done
  BY DEF TextInv
<1> QED BY <1>1, <1>2 DEF TextInv

\* Every action keeps the text.
LEMMA CutGroupText ==
  ASSUME ChunkerInv, TextInv, CutGroup
  PROVE  TextInv'
<1> DEFINE g == Head(groups)
           text == JoinTexts(g.segments)
<1>1. /\ work = <<>> /\ groups # <<>> /\ doc' = doc /\ done' = done /\ doc \in Documents
      /\ QueueInv(<<>>, groups, doc)
      /\ groups \in Seq(ClauseGroups(doc)) /\ Lined(LettersPer(groups))
  BY DEF CutGroup, ChunkerInv, WorkInv, TextInv, QueueInv
<1>2. /\ g \in ClauseGroups(doc) /\ Tail(groups) \in Seq(ClauseGroups(doc))
      /\ Lined(LettersPer(Tail(groups)))
      /\ Together(LettersPer(groups)) = LettersOf(g) \cup Together(LettersPer(Tail(groups)))
      /\ Before(LettersOf(g), Together(LettersPer(Tail(groups))))
  BY <1>1, GroupsTail
<1>3. /\ text \in Seq(Nat) /\ InOrder(text) /\ Letters(text) = LettersOf(g)
  <2>1. LettersOf(g) = LettersIn(g.segments)
    BY DEF LettersOf, LettersIn
  <2> QED BY <1>1, <1>2, <2>1, GroupKeeps
<1>4. AgainOf(work) = {} /\ LeftOf(work, groups) = Together(LettersPer(groups))
  BY <1>1 DEF AgainOf, LeftOf
<1>5. CASE Len(text) <= MaxChunkSize
  <2>1. Emit(g, text) /\ groups' = Tail(groups) /\ work' = <<>>
    <3>1. Len(text) \in Nat /\ MaxChunkSize \in Nat
      BY <1>3, SizesAssumption
    <3>2. ~(Len(text) > MaxChunkSize)
      <4> HIDE DEF text
      <4> QED BY <1>5, <3>1
    <3> QED BY <1>1, <3>2 DEF CutGroup
  <2>2. AgainOf(work') = {} /\ LeftOf(work', groups') = Together(LettersPer(Tail(groups)))
    BY <2>1 DEF AgainOf, LeftOf
  <2>3. QueueInv(work', groups', doc)
    BY <1>2, <2>1 DEF QueueInv
  <2> HIDE DEF text
  <2> QED BY <1>1, <1>2, <1>3, <1>4, <2>1, <2>2, <2>3, EmitText
<1>6. CASE ~(Len(text) <= MaxChunkSize)
  <2> DEFINE texts == MergeSmallParts(Paragraphs(text))
  <2>1. /\ work' = Pieces("paragraph", texts) /\ groups' = groups /\ chunks' = chunks
    BY <1>6 DEF CutGroup
  <2>2. Len(text) > MaxChunkSize
    <3>1. Len(text) \in Nat /\ MaxChunkSize \in Nat
      BY <1>3, SizesAssumption
    <3> HIDE DEF text
    <3> QED BY <1>6, <3>1
  <2>3. text \in TextsOf(LettersOf(g))
    <3> HIDE DEF text
    <3> QED BY <1>3 DEF TextsOf
  <2>4. texts \in Seq(PartsOf(LettersOf(g))) /\ InTurn(texts) /\ AllLetters(texts) = LettersOf(g)
    <3> HIDE DEF text, g
    <3> QED BY <1>3, <2>3, PartsType, PartsKeep
  <2> HIDE DEF texts
  <2>5. /\ QueueInv(Pieces("paragraph", texts), groups, doc)
        /\ LeftOf(Pieces("paragraph", texts), groups) = LeftOf(<<>>, groups)
        /\ AgainOf(Pieces("paragraph", texts)) = {}
    BY <1>1, <2>2, <2>4, CutFirstGroup
  <2> QED BY <1>1, <1>4, <2>1, <2>5, SameText
<1> QED BY <1>5, <1>6

\* The pieces are in turn.
LEMMA WorkText ==
  ASSUME ChunkerInv, TextInv, work # <<>>
  PROVE  /\ doc \in Documents /\ QueueInv(work, groups, doc) /\ groups # <<>> /\ Head(work) = work[1]
         /\ work[1].level # "character" => work[1].start = 0
         /\ Written(work[1]) < Len(work[1].text)
         /\ Len(JoinTexts(Head(groups).segments)) > MaxChunkSize
<1>1. doc \in Documents /\ QueueInv(work, groups, doc) /\ PiecesInTurn(work, groups)
  BY DEF ChunkerInv, WorkInv, TextInv, QueueInv
<1>2. Head(work) = work[1] /\ 1 \in 1..Len(work)
  BY PieceType DEF ChunkerInv
<1> QED BY <1>1, <1>2 DEF PiecesInTurn

\* A piece that fits becomes a chunk.
LEMMA EmitPieceText ==
  ASSUME ChunkerInv, TextInv, EmitPiece
  PROVE  TextInv'
<1>1. work # <<>> /\ doc' = doc /\ done' = done
  BY DEF EmitPiece, Cutting
<1>2. /\ doc \in Documents /\ QueueInv(work, groups, doc) /\ groups # <<>> /\ Head(work) = work[1]
      /\ work[1].start = 0 /\ Len(JoinTexts(Head(groups).segments)) > MaxChunkSize
  BY <1>1, WorkText DEF EmitPiece, Cutting
<1>3. PICK text \in Seq(Nat) :
        /\ text = work[1].text /\ InOrder(text) /\ Letters(text) \subseteq LettersOf(Head(groups))
        /\ Before(Letters(text), RestOf(work, groups))
  BY <1>1, <1>2, FirstPiece DEF TextsOf
<1>4. LeftOf(work, groups) = Letters(text) \cup RestOf(work, groups) /\ AgainOf(work) = {}
  BY <1>1, <1>2, <1>3, WholePieces
<1>5. /\ Emit(Head(groups), text) /\ work' = Tail(work)
      /\ groups' = IF work' = <<>> THEN Tail(groups) ELSE groups
  BY <1>2, <1>3 DEF EmitPiece, Rest
<1>6. /\ QueueInv(work', groups', doc) /\ LeftOf(work', groups') = RestOf(work, groups)
      /\ AgainOf(work') = {}
  <2>1. PICK rest, left : /\ rest = Tail(work) /\ rest = work' /\ left = groups'
                          /\ left = IF rest = <<>> THEN Tail(groups) ELSE groups
    BY <1>5
  <2>2. QueueInv(rest, left, doc) /\ LeftOf(rest, left) = RestOf(work, groups) /\ AgainOf(rest) = {}
    BY <1>1, <1>2, <2>1, DropPiece
  <2> QED BY <2>1, <2>2
<1> QED BY <1>1, <1>2, <1>3, <1>4, <1>5, <1>6, EmitText

\* A paragraph is replaced by its sentences, which have its letters in turn.
LEMMA CutParagraphText ==
  ASSUME ChunkerInv, TextInv, CutParagraph
  PROVE  TextInv'
<1>1. work # <<>> /\ doc' = doc /\ done' = done /\ groups' = groups /\ chunks' = chunks
  BY DEF CutParagraph, Cutting
<1>2. /\ doc \in Documents /\ QueueInv(work, groups, doc) /\ groups # <<>> /\ Head(work) = work[1]
      /\ work[1].start = 0
  BY <1>1, WorkText DEF CutParagraph, Cutting
<1>3. PICK text \in TextsOf(LettersOf(Head(groups))) : text = work[1].text /\ InOrder(text)
  BY <1>1, <1>2, FirstPiece
<1> DEFINE texts == MergeSmallParts(Sentences(text))
<1>4. texts \in Seq(PartsOf(LettersOf(Head(groups)))) /\ InTurn(texts) /\ AllLetters(texts) = Letters(text)
  BY <1>3, PartsType, PartsKeep
<1>5. work' = Pieces("sentence", texts) \o Tail(work)
  BY <1>2, <1>3 DEF CutParagraph
<1> HIDE DEF texts
<1>6. /\ QueueInv(work', groups, doc) /\ LeftOf(work', groups) = LeftOf(work, groups)
      /\ AgainOf(work') = {}
  <2>1. "sentence" \in Levels
    BY DEF Levels
  <2> QED BY <1>1, <1>2, <1>3, <1>4, <1>5, <2>1, CutPiece
<1>7. AgainOf(work) = {}
  BY <1>1, <1>2, WholePieces
<1> QED BY <1>1, <1>2, <1>6, <1>7, SameText

\* A sentence is left to the character fallback as it is.
LEMMA CutSentenceText ==
  ASSUME ChunkerInv, TextInv, CutSentence
  PROVE  TextInv'
<1>1. work # <<>> /\ doc' = doc /\ done' = done /\ groups' = groups /\ chunks' = chunks
  BY DEF CutSentence, Cutting
<1>2. /\ doc \in Documents /\ QueueInv(work, groups, doc) /\ groups # <<>> /\ Head(work) = work[1]
      /\ Written(work[1]) < Len(work[1].text)
  BY <1>1, WorkText
<1>3. work[1] \in PiecesOf(LettersOf(Head(groups)))
  BY <1>1, <1>2, FirstPiece
<1>4. PICK p \in PiecesOf(LettersOf(Head(groups))) :
        /\ p = [work[1] EXCEPT !.level = "character"]
        /\ p.text = work[1].text /\ p.start = work[1].start /\ p.level = "character"
  <2>1. PICK q \in PiecesOf(LettersOf(Head(groups))) : q = work[1]
    BY <1>3
  <2>2. /\ [q EXCEPT !.level = "character"] \in PiecesOf(LettersOf(Head(groups)))
        /\ [q EXCEPT !.level = "character"].text = q.text
        /\ [q EXCEPT !.level = "character"].start = q.start
        /\ [q EXCEPT !.level = "character"].level = "character"
    BY DEF PiecesOf, Levels
  <2> QED BY <2>1, <2>2
<1>5. work' = [work EXCEPT ![1] = p]
  BY <1>4 DEF CutSentence
<1>6. Written(p) = Written(work[1]) /\ Waiting(p) = Waiting(work[1]) /\ Repeated(p) = Repeated(work[1])
  BY <1>4 DEF Written, Waiting, Repeated
<1>7. /\ QueueInv(work', groups, doc) /\ LeftOf(work', groups) = Waiting(p) \cup RestOf(work, groups)
      /\ AgainOf(work') = Repeated(p)
  <2>1. Written(p) < Len(p.text)
    BY <1>2, <1>4, <1>6
  <2>2. p \in PiecesOf(LettersOf(Head(groups))) /\ p.text = work[1].text /\ p.level = "character"
    BY <1>4
  <2>3. Replaced([work EXCEPT ![1] = p], p, work, groups, doc)
    BY <1>1, <1>2, <2>1, <2>2, ReplacePiece
  <2> QED BY <1>5, <2>3 DEF Replaced
<1>8. LeftOf(work, groups) = Waiting(work[1]) \cup RestOf(work, groups) /\ AgainOf(work) = Repeated(work[1])
  BY <1>1 DEF LeftOf, AgainOf
<1> QED BY <1>1, <1>2, <1>6, <1>7, <1>8, SameText

\* A round of the fallback writes what comes next and steps back by the overlap,
\* so the next chunk begins with letters of this one only.
LEMMA CutCharactersText ==
  ASSUME ChunkerInv, TextInv, CutCharacters
  PROVE  TextInv'
<1>1. work # <<>> /\ doc' = doc /\ done' = done
  BY DEF CutCharacters, Cutting
<1>2. /\ doc \in Documents /\ QueueInv(work, groups, doc) /\ groups # <<>> /\ Head(work) = work[1]
      /\ Written(work[1]) < Len(work[1].text) /\ work[1].level = "character"
      /\ Len(JoinTexts(Head(groups).segments)) > MaxChunkSize
  BY <1>1, WorkText DEF CutCharacters, Cutting
<1>3. PICK p \in PiecesOf(LettersOf(Head(groups))) :
        /\ p = work[1] /\ p.text \in Seq(Nat) /\ p.start \in Nat /\ p.start < Len(p.text)
        /\ p.text \in TextsOf(LettersOf(Head(groups))) /\ Len(p.text) \in Nat
        /\ InOrder(p.text) /\ Before(Letters(p.text), RestOf(work, groups))
        /\ Written(p) < Len(p.text) /\ p.level = "character"
  BY <1>1, <1>2, FirstPiece
<1>4. PICK end : end = PieceEnd(p.text, p.start)
  OBVIOUS
<1>5. PICK content : content = Strip(SubSeq(p.text, p.start + 1, end))
  OBVIOUS
<1> DEFINE new == Between(p.text, Written(p), end)
           behind == Between(p.text, end, Len(p.text))
<1>6. /\ content \in Seq(Nat) /\ InOrder(content)
      /\ Letters(content) = Repeated(p) \cup new
      /\ Repeated(p) \subseteq Range(SubSeq(content, 1, ChunkOverlap))
      /\ Waiting(p) = new \cup behind
      /\ Before(Letters(content), behind)
      /\ ~(end < Len(p.text)) => behind = {}
      /\ end < Len(p.text) =>
           \A r : r.text = p.text /\ r.start = end - ChunkOverlap =>
             Written(r) = end /\ Waiting(r) = behind /\ Repeated(r) \subseteq new
  <2>1. /\ p.text \in Seq(Nat) /\ InOrder(p.text) /\ p.start \in Nat /\ p.start < Len(p.text)
        /\ Written(p) < Len(p.text)
    BY <1>3
  <2>2. InRound(p, end, content)
    BY <1>4, <1>5, <2>1, RoundKeeps
  <2> QED BY <2>2 DEF InRound
<1>7. Letters(content) \subseteq Letters(p.text) /\ Letters(p.text) \subseteq LettersOf(Head(groups))
  <2>1. Letters(p.text) \subseteq LettersOf(Head(groups))
    BY <1>3 DEF TextsOf
  <2>2. p.text \in TextsOf(Letters(p.text))
    BY <1>3 DEF TextsOf
  <2>3. end \in Nat /\ end <= Len(p.text)
    <3>1. PieceEnd(p.text, p.start) \in (p.start + 1)..Len(p.text)
      BY <1>3, PieceEnds
    <3> QED BY <1>3, <1>4, <3>1
  <2>4. p.start + 1 \in Nat /\ 1 <= p.start + 1
    BY <1>3
  <2>5. SubSeq(p.text, p.start + 1, end) \in TextsOf(Letters(p.text))
    BY <2>2, <2>3, <2>4, SubText
  <2>6. content \in TextsOf(Letters(p.text))
    BY <1>5, <2>5, StripType
  <2> QED BY <2>1, <2>6 DEF TextsOf
<1>8. Before(Letters(content), behind \cup RestOf(work, groups))
  BY <1>3, <1>6, <1>7 DEF Before
<1>9. LeftOf(work, groups) = new \cup behind \cup RestOf(work, groups) /\ AgainOf(work) = Repeated(p)
  BY <1>1, <1>3, <1>6 DEF LeftOf, AgainOf
<1>10. Emit(Head(groups), content)
  BY <1>2, <1>3, <1>4, <1>5 DEF CutCharacters
<1>11. /\ work' = IF end < Len(p.text) THEN [work EXCEPT ![1].start = end - ChunkOverlap] ELSE Tail(work)
       /\ groups' = IF work' = <<>> THEN Tail(groups) ELSE groups
  BY <1>2, <1>3, <1>4 DEF CutCharacters, Rest
<1>12. /\ QueueInv(work', groups', doc) /\ LeftOf(work', groups') = behind \cup RestOf(work, groups)
       /\ AgainOf(work') \subseteq new
  <2>1. CASE end < Len(p.text)
    <3>1. PICK r : r = [p EXCEPT !.start = end - ChunkOverlap]
      OBVIOUS
    <3>2. end - ChunkOverlap \in Nat /\ end - ChunkOverlap < Len(p.text)
      <4>1. /\ PieceEnd(p.text, p.start) \in (p.start + 1)..Len(p.text)
            /\ PieceEnd(p.text, p.start) < Len(p.text) => PieceEnd(p.text, p.start) > p.start + ChunkOverlap
        BY <1>3, PieceEnds
      <4>2. ChunkOverlap \in Nat
        BY SizesAssumption
      <4> QED BY <1>3, <1>4, <2>1, <4>1, <4>2
    <3>3. /\ r \in PiecesOf(LettersOf(Head(groups))) /\ r.text = p.text /\ r.level = "character"
          /\ r.start = end - ChunkOverlap
      BY <1>3, <3>1, <3>2 DEF PiecesOf
    <3>4. Written(r) = end /\ Waiting(r) = behind /\ Repeated(r) \subseteq new
      <4> HIDE DEF new, behind
      <4> QED BY <1>6, <2>1, <3>3
    <3>5. work' = [work EXCEPT ![1] = r]
      BY <1>3, <1>11, <2>1, <3>1
    <3>6. work' # <<>> /\ groups' = groups
      <4>1. work \in Seq(PiecesOf(LettersOf(Head(groups)))) /\ 1 \in 1..Len(work)
        BY <1>1, PieceType DEF ChunkerInv
      <4>2. DOMAIN work' = DOMAIN work /\ DOMAIN work = 1..Len(work)
        BY <3>5, <4>1
      <4>3. work' # <<>>
        BY <4>1, <4>2
      <4> QED BY <1>11, <4>3
    <3> HIDE DEF new, behind
    <3>7. Written(r) < Len(r.text)
      BY <2>1, <3>3, <3>4
    <3>8. Replaced([work EXCEPT ![1] = r], r, work, groups, doc)
      <4>1. p.text = work[1].text /\ r.text = work[1].text
        BY <1>3, <3>3
      <4> QED BY <1>1, <1>2, <3>3, <3>7, <4>1, ReplacePiece
    <3> QED BY <3>4, <3>5, <3>6, <3>8 DEF Replaced
  <2>2. CASE ~(end < Len(p.text))
    <3>1. work' = Tail(work) /\ behind = {}
      BY <1>6, <1>11, <2>2
    <3>2. PICK rest, left : /\ rest = Tail(work) /\ rest = work' /\ left = groups'
                            /\ left = IF rest = <<>> THEN Tail(groups) ELSE groups
      BY <1>11, <3>1
    <3>3. QueueInv(rest, left, doc) /\ LeftOf(rest, left) = RestOf(work, groups) /\ AgainOf(rest) = {}
      BY <1>1, <1>2, <3>2, DropPiece
    <3> HIDE DEF new, behind
    <3> QED BY <3>1, <3>2, <3>3
  <2> QED BY <2>1, <2>2
<1> HIDE DEF new, behind
<1> QED BY <1>1, <1>2, <1>6, <1>7, <1>8, <1>9, <1>10, <1>12, EmitText

\* _assign_ids_and_metadata changes no text.
LEMMA AssignText ==
  ASSUME ChunkerInv, TextInv, Assign
  PROVE  TextInv'
<1>1. work = <<>> /\ groups = <<>> /\ doc' = doc /\ groups' = groups /\ work' = work
  BY DEF Assign
<1>2. Contents' = Contents
  BY AssignLinks DEF Contents
<1> QED BY <1>1, <1>2 DEF TextInv

\* So does every step, and it holds at the beginning.
LEMMA TextStep ==
  ASSUME ChunkerInv, TextInv, [Next]_vars
  PROVE  TextInv'
<1>1. CASE UNCHANGED vars
  BY <1>1 DEF vars, TextInv, Contents
<1> QED BY <1>1, CutGroupText, EmitPieceText, CutParagraphText, CutSentenceText,
           CutCharactersText, AssignText DEF Next, Finished

\* It holds at the beginning, when every body is still to be cut.
LEMMA TextInit == Init => TextInv
<1> SUFFICES ASSUME Init PROVE TextInv
  OBVIOUS
<1>1. doc \in Documents /\ groups = GroupsOf(doc) /\ work = <<>> /\ chunks = <<>> /\ done = FALSE
  BY DEF Init
<1>2. /\ groups \in Seq(ClauseGroups(doc)) /\ Lined(LettersPer(groups))
      /\ Together(LettersPer(groups)) = BodyLetters(doc)
  BY <1>1, GroupsKeep
<1>3. LeftOf(work, groups) = BodyLetters(doc) /\ AgainOf(work) = {}
  BY <1>1, <1>2 DEF LeftOf, AgainOf
<1>4. Len(Contents) = 0
  <2>1. Len(<<>>) = 0 /\ 1..0 = {}
    OBVIOUS
  <2>2. Contents = [i \in 1..0 |-> chunks[i].content]
    BY <1>1, <2>1 DEF Contents
  <2> QED BY <2>2
<1>5. AllLetters(Contents) = {} /\ TextsInTurn(Contents) /\ ClausesCut(Contents, doc)
      /\ \A i \in 1..(Len(Contents) - 1) : FALSE
  <2>1. 1..0 = {} /\ 1..(0 - 1) = {}
    OBVIOUS
  <2> QED BY <1>4, <2>1 DEF AllLetters, LettersUpTo, TextsInTurn, ClausesCut
<1>6. CutInTurn(Contents, LeftOf(work, groups), AgainOf(work), BodyLetters(doc))
  BY <1>3, <1>5 DEF CutInTurn, Before
<1> QED BY <1>1, <1>2, <1>5, <1>6 DEF TextInv, QueueInv

\* It holds throughout.
LEMMA TextHolds == Spec => []TextInv
  BY ChunkerHolds, TextInit, TextStep, PTL DEF Spec

-----------------------------------------------------------------------------
(* Excerpts                                                                *)

\* Text t stands in s as it is.
StandsAt(t, s, a) == a + Len(t) - 1 <= Len(s) /\ \A j \in 1..Len(t) : t[j] = s[a + j - 1]
Excerpt(t, s) == \E a \in Nat \ {0} : StandsAt(t, s, a)

\* A text from letter to letter, one in which no paragraph ends and one in which
\* no sentence does.
Lettered(t) == t \in Seq(Nat) /\ t # <<>> /\ IsLetter(t[1]) /\ IsLetter(t[Len(t)])
Unbroken(t) == \A i \in 1..(Len(t) - 1) : t[i] = NewLine => t[i + 1] # NewLine
Unspaced(t) == \A i \in 1..Len(t) : t[i] # SentenceSpace

\* An excerpt of an excerpt is one.
LEMMA ExcerptOfExcerpt ==
  ASSUME NEW r \in Seq(Nat), NEW t \in Seq(Nat), NEW s \in Seq(Nat), Excerpt(r, t), Excerpt(t, s), r # <<>>
  PROVE  Excerpt(r, s)
<1>1. PICK a \in Nat \ {0} : StandsAt(r, t, a)
  BY DEF Excerpt
<1>2. PICK b \in Nat \ {0} : StandsAt(t, s, b)
  BY DEF Excerpt
<1>3. Len(r) \in Nat /\ Len(t) \in Nat /\ Len(s) \in Nat
  OBVIOUS
<1> DEFINE c == a + b - 1
<1>4. c \in Nat \ {0} /\ c + Len(r) - 1 <= Len(s)
  BY <1>1, <1>2, <1>3 DEF StandsAt
<1>5. ASSUME NEW j \in 1..Len(r) PROVE r[j] = s[c + j - 1]
  <2>1. r[j] = t[a + j - 1] /\ a + j - 1 \in 1..Len(t)
    BY <1>1, <1>3 DEF StandsAt
  <2>2. t[a + j - 1] = s[b + (a + j - 1) - 1] /\ b + (a + j - 1) - 1 = c + j - 1
    BY <1>2, <2>1 DEF StandsAt
  <2> QED BY <2>1, <2>2
<1> HIDE DEF c
<1> QED BY <1>4, <1>5 DEF Excerpt, StandsAt

\* And no paragraph ends in it.
LEMMA ExcerptUnbroken ==
  ASSUME NEW r \in Seq(Nat), NEW t \in Seq(Nat), Excerpt(r, t), Unbroken(t)
  PROVE  Unbroken(r)
<1>1. PICK a \in Nat \ {0} : StandsAt(r, t, a)
  BY DEF Excerpt
<1>2. Len(r) \in Nat /\ Len(t) \in Nat
  OBVIOUS
<1> SUFFICES ASSUME NEW i \in 1..(Len(r) - 1), r[i] = NewLine, r[i + 1] = NewLine PROVE FALSE
  BY DEF Unbroken
<1>3. i \in 1..Len(r) /\ i + 1 \in 1..Len(r)
  BY <1>2
<1>4. r[i] = t[a + i - 1] /\ r[i + 1] = t[a + (i + 1) - 1]
  BY <1>1, <1>3 DEF StandsAt
<1>5. a + i - 1 \in 1..(Len(t) - 1) /\ a + (i + 1) - 1 = (a + i - 1) + 1
  BY <1>1, <1>2, <1>3 DEF StandsAt
<1> QED BY <1>4, <1>5 DEF Unbroken

\* What a join puts between two texts ends a paragraph: an excerpt in which none
\* ends stands in one of them.
LEMMA BreakExcerpt ==
  ASSUME NEW s \in Seq(Nat), NEW u \in Seq(Nat), NEW t, Lettered(t), Unbroken(t),
         Excerpt(t, s \o Break \o u)
  PROVE  Excerpt(t, s) \/ Excerpt(t, u)
<1> DEFINE whole == s \o Break \o u
           n == Len(s)
           m == Len(t)
<1>1. /\ n \in Nat /\ Len(u) \in Nat /\ Len(whole) = n + 2 + Len(u)
      /\ \A i \in 1..n : whole[i] = s[i]
      /\ whole[n + 1] = NewLine /\ whole[n + 2] = NewLine
      /\ \A i \in 1..Len(u) : whole[n + 2 + i] = u[i]
  BY DEF Break, NewLine
<1>2. m \in Nat \ {0} /\ IsLetter(t[1]) /\ IsLetter(t[m]) /\ ~IsLetter(NewLine)
  BY DEF Lettered, IsLetter, NewLine
<1>3. PICK a \in Nat \ {0} : a + m - 1 <= Len(whole) /\ \A j \in 1..m : t[j] = whole[a + j - 1]
  BY DEF Excerpt, StandsAt
<1> HIDE DEF whole, n
<1>4. t[1] = whole[a] /\ t[m] = whole[a + m - 1]
  BY <1>2, <1>3
<1>5. a # n + 1 /\ a # n + 2 /\ a + m - 1 # n + 1 /\ a + m - 1 # n + 2
  BY <1>1, <1>2, <1>4
<1>6. CASE a + m - 1 <= n
  <2>1. \A j \in 1..m : t[j] = s[a + j - 1]
    BY <1>1, <1>2, <1>3, <1>6
  <2> QED BY <1>6, <2>1 DEF Excerpt, StandsAt, n
<1>7. CASE a >= n + 3
  <2> DEFINE b == a - (n + 2)
  <2>1. b \in Nat \ {0} /\ b + m - 1 <= Len(u)
    BY <1>1, <1>2, <1>3, <1>7
  <2>2. ASSUME NEW j \in 1..m PROVE t[j] = u[b + j - 1]
    <3>1. b + j - 1 \in 1..Len(u) /\ n + 2 + (b + j - 1) = a + j - 1
      BY <1>1, <1>2, <2>1
    <3> QED BY <1>1, <1>3, <3>1
  <2> HIDE DEF b
  <2> QED BY <2>1, <2>2 DEF Excerpt, StandsAt
<1>8. CASE ~(a + m - 1 <= n) /\ ~(a >= n + 3)
  <2>1. a <= n /\ a + m >= n + 4
    <3> HIDE DEF m
    <3> QED BY <1>1, <1>2, <1>5, <1>8
  <2>2. PICK i \in 1..(m - 1) : a + i - 1 = n + 1 /\ a + (i + 1) - 1 = n + 2
    <3>1. n + 2 - a \in 1..(m - 1)
      <4> HIDE DEF m
      <4> QED BY <1>1, <1>2, <2>1
    <3>2. a + (n + 2 - a) - 1 = n + 1 /\ a + ((n + 2 - a) + 1) - 1 = n + 2
      BY <1>1
    <3> QED BY <3>1, <3>2
  <2>3. i \in 1..m /\ i + 1 \in 1..m
    <3> HIDE DEF m
    <3> QED BY <1>2
  <2>4. t[i] = whole[a + i - 1] /\ t[i + 1] = whole[a + (i + 1) - 1]
    BY <1>3, <2>3
  <2>5. t[i] = NewLine /\ t[i + 1] = NewLine
    BY <1>1, <2>2, <2>4
  <2> QED BY <2>5 DEF Unbroken
<1> QED BY <1>6, <1>7, <1>8

\* So it does in joined segments.
LEMMA JoinExcerpt ==
  ASSUME NEW L, NEW segments \in Seq({b \in Block : Letters(b.text) \subseteq L}),
         NEW t, Lettered(t), Unbroken(t), Excerpt(t, JoinTexts(segments))
  PROVE  \E k \in 1..Len(segments) : Excerpt(t, segments[k].text)
<1> DEFINE n == Len(segments)
           Found(i) == \E k \in 1..i : Excerpt(t, segments[k].text)
           A == [i \in 0..n |-> {x \in TextsOf(L) : Excerpt(t, x) => Found(i)}]
<1>1. n \in Nat /\ \A i \in 1..n : segments[i] \in {b \in Block : Letters(b.text) \subseteq L}
  OBVIOUS
<1>2. \A i \in 1..n : i - 1 \in 0..n /\ i \in 0..n
  BY <1>1
<1>3. <<>> \in A[0]
  <2>1. ~Excerpt(t, <<>>)
    <3> SUFFICES ASSUME NEW a \in Nat \ {0}, a + Len(t) - 1 <= 0 PROVE FALSE
      BY DEF Excerpt, StandsAt
    <3> QED BY DEF Lettered
  <2> QED BY <1>1, <2>1, NoText
<1>4. ASSUME NEW i \in 1..n, NEW x \in A[i - 1]
      PROVE  x \in TextsOf(L) /\ AddText(x, segments[i]) \in A[i]
  <2>1. x \in TextsOf(L) /\ (Excerpt(t, x) => Found(i - 1))
    BY <1>2
  <2>2. AddText(x, segments[i]) \in TextsOf(L)
    BY <1>1, <2>1, AddTextType
  <2>3. x \in Seq(Nat) /\ segments[i].text \in Seq(Nat)
    BY <1>1, <2>1 DEF TextsOf, Block
  <2>4. ASSUME Excerpt(t, AddText(x, segments[i])) PROVE Found(i)
    <3>1. Excerpt(t, x) \/ Excerpt(t, segments[i].text)
      BY <2>3, <2>4, BreakExcerpt DEF AddText
    <3>2. \A k \in 1..(i - 1) : k \in 1..i
      OBVIOUS
    <3>3. i \in 1..i
      OBVIOUS
    <3> QED BY <2>1, <3>1, <3>2, <3>3
  <2> HIDE DEF Found
  <2>5. A[i] = {y \in TextsOf(L) : Excerpt(t, y) => Found(i)}
    BY <1>2
  <2> QED BY <2>1, <2>2, <2>4, <2>5
<1>5. JoinTexts(segments) \in A[n]
  <2> HIDE DEF A
  <2> QED BY <1>1, <1>3, <1>4, JoinFold
<1>6. n \in 0..n
  BY <1>1
<1> HIDE DEF Found
<1>7. Found(n)
  BY <1>5, <1>6
<1> QED BY <1>7 DEF Found

\* A stripped text stands in what it was stripped of, from letter to letter.
LEMMA StripExcerpt ==
  ASSUME NEW t \in Seq(Nat), Strip(t) # <<>>
  PROVE  Lettered(Strip(t)) /\ Excerpt(Strip(t), t)
<1> DEFINE kept == {i \in DOMAIN t : IsLetter(t[i])}
<1>1. kept # {} /\ kept \in SUBSET Nat /\ kept \in SUBSET (0..Len(t)) /\ kept \in SUBSET (1..Len(t))
  BY DEF Strip
<1>2. \E i \in kept : \A j \in kept : i <= j
  <2> HIDE DEF kept
  <2> QED BY <1>1, LeastNatural
<1>3. \E i \in kept : \A j \in kept : j <= i
  <2>1. Len(t) \in Nat
    OBVIOUS
  <2> HIDE DEF kept
  <2>2. Max(kept) \in kept /\ \A y \in kept : y <= Max(kept)
    BY <1>1, <2>1, Greatest
  <2> QED BY <2>2
<1>4. PICK a \in kept : a = (CHOOSE k \in kept : \A j \in kept : k <= j) /\ \A j \in kept : a <= j
  BY <1>2
<1>5. PICK z \in kept : z = (CHOOSE k \in kept : \A l \in kept : l <= k)
  BY <1>3
<1>6. Strip(t) = SubSeq(t, a, z)
  BY <1>1, <1>4, <1>5 DEF Strip
<1>7. /\ a \in Nat \ {0} /\ z \in Nat /\ a <= z /\ z <= Len(t) /\ IsLetter(t[a]) /\ IsLetter(t[z])
  <2>1. a \in 1..Len(t) /\ z \in 1..Len(t) /\ a <= z
    <3> HIDE DEF kept
    <3> QED BY <1>1, <1>4, <1>5
  <2>2. IsLetter(t[a]) /\ IsLetter(t[z])
    BY <1>4, <1>5
  <2> HIDE DEF kept
  <2> QED BY <2>1, <2>2
<1> HIDE DEF kept
<1>8. PICK s \in Seq(Nat) : s = Strip(t) /\ Len(s) = z - a + 1 /\ \A i \in 1..(z - a + 1) : s[i] = t[a + i - 1]
  <2>1. 1 <= a /\ a \in Nat
    BY <1>7
  <2>2. /\ SubSeq(t, a, z) \in Seq(Nat)
        /\ Len(SubSeq(t, a, z)) = IF a <= z THEN z - a + 1 ELSE 0
        /\ \A i \in 1..(z - a + 1) : SubSeq(t, a, z)[i] = t[a + i - 1]
    BY <1>7, <2>1, SubKeeps
  <2> QED BY <1>6, <1>7, <2>2
<1>9. Lettered(s)
  <2>1. s[1] = t[a] /\ s[Len(s)] = t[z] /\ s # <<>>
    BY <1>7, <1>8
  <2> QED BY <1>7, <2>1 DEF Lettered
<1>10. StandsAt(s, t, a)
  BY <1>7, <1>8 DEF StandsAt
<1> QED BY <1>7, <1>8, <1>9, <1>10 DEF Excerpt

\* The parts of a split text stand in it without a separator.
LEMMA SplitExcerpt ==
  ASSUME NEW text \in Seq(Nat), NEW seps, NEW i \in 1..Len(SplitText(text, seps))
  PROVE  LET t == SplitText(text, seps)[i]
         IN  /\ Lettered(t)
             /\ \E a \in Nat \ {0} : StandsAt(t, text, a) /\ \A j \in 1..Len(t) : a + j - 1 \notin seps
<1> DEFINE n == Len(text)
           inside == DOMAIN text \ seps
           last(k) == CHOOSE e \in inside : k <= e /\ k..e \subseteq inside /\ e + 1 \notin inside
           partAt(k) == Strip(SubSeq(text, k, last(k)))
           starts == {k \in inside : k - 1 \notin inside /\ partAt(k) # <<>>}
           nth(m) == CHOOSE k \in starts : Cardinality({j \in starts : j <= k}) = m
<1>1. n \in Nat /\ inside \in SUBSET (1..n) /\ starts \in SUBSET (1..n)
  OBVIOUS
<1>2. SplitText(text, seps) = [k \in 1..Cardinality(starts) |-> partAt(nth(k))]
  BY Zenon DEF SplitText
<1>3. Cardinality(starts) \in Nat
  <2> HIDE DEF starts, n
  <2>1. IsFiniteSet(1..n)
    BY <1>1, FS_Interval
  <2> QED BY <1>1, <2>1, FS_Subset, FS_CardinalityType
<1>4. i \in 1..Cardinality(starts) /\ SplitText(text, seps)[i] = partAt(nth(i))
  <2> HIDE DEF starts, partAt, nth
  <2> QED BY <1>2, <1>3
<1>5. PICK k \in starts : k = nth(i)
  <2> HIDE DEF starts, n
  <2>1. \E k \in starts : Cardinality({j \in starts : j <= k}) = i
    BY <1>1, <1>4, KthIndex
  <2> QED BY <2>1
<1>6. k \in inside /\ partAt(k) # <<>>
  OBVIOUS
<1>7. PICK e \in inside : e = last(k) /\ k <= e /\ k..e \subseteq inside
  <2>1. \E e \in inside : k <= e /\ k..e \subseteq inside /\ e + 1 \notin inside
    <3> HIDE DEF inside, n, starts
    <3> QED BY <1>1, <1>6, RunEnds
  <2> QED BY <2>1
<1>8. k \in Nat \ {0} /\ e \in Nat /\ e <= Len(text)
  <2> HIDE DEF inside, starts
  <2> QED BY <1>1, <1>6
<1>9. PICK u \in Seq(Nat) : /\ u = SubSeq(text, k, e) /\ Len(u) = e - k + 1
                            /\ \A j \in 1..(e - k + 1) : u[j] = text[k + j - 1]
  <2>1. 1 <= k /\ k \in Nat
    BY <1>8
  <2> HIDE DEF inside, starts, last
  <2>2. /\ SubSeq(text, k, e) \in Seq(Nat)
        /\ Len(SubSeq(text, k, e)) = IF k <= e THEN e - k + 1 ELSE 0
        /\ \A j \in 1..(e - k + 1) : SubSeq(text, k, e)[j] = text[k + j - 1]
    BY <1>8, <2>1, SubKeeps
  <2> QED BY <1>7, <2>2
<1>10. PICK t : t = SplitText(text, seps)[i] /\ t = Strip(u) /\ t # <<>>
  BY <1>4, <1>5, <1>6, <1>7, <1>9
<1> HIDE DEF starts, partAt, nth, last
<1>11. Lettered(t) /\ Excerpt(t, u)
  BY <1>10, StripExcerpt
<1>12. PICK b \in Nat \ {0} : StandsAt(t, u, b)
  BY <1>11 DEF Excerpt
<1>13. Len(t) \in Nat
  BY <1>11 DEF Lettered
<1> DEFINE a == k + b - 1
<1>14. a \in Nat \ {0} /\ a + Len(t) - 1 <= Len(text)
  BY <1>8, <1>9, <1>12, <1>13 DEF StandsAt
<1>15. ASSUME NEW j \in 1..Len(t) PROVE t[j] = text[a + j - 1] /\ a + j - 1 \notin seps
  <2>1. t[j] = u[b + j - 1] /\ b + j - 1 \in 1..(e - k + 1)
    <3>1. b + Len(t) - 1 <= e - k + 1 /\ e - k + 1 \in Int
      BY <1>8, <1>9, <1>12 DEF StandsAt
    <3>2. t[j] = u[b + j - 1]
      BY <1>12 DEF StandsAt
    <3> QED BY <1>13, <3>1, <3>2
  <2>2. k + (b + j - 1) - 1 = a + j - 1 /\ a + j - 1 \in k..e
    BY <1>8, <2>1
  <2>3. t[j] = text[a + j - 1]
    BY <1>9, <2>1, <2>2
  <2>4. a + j - 1 \in inside
    BY <1>7, <2>2
  <2> QED BY <2>3, <2>4
<1> HIDE DEF a
<1> QED BY <1>10, <1>11, <1>14, <1>15 DEF StandsAt

\* Merging makes no text that is too long.
LEMMA MergeLong ==
  ASSUME NEW L, NEW parts \in Seq(PartsOf(L)), NEW k \in 1..Len(MergeSmallParts(parts)),
         Len(MergeSmallParts(parts)[k]) > MaxChunkSize
  PROVE  \E i \in 1..Len(parts) : MergeSmallParts(parts)[k] = parts[i]
<1> DEFINE n == Len(parts)
           From(t) == Len(t) > MaxChunkSize => \E i \in 1..n : t = parts[i]
           B == {x \in Seq(PartsOf(L)) : \A j \in 1..Len(x) : From(x[j])}
           A == [i \in 0..n |-> B]
<1>1. n \in Nat /\ MaxChunkSize \in Nat /\ \A i \in 1..n : parts[i] \in PartsOf(L)
  BY SizesAssumption
<1>2. A[0] = B /\ A[n] = B /\ \A i \in 1..n : A[i] = B /\ A[i - 1] = B
  BY <1>1
<1>3. <<>> \in B
  OBVIOUS
<1>4. ASSUME NEW i \in 1..n, NEW x \in B PROVE x \in Seq(PartsOf(L)) /\ AddPart(x, parts[i]) \in B
  <2>1. parts[i] \in PartsOf(L) /\ From(parts[i]) /\ x \in Seq(PartsOf(L))
    BY <1>1
  <2>2. PICK candidate : candidate = Last(x) \o Break \o parts[i]
    OBVIOUS
  <2>3. PICK y : y = AddPart(x, parts[i]) /\ y \in Seq(PartsOf(L))
    BY <2>1, AddPartType
  <2>4. CASE x # <<>> /\ Len(candidate) <= MaxChunkSize
    <3>1. y = Append(Front(x), candidate)
      BY <2>2, <2>3, <2>4 DEF AddPart
    <3>2. Front(x) \in Seq(PartsOf(L)) /\ Len(Front(x)) = Len(x) - 1
          /\ \A j \in 1..(Len(x) - 1) : Front(x)[j] = x[j]
      <4>1. Len(x) \in Nat \ {0} /\ Front(x) = SubSeq(x, 1, Len(x) - 1)
        BY <2>1, <2>4 DEF Front
      <4>2. PICK m \in Nat : m = Len(x) - 1
        <5>1. PICK l \in Nat \ {0} : l = Len(x)
          BY <4>1
        <5>2. l - 1 \in Nat
          OBVIOUS
        <5> QED BY <5>1, <5>2
      <4>3. 1 \in Int /\ m \in Int /\ \A j \in 1..m : x[j] \in PartsOf(L)
        BY <2>1, <4>2
      <4>4. /\ SubSeq(x, 1, m) \in Seq(PartsOf(L))
            /\ Len(SubSeq(x, 1, m)) = IF 1 <= m THEN m - 1 + 1 ELSE 0
            /\ \A j \in 1..(m - 1 + 1) : SubSeq(x, 1, m)[j] = x[1 + j - 1]
        BY <4>3, SubSeqProperties
      <4>5. Len(SubSeq(x, 1, m)) = m /\ \A j \in 1..m : SubSeq(x, 1, m)[j] = x[j]
        BY <4>2, <4>4
      <4> QED BY <4>1, <4>2, <4>4, <4>5
    <3>3. Last(x) \in TextsOf(L) /\ parts[i] \in TextsOf(L)
      BY <2>1, <2>4 DEF Last, PartsOf
    <3>4. candidate \in Seq(Nat)
      BY <2>2, <3>3, BreakBetween DEF TextsOf
    <3>5. ~(Len(candidate) > MaxChunkSize)
      BY <1>1, <2>4, <3>4
    <3>6. Len(y) = Len(x) /\ y[Len(x)] = candidate /\ \A j \in 1..(Len(x) - 1) : y[j] = x[j]
      BY <2>1, <2>4, <3>1, <3>2, AppendProperties
    <3> HIDE DEF From
    <3>7. \A j \in 1..(Len(x) - 1) : From(y[j])
      BY <3>6
    <3>8. From(candidate)
      BY <3>5 DEF From
    <3>9. \A j \in 1..Len(y) : From(y[j])
      BY <2>1, <3>6, <3>7, <3>8
    <3> QED BY <2>1, <2>3, <3>9
  <2>5. CASE ~(x # <<>> /\ Len(candidate) <= MaxChunkSize)
    <3>1. y = Append(x, parts[i])
      BY <2>2, <2>3, <2>5 DEF AddPart
    <3> HIDE DEF From
    <3>2. Len(y) = Len(x) + 1 /\ y[Len(x) + 1] = parts[i] /\ \A j \in 1..Len(x) : y[j] = x[j]
      BY <2>1, <3>1, AppendProperties
    <3>3. \A j \in 1..Len(y) : From(y[j])
      BY <2>1, <3>2
    <3> QED BY <2>1, <2>3, <3>3
  <2> QED BY <2>4, <2>5
<1>5. MergeSmallParts(parts) \in B
  <2> HIDE DEF A, B
  <2>1. MergeSmallParts(parts) \in A[Len(parts)]
    BY <1>2, <1>3, <1>4, MergeFold
  <2> QED BY <1>2, <2>1
<1> QED BY <1>5

\* A paragraph that is too long to merge, and a sentence of it.
LEMMA LongParagraph ==
  ASSUME NEW L, NEW text \in TextsOf(L), NEW k \in 1..Len(MergeSmallParts(Paragraphs(text))),
         Len(MergeSmallParts(Paragraphs(text))[k]) > MaxChunkSize
  PROVE  LET t == MergeSmallParts(Paragraphs(text))[k]
         IN  Lettered(t) /\ Unbroken(t) /\ Excerpt(t, text)
<1> DEFINE newlines == {i \in DOMAIN text : text[i] = NewLine}
           seps == {i \in newlines : {i - 1, i + 1} \cap newlines # {}}
<1>1. text \in Seq(Nat) /\ Paragraphs(text) = SplitText(text, seps) /\ Paragraphs(text) \in Seq(PartsOf(L))
  BY SplitType DEF TextsOf, Paragraphs
<1>2. PICK i \in 1..Len(Paragraphs(text)) : MergeSmallParts(Paragraphs(text))[k] = Paragraphs(text)[i]
  <2>1. PICK parts \in Seq(PartsOf(L)) : parts = Paragraphs(text)
    BY <1>1
  <2>2. \E i \in 1..Len(parts) : MergeSmallParts(parts)[k] = parts[i]
    BY <2>1, MergeLong
  <2> QED BY <2>1, <2>2
<1>3. PICK t : t = MergeSmallParts(Paragraphs(text))[k] /\ t = Paragraphs(text)[i]
  BY <1>2
<1>4. \A s : s = SplitText(text, seps)[i] =>
        /\ Lettered(s)
        /\ \E a \in Nat \ {0} : StandsAt(s, text, a) /\ \A j \in 1..Len(s) : a + j - 1 \notin seps
  <2> HIDE DEF seps
  <2> QED BY <1>1, SplitExcerpt
<1>5. Lettered(t) /\ \E a \in Nat \ {0} : StandsAt(t, text, a) /\ \A j \in 1..Len(t) : a + j - 1 \notin seps
  <2> HIDE DEF seps
  <2> QED BY <1>1, <1>3, <1>4
<1>6. PICK a \in Nat \ {0} : StandsAt(t, text, a) /\ \A j \in 1..Len(t) : a + j - 1 \notin seps
  BY <1>5
<1>7. Unbroken(t)
  <2> SUFFICES ASSUME NEW j \in 1..(Len(t) - 1), t[j] = NewLine, t[j + 1] = NewLine PROVE FALSE
    BY DEF Unbroken
  <2>1. j \in 1..Len(t) /\ j + 1 \in 1..Len(t) /\ Len(t) \in Nat /\ a + (j + 1) - 1 = (a + j - 1) + 1
    BY <1>5 DEF Lettered
  <2>2. text[a + j - 1] = NewLine /\ text[(a + j - 1) + 1] = NewLine
    BY <1>6, <2>1 DEF StandsAt
  <2>3. a + j - 1 \in DOMAIN text /\ (a + j - 1) + 1 \in DOMAIN text
    <3>1. Len(text) \in Nat /\ DOMAIN text = 1..Len(text) /\ a + Len(t) - 1 <= Len(text)
      BY <1>1, <1>6 DEF StandsAt
    <3> HIDE DEF seps
    <3> QED BY <2>1, <3>1
  <2>4. a + j - 1 \in seps
    BY <2>2, <2>3
  <2> QED BY <1>6, <2>1, <2>4
<1> QED BY <1>3, <1>5, <1>6, <1>7 DEF Excerpt
LEMMA LongSentence ==
  ASSUME NEW L, NEW text \in TextsOf(L), NEW k \in 1..Len(MergeSmallParts(Sentences(text))),
         Len(MergeSmallParts(Sentences(text))[k]) > MaxChunkSize
  PROVE  LET t == MergeSmallParts(Sentences(text))[k]
         IN  Lettered(t) /\ Unspaced(t) /\ Excerpt(t, text)
<1> DEFINE seps == {i \in DOMAIN text : text[i] = SentenceSpace}
<1>1. text \in Seq(Nat) /\ Sentences(text) = SplitText(text, seps) /\ Sentences(text) \in Seq(PartsOf(L))
  BY SplitType DEF TextsOf, Sentences
<1>2. PICK i \in 1..Len(Sentences(text)) : MergeSmallParts(Sentences(text))[k] = Sentences(text)[i]
  <2>1. PICK parts \in Seq(PartsOf(L)) : parts = Sentences(text)
    BY <1>1
  <2>2. \E i \in 1..Len(parts) : MergeSmallParts(parts)[k] = parts[i]
    BY <2>1, MergeLong
  <2> QED BY <2>1, <2>2
<1>3. PICK t : t = MergeSmallParts(Sentences(text))[k] /\ t = Sentences(text)[i]
  BY <1>2
<1>4. \A s : s = SplitText(text, seps)[i] =>
        /\ Lettered(s)
        /\ \E a \in Nat \ {0} : StandsAt(s, text, a) /\ \A j \in 1..Len(s) : a + j - 1 \notin seps
  <2> HIDE DEF seps
  <2> QED BY <1>1, SplitExcerpt
<1>5. Lettered(t) /\ \E a \in Nat \ {0} : StandsAt(t, text, a) /\ \A j \in 1..Len(t) : a + j - 1 \notin seps
  <2> HIDE DEF seps
  <2> QED BY <1>1, <1>3, <1>4
<1>6. PICK a \in Nat \ {0} : StandsAt(t, text, a) /\ \A j \in 1..Len(t) : a + j - 1 \notin seps
  BY <1>5
<1>7. Unspaced(t)
  <2> SUFFICES ASSUME NEW j \in 1..Len(t), t[j] = SentenceSpace PROVE FALSE
    BY DEF Unspaced
  <2>1. Len(t) \in Nat
    BY <1>5 DEF Lettered
  <2>2. text[a + j - 1] = SentenceSpace /\ a + j - 1 \in DOMAIN text
    BY <1>1, <1>6, <2>1 DEF StandsAt
  <2> QED BY <1>6, <2>2
<1> QED BY <1>3, <1>5, <1>6, <1>7 DEF Excerpt

-----------------------------------------------------------------------------
(* Only long sentences are cut at characters                               *)

\* A text that stands in one paragraph of a block.
InParagraph(t, d) == Lettered(t) /\ Unbroken(t) /\ \E b \in 1..Len(d) : Excerpt(t, d[b].text)

\* A piece that is too long is in one paragraph and, below that level, in one
\* sentence; and only such pieces are cut at characters.
CutInside(p, d) ==
  /\ p.level = "character" => Len(p.text) > MaxChunkSize
  /\ Len(p.text) > MaxChunkSize =>
       InParagraph(p.text, d) /\ (p.level # "paragraph" => Unspaced(p.text))
PiecesInside(ps, d) == \A k \in 1..Len(ps) : CutInside(ps[k], d)

\* Neighbours that share letters stand in one sentence that is too long.
SharedInside(ts, d) ==
  \A i \in 1..(Len(ts) - 1) : Letters(ts[i]) \cap Letters(ts[i + 1]) # {}
    => InLongSentence(d, Letters(ts[i]) \cup Letters(ts[i + 1]))

\* What the next chunk repeats is of the piece that the last chunk is of.
CutInv ==
  /\ PiecesInside(work, doc)
  /\ SharedInside(Contents, doc)
  /\ AgainOf(work) # {} => Letters(Contents[Len(Contents)]) \subseteq Letters(work[1].text)

\* A paragraph of a group stands in one block, and so does a sentence of it.
LEMMA GroupParagraph ==
  ASSUME NEW d \in Documents, NEW g \in ClauseGroups(d),
         NEW t, Lettered(t), Unbroken(t), Excerpt(t, JoinTexts(g.segments))
  PROVE  InParagraph(t, d)
<1>1. /\ g.segments \in Seq(Block)
      /\ \A k \in 1..Len(g.segments) : \E b \in 1..Len(d) : g.segments[k] = d[b]
  BY GroupTypes DEF ClauseGroups
<1>2. g.segments \in Seq({b \in Block : Letters(b.text) \subseteq LettersOf(g)})
  <2>1. \A k \in 1..Len(g.segments) :
          g.segments[k] \in {b \in Block : Letters(b.text) \subseteq LettersOf(g)}
    BY <1>1 DEF LettersOf
  <2> QED BY <1>1, <2>1
<1>3. PICK k \in 1..Len(g.segments) : Excerpt(t, g.segments[k].text)
  BY <1>2, JoinExcerpt
<1>4. PICK b \in 1..Len(d) : g.segments[k] = d[b]
  BY <1>1
<1> QED BY <1>3, <1>4 DEF InParagraph
LEMMA ParagraphSentence ==
  ASSUME NEW d \in Documents, NEW t, InParagraph(t, d), NEW r, Lettered(r), Excerpt(r, t)
  PROVE  InParagraph(r, d)
<1>1. PICK b \in 1..Len(d) : Excerpt(t, d[b].text)
  BY DEF InParagraph
<1>2. t \in Seq(Nat) /\ Unbroken(t) /\ r \in Seq(Nat) /\ r # <<>>
  BY DEF InParagraph, Lettered
<1>3. d[b].text \in Seq(Nat)
  <2>1. d[b] \in Block
    BY DocType
  <2> QED BY <2>1 DEF Block
<1>4. Excerpt(r, d[b].text) /\ Unbroken(r)
  BY <1>1, <1>2, <1>3, ExcerptOfExcerpt, ExcerptUnbroken
<1> QED BY <1>4 DEF InParagraph

\* Letters of a long piece stand in a long sentence of the document.
LEMMA PieceInSentence ==
  ASSUME NEW d \in Documents, NEW t, InParagraph(t, d), Unspaced(t), Len(t) > MaxChunkSize,
         NEW K \in SUBSET Letters(t)
  PROVE  InLongSentence(d, K)
<1>1. PICK b \in 1..Len(d) : Excerpt(t, d[b].text)
  BY DEF InParagraph
<1>2. PICK s \in Seq(Nat) : s = d[b].text
  <2>1. d[b] \in Block
    BY DocType
  <2> QED BY <2>1 DEF Block
<1>3. PICK a \in Nat \ {0} : a + Len(t) - 1 <= Len(s) /\ \A j \in 1..Len(t) : t[j] = s[a + j - 1]
  BY <1>1, <1>2 DEF Excerpt, StandsAt
<1>4. /\ t \in Seq(Nat) /\ Len(t) \in Nat \ {0} /\ IsLetter(t[1]) /\ IsLetter(t[Len(t)]) /\ Unbroken(t)
      /\ MaxChunkSize \in Nat
  BY SizesAssumption DEF InParagraph, Lettered
<1>5. PICK e \in Nat : e = a + Len(t) - 1 /\ a <= e /\ e <= Len(s) /\ e - a >= MaxChunkSize
  <2>1. PICK n \in Nat \ {0} : n = Len(t)
    BY <1>4
  <2>2. PICK m \in Nat : m = Len(s)
    OBVIOUS
  <2>3. n > MaxChunkSize /\ a + n - 1 <= m
    BY <1>3, <2>1, <2>2
  <2>4. a + n - 1 \in Nat /\ a <= a + n - 1 /\ (a + n - 1) - a >= MaxChunkSize
    BY <1>4, <2>3
  <2> QED BY <2>1, <2>2, <2>3, <2>4
<1>6. \A i \in a..e : i - a + 1 \in 1..Len(t) /\ s[i] = t[i - a + 1]
  <2> SUFFICES ASSUME NEW i \in a..e PROVE i - a + 1 \in 1..Len(t) /\ s[i] = t[i - a + 1]
    OBVIOUS
  <2>1. i - a + 1 \in 1..Len(t) /\ a + (i - a + 1) - 1 = i
    BY <1>4, <1>5
  <2>2. t[i - a + 1] = s[a + (i - a + 1) - 1]
    BY <1>3, <2>1
  <2> QED BY <2>1, <2>2
<1>7. a \in DOMAIN s /\ e \in DOMAIN s /\ IsLetter(s[a]) /\ IsLetter(s[e])
  <2>1. t[1] = s[a + 1 - 1] /\ t[Len(t)] = s[a + Len(t) - 1] /\ a + 1 - 1 = a
    BY <1>3, <1>4
  <2> QED BY <1>4, <1>5, <2>1
<1>8. OneSentence(s, a, e)
  <2> SUFFICES ASSUME NEW i \in a..e
               PROVE  /\ s[i] # SentenceSpace
                      /\ i < e /\ s[i] = NewLine => s[i + 1] # NewLine
    BY DEF OneSentence
  <2>1. s[i] # SentenceSpace
    BY <1>6 DEF Unspaced
  <2>2. ASSUME i < e, s[i] = NewLine PROVE s[i + 1] # NewLine
    <3>1. i + 1 \in a..e /\ (i + 1) - a + 1 = (i - a + 1) + 1
      BY <2>2
    <3>2. s[i] = t[i - a + 1] /\ s[i + 1] = t[(i - a + 1) + 1]
      BY <1>6, <3>1
    <3>3. i - a + 1 \in 1..(Len(t) - 1)
      BY <1>4, <1>5, <2>2
    <3> QED BY <1>4, <2>2, <3>2, <3>3 DEF Unbroken
  <2> QED BY <2>1, <2>2
<1>9. K \subseteq Range(SubSeq(s, a, e))
  <2>1. /\ Len(SubSeq(s, a, e)) = e - a + 1 /\ SubSeq(s, a, e) \in Seq(Nat)
        /\ \A i \in 1..(e - a + 1) : SubSeq(s, a, e)[i] = s[a + i - 1]
    <3>1. 1 <= a /\ a \in Nat
      OBVIOUS
    <3>2. /\ SubSeq(s, a, e) \in Seq(Nat)
          /\ Len(SubSeq(s, a, e)) = IF a <= e THEN e - a + 1 ELSE 0
          /\ \A i \in 1..(e - a + 1) : SubSeq(s, a, e)[i] = s[a + i - 1]
      BY <1>5, <3>1, SubKeeps
    <3> QED BY <1>5, <3>2
  <2> SUFFICES ASSUME NEW c \in K PROVE c \in Range(SubSeq(s, a, e))
    OBVIOUS
  <2>2. PICK j \in 1..Len(t) : t[j] = c
    BY <1>4, LettersAt
  <2>3. j \in 1..(e - a + 1)
    <3>1. PICK n \in Nat \ {0} : n = Len(t)
      BY <1>4
    <3>2. j \in 1..n /\ e = a + n - 1
      BY <1>5, <3>1
    <3> QED BY <3>2
  <2>4. PICK u \in Seq(Nat) : u = SubSeq(s, a, e) /\ j \in DOMAIN u /\ u[j] = c
    <3>1. s[a + j - 1] = c
      BY <1>3, <2>2
    <3>2. PICK u \in Seq(Nat) : u = SubSeq(s, a, e) /\ Len(u) = e - a + 1 /\ u[j] = s[a + j - 1]
      BY <2>1, <2>3
    <3>3. DOMAIN u = 1..(e - a + 1)
      BY <3>2
    <3> QED BY <2>3, <3>1, <3>2, <3>3
  <2> QED BY <2>4, Zenon DEF Range
<1>10. b \in DOMAIN d
  BY DocType
<1> QED BY <1>2, <1>5, <1>7, <1>8, <1>9, <1>10 DEF InLongSentence

\* A chunk more: what it shares with the last one is what it was to repeat.
LEMMA EmitShared ==
  ASSUME NEW d, NEW ts \in Seq(Seq(Nat)), NEW left, NEW again, NEW all,
         CutInTurn(ts, left, again, all), SharedInside(ts, d),
         NEW t \in Seq(Nat), Letters(t) \subseteq again \cup left,
         again # {} => InLongSentence(d, Letters(ts[Len(ts)]) \cup Letters(t))
  PROVE  SharedInside(Append(ts, t), d)
<1>1. PICK n \in Nat, us \in Seq(Seq(Nat)) :
        /\ n = Len(ts) /\ us = Append(ts, t) /\ Len(us) = n + 1
        /\ us[n + 1] = t /\ \A i \in 1..n : us[i] = ts[i]
  <2>1. /\ Append(ts, t) \in Seq(Seq(Nat)) /\ Len(Append(ts, t)) = Len(ts) + 1 /\ Len(ts) \in Nat
        /\ Append(ts, t)[Len(ts) + 1] = t /\ \A i \in 1..Len(ts) : Append(ts, t)[i] = ts[i]
    BY AppendProperties
  <2> QED BY <2>1
<1> SUFFICES ASSUME NEW i \in 1..n, Letters(us[i]) \cap Letters(us[i + 1]) # {}
             PROVE  InLongSentence(d, Letters(us[i]) \cup Letters(us[i + 1]))
  <2>1. Len(us) - 1 = n
    BY <1>1
  <2> QED BY <1>1, <2>1 DEF SharedInside
<1>2. CASE i # n
  <2>1. i \in 1..(n - 1) /\ i \in 1..n /\ i + 1 \in 1..n
    BY <1>2
  <2> QED BY <1>1, <2>1 DEF SharedInside
<1>3. CASE i = n
  <2>1. us[i] = ts[n] /\ us[i + 1] = t
    BY <1>1, <1>3
  <2>2. PICK c : c \in Letters(ts[n]) /\ c \in Letters(t)
    BY <2>1
  <2>3. c \in AllLetters(ts) /\ c \in Nat
    <3>1. n \in 1..n /\ ts[n] \in Seq(Nat)
      BY <1>1, <1>3
    <3>2. c \in AllLetters(ts)
      BY <1>1, <2>2, <3>1 DEF AllLetters, LettersUpTo
    <3> QED BY <2>2, <3>1, <3>2, LettersAt
  <2>4. c \notin left
    <3>1. c \in left => c < c
      BY <2>3 DEF CutInTurn, Before
    <3> QED BY <2>3, <3>1
  <2>5. again # {}
    BY <2>2, <2>4
  <2> QED BY <1>1, <2>1, <2>5
<1> QED BY <1>2, <1>3

\* Steps that emit no chunk change no text.
LEMMA SameShared ==
  ASSUME CutInv, doc' = doc, chunks' = chunks, PiecesInside(work', doc),
         AgainOf(work') # {} => AgainOf(work) # {} /\ work'[1].text = work[1].text
  PROVE  CutInv'
<1>1. Contents' = Contents
  BY DEF Contents
<1> QED BY <1>1 DEF CutInv

\* A chunk is emitted, inside the piece of the last one if that is to be repeated.
LEMMA EmitInside ==
  ASSUME ChunkerInv, TextInv, CutInv, doc' = doc,
         NEW g, NEW content \in Seq(Nat), Emit(g, content),
         Letters(content) \subseteq AgainOf(work) \cup LeftOf(work, groups),
         AgainOf(work) # {} => InLongSentence(doc, Letters(Contents[Len(Contents)]) \cup Letters(content)),
         PiecesInside(work', doc),
         AgainOf(work') # {} => Letters(content) \subseteq Letters(work'[1].text)
  PROVE  CutInv'
<1>1. Contents' = Append(Contents, content) /\ Contents \in Seq(Seq(Nat))
  BY EmitContents, ContentsType DEF ChunkerInv
<1>2. CutInTurn(Contents, LeftOf(work, groups), AgainOf(work), BodyLetters(doc)) /\ SharedInside(Contents, doc)
  BY DEF TextInv, CutInv
<1>3. SharedInside(Append(Contents, content), doc)
  <2>1. PICK left, again : left = LeftOf(work, groups) /\ again = AgainOf(work)
    OBVIOUS
  <2> QED BY <1>1, <1>2, <2>1, EmitShared
<1>4. PICK us : us = Append(Contents, content) /\ us[Len(us)] = content
  <2>1. Len(Append(Contents, content)) = Len(Contents) + 1
        /\ Append(Contents, content)[Len(Contents) + 1] = content
    BY <1>1, AppendProperties
  <2> QED BY <2>1
<1>5. Letters(Contents'[Len(Contents')]) = Letters(content)
  BY <1>1, <1>4
<1> QED BY <1>1, <1>3, <1>5 DEF CutInv

\* New pieces are inside paragraphs, or inside the sentences of one.
LEMMA ParagraphsInside ==
  ASSUME NEW d \in Documents, NEW g \in ClauseGroups(d),
         NEW texts, texts = MergeSmallParts(Paragraphs(JoinTexts(g.segments)))
  PROVE  PiecesInside(Pieces("paragraph", texts), d)
<1>1. JoinTexts(g.segments) \in TextsOf(LettersOf(g))
  BY GroupText DEF ClauseGroups
<1>2. texts \in Seq(PartsOf(LettersOf(g)))
  BY <1>1, PartsType
<1>3. ASSUME NEW k \in 1..Len(texts), Len(texts[k]) > MaxChunkSize PROVE InParagraph(texts[k], d)
  <2>1. Lettered(texts[k]) /\ Unbroken(texts[k]) /\ Excerpt(texts[k], JoinTexts(g.segments))
    BY <1>1, <1>3, LongParagraph
  <2> QED BY <2>1, GroupParagraph
<1>4. ASSUME NEW k \in 1..Len(texts) PROVE CutInside(Piece("paragraph", texts[k]), d)
  BY <1>3 DEF CutInside, Piece
<1> QED BY <1>2, <1>4 DEF PiecesInside, Pieces
LEMMA SentencesInside ==
  ASSUME NEW d \in Documents, NEW L, NEW text \in TextsOf(L), InParagraph(text, d),
         NEW texts, texts = MergeSmallParts(Sentences(text))
  PROVE  PiecesInside(Pieces("sentence", texts), d)
<1>1. texts \in Seq(PartsOf(L))
  BY PartsType
<1>2. ASSUME NEW k \in 1..Len(texts), Len(texts[k]) > MaxChunkSize
      PROVE  InParagraph(texts[k], d) /\ Unspaced(texts[k])
  <2>1. Lettered(texts[k]) /\ Unspaced(texts[k]) /\ Excerpt(texts[k], text)
    BY <1>2, LongSentence
  <2> QED BY <2>1, ParagraphSentence
<1>3. ASSUME NEW k \in 1..Len(texts) PROVE CutInside(Piece("sentence", texts[k]), d)
  BY <1>2 DEF CutInside, Piece
<1> QED BY <1>1, <1>3 DEF PiecesInside, Pieces

\* So are the pieces behind the first.
LEMMA TailInside ==
  ASSUME NEW d, NEW S, NEW ps \in Seq(S), ps # <<>>, PiecesInside(ps, d)
  PROVE  PiecesInside(Tail(ps), d)
<1>1. Len(Tail(ps)) = Len(ps) - 1 /\ \A k \in 1..Len(Tail(ps)) : Tail(ps)[k] = ps[k + 1]
  BY HeadTailProperties
<1>2. \A k \in 1..(Len(ps) - 1) : k + 1 \in 1..Len(ps)
  OBVIOUS
<1> QED BY <1>1, <1>2 DEF PiecesInside

\* And with another first piece that is cut inside.
LEMMA FirstInside ==
  ASSUME NEW d, NEW S, NEW ps \in Seq(S), ps # <<>>, PiecesInside(ps, d), NEW p, CutInside(p, d)
  PROVE  PiecesInside([ps EXCEPT ![1] = p], d)
<1>1. Len([ps EXCEPT ![1] = p]) = Len(ps) /\ DOMAIN ps = 1..Len(ps)
  OBVIOUS
<1>2. \A k \in 1..Len(ps) : [ps EXCEPT ![1] = p][k] = IF k = 1 THEN p ELSE ps[k]
  BY <1>1
<1> QED BY <1>1, <1>2 DEF PiecesInside

\* Every step keeps the invariant.
LEMMA CutGroupShared ==
  ASSUME ChunkerInv, TextInv, CutInv, CutGroup
  PROVE  CutInv'
<1> DEFINE g == Head(groups)
           text == JoinTexts(g.segments)
<1>1. /\ work = <<>> /\ groups # <<>> /\ doc' = doc
      /\ doc \in Documents /\ groups \in Seq(ClauseGroups(doc))
  BY DEF CutGroup, ChunkerInv, WorkInv, TextInv, QueueInv
<1>2. g \in ClauseGroups(doc) /\ LettersOf(g) \subseteq Together(LettersPer(groups))
  <2>1. /\ Head(groups) \in ClauseGroups(doc)
        /\ Together(LettersPer(groups)) = LettersOf(Head(groups)) \cup Together(LettersPer(Tail(groups)))
    BY <1>1, GroupsTail DEF TextInv, QueueInv
  <2> QED BY <2>1
<1>3. text \in TextsOf(LettersOf(g)) /\ text \in Seq(Nat) /\ Letters(text) \subseteq LettersOf(g)
  BY <1>1, <1>2, GroupText DEF ClauseGroups, TextsOf
<1>4. AgainOf(work) = {} /\ LeftOf(work, groups) = Together(LettersPer(groups))
  BY <1>1 DEF AgainOf, LeftOf
<1>5. CASE Len(text) <= MaxChunkSize
  <2>1. Emit(g, text) /\ work' = <<>>
    <3>1. Len(text) \in Nat /\ MaxChunkSize \in Nat
      BY <1>3, SizesAssumption
    <3>2. ~(Len(text) > MaxChunkSize)
      <4> HIDE DEF text
      <4> QED BY <1>5, <3>1
    <3> QED BY <1>1, <3>2 DEF CutGroup
  <2>2. AgainOf(work') = {} /\ PiecesInside(work', doc)
    BY <2>1 DEF AgainOf, PiecesInside
  <2> HIDE DEF text, g
  <2> QED BY <1>1, <1>2, <1>3, <1>4, <2>1, <2>2, EmitInside
<1>6. CASE ~(Len(text) <= MaxChunkSize)
  <2>1. PICK texts : texts = MergeSmallParts(Paragraphs(text))
    OBVIOUS
  <2>2. work' = Pieces("paragraph", texts) /\ chunks' = chunks
    BY <1>6, <2>1 DEF CutGroup
  <2>3. PiecesInside(work', doc)
    BY <1>1, <1>2, <2>1, <2>2, ParagraphsInside
  <2>4. AgainOf(work') = {}
    <3>1. texts \in Seq(PartsOf(LettersOf(g)))
      <4> HIDE DEF text, g
      <4> QED BY <1>3, <2>1, PartsType
    <3>2. ASSUME work' # <<>> PROVE Repeated(work'[1]) = {}
      <4>1. 1 \in 1..Len(texts)
        BY <2>2, <3>1, <3>2 DEF Pieces
      <4>2. work'[1] = Piece("paragraph", texts[1]) /\ texts[1] \in PartsOf(LettersOf(g))
        BY <2>2, <3>1, <4>1 DEF Pieces
      <4>3. Written(work'[1]) = 0 /\ work'[1].start = 0
        BY <4>2 DEF Piece, Written
      <4>4. (0 + 1)..0 = {}
        OBVIOUS
      <4> QED BY <4>3, <4>4 DEF Repeated, Between
    <3> QED BY <3>2 DEF AgainOf
  <2> HIDE DEF text
  <2> QED BY <1>1, <2>2, <2>3, <2>4, SameShared
<1> QED BY <1>5, <1>6
LEMMA EmitPieceShared ==
  ASSUME ChunkerInv, TextInv, CutInv, EmitPiece
  PROVE  CutInv'
<1>1. work # <<>> /\ doc' = doc
  BY DEF EmitPiece, Cutting
<1>2. /\ doc \in Documents /\ QueueInv(work, groups, doc) /\ groups # <<>> /\ Head(work) = work[1]
      /\ work[1].start = 0
  BY <1>1, WorkText DEF EmitPiece, Cutting
<1>3. PICK text \in Seq(Nat) : text = work[1].text
  BY <1>1, <1>2, FirstPiece
<1>4. LeftOf(work, groups) = Letters(text) \cup RestOf(work, groups) /\ AgainOf(work) = {}
  BY <1>1, <1>2, <1>3, WholePieces
<1>5. /\ Emit(Head(groups), text) /\ work' = Tail(work)
      /\ groups' = IF work' = <<>> THEN Tail(groups) ELSE groups
  BY <1>2, <1>3 DEF EmitPiece, Rest
<1>6. AgainOf(work') = {}
  <2>1. PICK rest, left : /\ rest = Tail(work) /\ rest = work' /\ left = groups'
                          /\ left = IF rest = <<>> THEN Tail(groups) ELSE groups
    BY <1>5
  <2>2. AgainOf(rest) = {}
    BY <1>1, <1>2, <2>1, DropPiece
  <2> QED BY <2>1, <2>2
<1>7. PiecesInside(work', doc)
  <2>1. work \in Seq(PiecesOf(LettersOf(Head(groups)))) /\ PiecesInside(work, doc)
    BY <1>1, PieceType DEF ChunkerInv, CutInv
  <2> QED BY <1>1, <1>5, <2>1, TailInside
<1> QED BY <1>1, <1>3, <1>4, <1>5, <1>6, <1>7, EmitInside
LEMMA CutParagraphShared ==
  ASSUME ChunkerInv, TextInv, CutInv, CutParagraph
  PROVE  CutInv'
<1>1. work # <<>> /\ doc' = doc /\ chunks' = chunks /\ work[1].level = "paragraph"
  BY PieceType DEF CutParagraph, Cutting, ChunkerInv
<1>2. /\ doc \in Documents /\ QueueInv(work, groups, doc) /\ groups # <<>> /\ Head(work) = work[1]
      /\ work \in Seq(PiecesOf(LettersOf(Head(groups)))) /\ 1 \in 1..Len(work)
      /\ work[1].start = 0
  BY <1>1, WorkText, PieceType DEF ChunkerInv
<1> DEFINE L == LettersOf(Head(groups))
<1>3. PICK text \in TextsOf(L) : text = work[1].text /\ InOrder(text) /\ Len(text) \in Nat
  BY <1>1, <1>2, FirstPiece
<1> HIDE DEF L
<1>4. InParagraph(text, doc)
  <2>1. CutInside(work[1], doc)
    BY <1>2 DEF CutInv, PiecesInside
  <2>2. Len(text) > MaxChunkSize
    BY <1>2, <1>3, SizesAssumption DEF CutParagraph, Fits
  <2> QED BY <1>3, <2>1, <2>2 DEF CutInside
<1>5. PICK texts : texts = MergeSmallParts(Sentences(text)) /\ texts \in Seq(PartsOf(L))
  BY <1>3, PartsType
<1>6. InTurn(texts) /\ AllLetters(texts) = Letters(text)
  BY <1>3, <1>5, PartsKeep
<1>7. PICK front, rest : /\ front = Pieces("sentence", texts) /\ rest = Tail(work)
                         /\ work' = front \o rest
  BY <1>2, <1>3, <1>5 DEF CutParagraph
<1>8. PiecesInside(front, doc) /\ PiecesInside(rest, doc)
  <2>1. PiecesInside(front, doc)
    BY <1>2, <1>3, <1>4, <1>5, <1>7, SentencesInside
  <2>2. PiecesInside(rest, doc)
    BY <1>1, <1>2, <1>7, TailInside DEF CutInv
  <2> QED BY <2>1, <2>2
<1>9. front \in Seq(PiecesOf(L)) /\ rest \in Seq(PiecesOf(L))
  BY <1>1, <1>2, <1>3, <1>5, <1>7, PiecesType, HeadTailProperties DEF Levels, L
<1>10. PiecesInside(work', doc)
  <2>1. /\ Len(front \o rest) = Len(front) + Len(rest)
        /\ \A k \in 1..(Len(front) + Len(rest)) :
             (front \o rest)[k] = IF k <= Len(front) THEN front[k] ELSE rest[k - Len(front)]
    BY <1>9, ConcatProperties
  <2>2. \A k \in 1..(Len(front) + Len(rest)) :
          k \in 1..Len(front) \/ (~(k <= Len(front)) /\ k - Len(front) \in 1..Len(rest))
    BY <1>9
  <2>3. ASSUME NEW k \in 1..(Len(front) + Len(rest)) PROVE CutInside((front \o rest)[k], doc)
    <3>1. CASE k <= Len(front)
      BY <1>8, <2>1, <2>2, <3>1 DEF PiecesInside
    <3>2. CASE ~(k <= Len(front))
      <4>1. (front \o rest)[k] = rest[k - Len(front)] /\ k - Len(front) \in 1..Len(rest)
        <5>1. ~(k \in 1..Len(front))
          BY <1>9, <3>2
        <5> QED BY <2>1, <2>2, <3>2, <5>1
      <4> QED BY <1>8, <4>1 DEF PiecesInside
    <3> QED BY <3>1, <3>2
  <2>4. Len(work') = Len(front) + Len(rest) /\ \A k \in 1..Len(work') : work'[k] = (front \o rest)[k]
    BY <1>7, <2>1
  <2> QED BY <2>3, <2>4 DEF PiecesInside
<1>11. AgainOf(work') = {}
  <2>1. "sentence" \in Levels
    BY DEF Levels
  <2>2. work' = Pieces("sentence", texts) \o Tail(work)
    BY <1>7
  <2>3. AllLetters(texts) = Letters(work[1].text) /\ texts \in Seq(PartsOf(LettersOf(Head(groups))))
    BY <1>3, <1>5, <1>6 DEF L
  <2> QED BY <1>1, <1>2, <1>6, <2>1, <2>2, <2>3, CutPiece
<1> QED BY <1>1, <1>10, <1>11, SameShared
LEMMA CutSentenceShared ==
  ASSUME ChunkerInv, TextInv, CutInv, CutSentence
  PROVE  CutInv'
<1>1. work # <<>> /\ doc' = doc /\ chunks' = chunks /\ work[1].level = "sentence"
  BY PieceType DEF CutSentence, Cutting, ChunkerInv
<1>2. /\ Head(work) = work[1] /\ 1 \in 1..Len(work)
      /\ work \in Seq(PiecesOf(LettersOf(Head(groups)))) /\ Len(work[1].text) \in Nat
      /\ work[1] \in PiecesOf(LettersOf(Head(groups)))
  BY <1>1, PieceType DEF ChunkerInv
<1>3. PICK q \in PiecesOf(LettersOf(Head(groups))) : q = work[1]
  BY <1>2
<1>4. PICK p : p = [q EXCEPT !.level = "character"]
  OBVIOUS
<1>5. p.level = "character" /\ p.text = q.text /\ p.start = q.start
  BY <1>4 DEF PiecesOf
<1>6. CutInside(p, doc)
  <2>1. CutInside(q, doc)
    BY <1>2, <1>3 DEF CutInv, PiecesInside
  <2>2. Len(q.text) > MaxChunkSize
    BY <1>2, <1>3, SizesAssumption DEF CutSentence, Fits
  <2> QED BY <1>1, <1>3, <1>5, <2>1, <2>2 DEF CutInside
<1>7. work' = [work EXCEPT ![1] = p]
  BY <1>3, <1>4 DEF CutSentence
<1>8. PiecesInside(work', doc)
  BY <1>1, <1>2, <1>6, <1>7, FirstInside DEF CutInv
<1>9. work'[1] = p /\ work' # <<>>
  <2>1. DOMAIN work = 1..Len(work) /\ DOMAIN work' = DOMAIN work
    BY <1>2, <1>7
  <2> QED BY <1>2, <1>7, <2>1
<1>10. Written(p) = Written(q) /\ Repeated(p) = Repeated(q)
  BY <1>5 DEF Written, Repeated
<1>11. AgainOf(work') = AgainOf(work) /\ work'[1].text = work[1].text
  BY <1>1, <1>3, <1>5, <1>9, <1>10 DEF AgainOf
<1> QED BY <1>1, <1>8, <1>11, SameShared
LEMMA CutCharactersShared ==
  ASSUME ChunkerInv, TextInv, CutInv, CutCharacters
  PROVE  CutInv'
<1>1. work # <<>> /\ doc' = doc
  BY DEF CutCharacters, Cutting
<1>2. /\ doc \in Documents /\ QueueInv(work, groups, doc) /\ Head(work) = work[1]
      /\ work \in Seq(PiecesOf(LettersOf(Head(groups)))) /\ 1 \in 1..Len(work)
      /\ Written(work[1]) < Len(work[1].text) /\ work[1].level = "character"
  BY <1>1, WorkText, PieceType DEF CutCharacters, Cutting, ChunkerInv
<1>3. PICK p \in PiecesOf(LettersOf(Head(groups))) :
        /\ p = work[1] /\ p.text \in Seq(Nat) /\ p.start \in Nat /\ p.start < Len(p.text)
        /\ Len(p.text) \in Nat /\ InOrder(p.text)
        /\ Written(p) < Len(p.text) /\ p.level = "character"
  BY <1>1, <1>2, FirstPiece
<1>4. PICK end : end = PieceEnd(p.text, p.start)
  OBVIOUS
<1>5. PICK content : content = Strip(SubSeq(p.text, p.start + 1, end))
  OBVIOUS
<1> DEFINE new == Between(p.text, Written(p), end)
           behind == Between(p.text, end, Len(p.text))
<1>6. /\ content \in Seq(Nat) /\ Letters(content) = Repeated(p) \cup new /\ Waiting(p) = new \cup behind
  <2>1. InRound(p, end, content)
    BY <1>3, <1>4, <1>5, RoundKeeps
  <2> QED BY <2>1 DEF InRound
<1> HIDE DEF new, behind
<1>7. end \in Nat /\ end <= Len(p.text)
  <2>1. PieceEnd(p.text, p.start) \in (p.start + 1)..Len(p.text)
    BY <1>3, PieceEnds
  <2> QED BY <1>3, <1>4, <2>1
<1>8. Letters(content) \subseteq Letters(p.text)
  <2>1. p.text \in TextsOf(Letters(p.text)) /\ p.start + 1 \in Nat /\ 1 <= p.start + 1
    BY <1>3 DEF TextsOf
  <2>2. SubSeq(p.text, p.start + 1, end) \in TextsOf(Letters(p.text))
    BY <1>7, <2>1, SubText
  <2>3. content \in TextsOf(Letters(p.text))
    BY <1>5, <2>2, StripType
  <2> QED BY <2>3 DEF TextsOf
<1>9. CutInside(p, doc)
  BY <1>2, <1>3 DEF CutInv, PiecesInside
<1>10. Letters(content) \subseteq AgainOf(work) \cup LeftOf(work, groups)
  BY <1>1, <1>3, <1>6 DEF LeftOf, AgainOf
<1>11. Emit(Head(groups), content)
  BY <1>2, <1>3, <1>4, <1>5 DEF CutCharacters
<1>12. AgainOf(work) # {} => InLongSentence(doc, Letters(Contents[Len(Contents)]) \cup Letters(content))
  <2> SUFFICES ASSUME AgainOf(work) # {}
               PROVE  InLongSentence(doc, Letters(Contents[Len(Contents)]) \cup Letters(content))
    OBVIOUS
  <2>1. PICK K \in SUBSET Letters(p.text) : K = Letters(Contents[Len(Contents)]) \cup Letters(content)
    BY <1>3, <1>8 DEF CutInv
  <2>2. InParagraph(p.text, doc) /\ Unspaced(p.text) /\ Len(p.text) > MaxChunkSize
    BY <1>3, <1>9 DEF CutInside
  <2> QED BY <1>2, <2>1, <2>2, PieceInSentence
<1>13. work' = IF end < Len(p.text) THEN [work EXCEPT ![1].start = end - ChunkOverlap] ELSE Tail(work)
  BY <1>2, <1>3, <1>4 DEF CutCharacters, Rest
<1>14. /\ PiecesInside(work', doc)
       /\ AgainOf(work') # {} => Letters(content) \subseteq Letters(work'[1].text)
  <2>1. CASE end < Len(p.text)
    <3>1. PICK r : r = [p EXCEPT !.start = end - ChunkOverlap]
      OBVIOUS
    <3>2. r.text = p.text /\ r.level = p.level
      BY <1>3, <3>1 DEF PiecesOf
    <3>3. work' = [work EXCEPT ![1] = r]
      BY <1>3, <1>13, <2>1, <3>1
    <3>4. CutInside(r, doc)
      BY <1>9, <3>2 DEF CutInside
    <3>5. PiecesInside(work', doc)
      BY <1>1, <1>2, <3>3, <3>4, FirstInside DEF CutInv
    <3>6. work'[1] = r
      BY <1>2, <3>3
    <3> QED BY <1>8, <3>2, <3>5, <3>6
  <2>2. CASE ~(end < Len(p.text))
    <3>1. work' = Tail(work) /\ groups' = IF work' = <<>> THEN Tail(groups) ELSE groups
      BY <1>2, <1>3, <1>4, <1>13, <2>2 DEF CutCharacters, Rest
    <3>2. PICK rest, left : /\ rest = Tail(work) /\ rest = work'
                            /\ left = IF rest = <<>> THEN Tail(groups) ELSE groups
      BY <3>1
    <3>3. AgainOf(rest) = {}
      BY <1>1, <1>2, <3>2, DropPiece
    <3>4. PiecesInside(Tail(work), doc)
      BY <1>1, <1>2, TailInside DEF CutInv
    <3> QED BY <3>1, <3>2, <3>3, <3>4
  <2> QED BY <2>1, <2>2
<1> QED BY <1>1, <1>6, <1>10, <1>11, <1>12, <1>14, EmitInside
LEMMA CutStep ==
  ASSUME ChunkerInv, TextInv, CutInv, [Next]_vars
  PROVE  CutInv'
<1>1. CASE UNCHANGED vars
  BY <1>1 DEF vars, CutInv, Contents, AgainOf, PiecesInside, SharedInside
<1>2. CASE Assign
  <2>1. doc' = doc /\ work' = work
    BY <1>2 DEF Assign
  <2>2. chunks' = chunks
    BY <1>2, AssignLinks
  <2> QED BY <2>1, <2>2 DEF CutInv, Contents, AgainOf
<1> QED BY <1>1, <1>2, CutGroupShared, EmitPieceShared, CutParagraphShared, CutSentenceShared,
           CutCharactersShared DEF Next, Finished

\* It holds at the beginning, and so throughout.
LEMMA CutInit == Init => CutInv
<1> SUFFICES ASSUME Init PROVE CutInv
  OBVIOUS
<1>1. work = <<>> /\ chunks = <<>>
  BY DEF Init
<1>2. Len(work) = 0 /\ 1..0 = {} /\ 1..(0 - 1) = {} /\ AgainOf(work) = {}
  BY <1>1 DEF AgainOf
<1>3. Len(Contents) = 0
  <2>1. Contents = [i \in 1..0 |-> chunks[i].content]
    BY <1>1, <1>2 DEF Contents
  <2> QED BY <2>1
<1> QED BY <1>2, <1>3 DEF CutInv, PiecesInside, SharedInside
LEMMA CutHolds == Spec => []CutInv
  BY ChunkerHolds, TextHolds, CutInit, CutStep, PTL DEF Spec

-----------------------------------------------------------------------------
(* Theorems                                                                *)

\* Groups carry the heading of their section, pieces start inside their text and
\* links point to chunks (TypeOK), for every size and every document.
THEOREM TypeCorrect == Spec => []TypeOK
<1>1. ChunkerInv => TypeOK
  <2> SUFFICES ASSUME ChunkerInv PROVE TypeOK
    OBVIOUS
  <2>1. WorkInv /\ ChainInv /\ done \in BOOLEAN
    BY DEF ChunkerInv
  <2>2. \A b \in DOMAIN doc : doc[b].kind \in Kinds /\ doc[b].page \in Nat
    <3>1. doc \in Seq(Block) /\ DOMAIN doc = 1..Len(doc)
      BY <2>1, DocType DEF WorkInv
    <3>2. \A b \in DOMAIN doc : doc[b] \in Block
      BY <3>1
    <3> QED BY <3>2 DEF Block
  <2>3. \A i \in DOMAIN groups : groups[i].heading.kind = "heading" /\ groups[i].segments # <<>>
    <3>1. groups \in Seq(GroupsFor(doc)) /\ DOMAIN groups = 1..Len(groups) /\ doc \in Documents
      BY <2>1 DEF WorkInv
    <3>2. \A i \in DOMAIN groups : groups[i] \in GroupsFor(doc)
      BY <3>1
    <3> QED BY <3>1, <3>2, GroupTypes
  <2>4. ASSUME NEW i \in DOMAIN work
        PROVE  /\ work[i].level \in {"paragraph", "sentence", "character"}
               /\ work[i].start < Len(work[i].text)
    <3>1. work \in Seq(PiecesOf(LettersOf(Head(groups))))
      BY <2>1, <2>4 DEF WorkInv
    <3>2. work[i] \in PiecesOf(LettersOf(Head(groups)))
      BY <2>4, <3>1
    <3> QED BY <3>2 DEF PiecesOf, Levels
  <2>5. Len(chunks) \in Nat /\ DOMAIN chunks = 1..Len(chunks) /\ prev \in 0..Len(chunks)
    BY <2>1 DEF ChainInv
  <2>6. ASSUME NEW i \in DOMAIN chunks
        PROVE  {chunks[i].previous, chunks[i].next} \subseteq 0..Len(chunks)
    <3>1. /\ chunks[i].previous = i - 1
          /\ chunks[i].next = 0 \/ (i # Len(chunks) /\ chunks[i].next = i + 1)
      BY <2>1, <2>5 DEF ChainInv
    <3>2. PICK n \in Nat : n = Len(chunks)
      BY <2>5
    <3>3. i \in 1..n
      BY <2>5, <3>2
    <3>4. i - 1 \in 0..n /\ 0 \in 0..n /\ (i # n => i + 1 \in 0..n)
      BY <3>3
    <3> QED BY <3>1, <3>2, <3>4
  <2> QED BY <2>1, <2>2, <2>3, <2>4, <2>5, <2>6 DEF TypeOK
<1> QED BY <1>1, ChunkerHolds, PTL

\* The chunks of a document are one chain (ChunksAreChained): each names the one
\* before it and the one after it, at whatever level it was cut, and
\* _assign_ids_and_metadata finds no link to fill but the ends'.
THEOREM Chained == Spec => []ChunksAreChained
<1>1. ChunkerInv => ChunksAreChained
  <2> SUFFICES ASSUME ChunkerInv PROVE ChunksAreChained
    OBVIOUS
  <2>1. ChainInv /\ DOMAIN chunks = 1..Len(chunks)
    BY DEF ChunkerInv, ChainInv
  <2> QED BY <2>1 DEF ChainInv, ChunksAreChained
<1> QED BY <1>1, ChunkerHolds, PTL

\* Citations are true (ChunkTellsItsPlace): every letter of a chunk stands on the
\* page and under the heading that the chunk names, however it was grouped,
\* split, merged and stripped.
THEOREM PlacesAreTold == Spec => []ChunkTellsItsPlace
<1>1. ChunkerInv => ChunkTellsItsPlace
  <2> SUFFICES ASSUME ChunkerInv, NEW i \in DOMAIN chunks, NEW b \in DOMAIN doc,
                      doc[b].kind # "heading",
                      Letters(doc[b].text) \cap Letters(chunks[i].content) # {}
               PROVE  doc[b].page = chunks[i].page /\ SectionAt(doc, b) = chunks[i].section
    BY DEF ChunkTellsItsPlace
  <2>1. doc \in Seq(Block) /\ b \in 1..Len(doc)
    BY DocType DEF ChunkerInv, WorkInv
  <2>2. chunks[i] \in ChunksOf(doc)
    BY DEF ChunkerInv, ChainInv
  <2>3. InPlace(doc, chunks[i].content, chunks[i].page, chunks[i].section)
    BY <2>2 DEF ChunksOf
  <2> QED BY <2>1, <2>3 DEF InPlace
<1> QED BY <1>1, ChunkerHolds, PTL

\* No chunk is longer than max_chunk_size (ChunksFit, which CutOnlyToFit begins
\* with), whatever merging puts in and at whatever level it was cut.
LEMMA Fitting == Spec => []ChunksFit
<1>1. ChunkerInv => ChunksFit
  <2> SUFFICES ASSUME ChunkerInv, NEW i \in DOMAIN chunks
               PROVE  Len(chunks[i].content) <= MaxChunkSize
    BY DEF ChunksFit
  <2>1. chunks[i] \in ChunksOf(doc)
    BY DEF ChunkerInv, ChainInv
  <2> QED BY <2>1 DEF ChunksOf
<1> QED BY <1>1, ChunkerHolds, PTL

\* The character fallback moves forward in every round (FallbackAdvances): a
\* piece ends more than the overlap after it starts, whether it is cut at a
\* space or not, because of SizesAssumption.
THEOREM FallbackMoves == Spec => FallbackAdvances
<1>1. ASSUME ChunkerInv, Next, Cutting("character"), work' # <<>>, Len(work') = Len(work)
      PROVE  work'[1].start > work[1].start \/ UNCHANGED vars
  <2> DEFINE text == Head(work).text
             start == Head(work).start
             end == PieceEnd(text, start)
  <2>1. work # <<>> /\ WorkInv
    BY <1>1 DEF Cutting, ChunkerInv
  <2>2. CutCharacters \/ UNCHANGED vars
    BY <1>1, <2>1 DEF Next, Cutting, CutGroup, EmitPiece, CutParagraph, CutSentence, Assign, Finished
  <2>3. /\ end \in Nat /\ start \in Nat
        /\ end < Len(text) => end > start + ChunkOverlap
    <3>1. text \in Seq(Nat) /\ start \in Nat /\ Len(text) \in Nat /\ start < Len(text)
      BY <2>1, PieceType
    <3> HIDE DEF text, start
    <3> QED BY <3>1, PieceEnds
  <2>4. CASE CutCharacters
    <3>1. work' = IF end < Len(text) THEN [work EXCEPT ![1].start = end - ChunkOverlap] ELSE Tail(work)
      BY <2>4 DEF CutCharacters, Rest
    <3>2. end < Len(text)
      <4>1. Len(Tail(work)) = Len(work) - 1 /\ Len(work) \in Nat
        BY <2>1, PieceType
      <4> HIDE DEF end, text
      <4> QED BY <1>1, <3>1, <4>1
    <3>3. 1 \in DOMAIN work /\ work[1] = Head(work)
      BY <2>1, PieceType
    <3>4. "start" \in DOMAIN work[1]
      BY <2>1, <3>3, PieceType DEF PiecesOf
    <3>5. work'[1].start = end - ChunkOverlap /\ work[1].start = start
      <4> HIDE DEF end
      <4> QED BY <3>1, <3>2, <3>3, <3>4
    <3> HIDE DEF end, text, start
    <3> QED BY <2>3, <3>2, <3>5, SizesAssumption
  <2> QED BY <2>2, <2>4
<1>2. ChunkerInv /\ [Next]_vars =>
        [Cutting("character") /\ work' # <<>> /\ Len(work') = Len(work)
           => work'[1].start > work[1].start]_vars
  BY <1>1
<1> QED BY <1>2, ChunkerHolds, PTL DEF Spec, FallbackAdvances

\* Chunking loses no text and puts none out of order (TextIsKept): the chunks have
\* every letter of the bodies and no other, each chunk in the order of the
\* document, one behind the other; neighbours alone share letters, no more than
\* the overlap at the beginning of the later one, and only in a sentence that is
\* too long for a chunk.
THEOREM TextKept == Spec => []TextIsKept
<1>1. ChunkerInv /\ TextInv /\ CutInv => TextIsKept
  <2> SUFFICES ASSUME ChunkerInv, TextInv, CutInv PROVE TextIsKept
    OBVIOUS
  <2>1. /\ Contents \in Seq(Seq(Nat)) /\ Len(Contents) = Len(chunks)
        /\ DOMAIN chunks = 1..Len(chunks) /\ Len(chunks) \in Nat
        /\ \A i \in 1..Len(chunks) : Contents[i] = chunks[i].content
    BY ContentsType DEF ChunkerInv
  <2>2. /\ AllLetters(Contents) \cup LeftOf(work, groups) = BodyLetters(doc)
        /\ TextsInTurn(Contents)
    BY DEF TextInv, CutInTurn
  <2>3. ASSUME done
        PROVE  UNION {Letters(chunks[i].content) : i \in DOMAIN chunks} = BodyLetters(doc)
    <3>1. work = <<>> /\ groups = <<>>
      BY <2>3 DEF TextInv
    <3>2. LeftOf(work, groups) = {}
      <4>1. Len(<<>>) = 0 /\ 1..0 = {}
        OBVIOUS
      <4>2. Len(LettersPer(<<>>)) = 0
        BY <4>1 DEF LettersPer
      <4> QED BY <3>1, <4>1, <4>2 DEF LeftOf, Together
    <3>3. AllLetters(Contents) = UNION {Letters(chunks[i].content) : i \in DOMAIN chunks}
      BY <2>1 DEF AllLetters, LettersUpTo
    <3> QED BY <2>2, <3>2, <3>3
  <2>4. \A i \in DOMAIN chunks : InOrder(chunks[i].content)
    BY <2>1, <2>2 DEF TextsInTurn
  <2>5. ASSUME NEW i \in DOMAIN chunks, NEW j \in DOMAIN chunks, i < j
        PROVE  LET earlier == Letters(chunks[i].content)
                   later == Letters(chunks[j].content)
                   shared == earlier \cap later
               IN  /\ Before(earlier, later \ shared)
                   /\ shared # {} => /\ j = i + 1
                                     /\ shared \subseteq Range(SubSeq(chunks[j].content, 1, ChunkOverlap))
                                     /\ InLongSentence(doc, earlier \cup later)
    <3>1. Contents[i] = chunks[i].content /\ Contents[j] = chunks[j].content
      BY <2>1
    <3>2. LET earlier == Letters(Contents[i])
              later == Letters(Contents[j])
              shared == earlier \cap later
          IN  /\ Before(earlier, later \ shared)
              /\ shared # {} => j = i + 1 /\ shared \subseteq Range(SubSeq(Contents[j], 1, ChunkOverlap))
      BY <2>1, <2>2, <2>5 DEF TextsInTurn
    <3>3. ASSUME Letters(Contents[i]) \cap Letters(Contents[j]) # {}
          PROVE  InLongSentence(doc, Letters(Contents[i]) \cup Letters(Contents[j]))
      <4>1. j = i + 1 /\ i \in 1..(Len(Contents) - 1)
        BY <2>1, <3>2, <3>3
      <4> QED BY <3>3, <4>1 DEF CutInv, SharedInside
    <3> QED BY <3>1, <3>2, <3>3
  <2> QED BY <2>3, <2>4, <2>5, Zenon DEF TextIsKept
<1> QED BY <1>1, ChunkerHolds, TextHolds, CutHolds, PTL

\* A clause is cut only where it does not fit (CutOnlyToFit): no chunk is too long,
\* none has letters of two clauses, and a clause within the chunk size lies in
\* one chunk, whatever grouping, splitting and merging did.
THEOREM CutsOnlyToFit == Spec => []CutOnlyToFit
<1>1. ChunkerInv /\ TextInv /\ ChunksFit => CutOnlyToFit
  <2> SUFFICES ASSUME ChunkerInv, TextInv, ChunksFit PROVE CutOnlyToFit
    OBVIOUS
  <2>1. /\ Len(Contents) = Len(chunks) /\ DOMAIN chunks = 1..Len(chunks)
        /\ \A i \in 1..Len(chunks) : Contents[i] = chunks[i].content
    BY ContentsType DEF ChunkerInv
  <2>2. ASSUME NEW b \in DOMAIN doc, BeginsClause(doc, b)
        PROVE  LET holding == {i \in DOMAIN chunks :
                                 Letters(chunks[i].content) \cap ClauseText(doc, b) # {}}
               IN  /\ \A i \in holding : Letters(chunks[i].content) \subseteq ClauseText(doc, b)
                   /\ ClauseLength(doc, b) <= MaxChunkSize => \A i, j \in holding : i = j
    <3>1. b \in 1..Len(doc) /\ ClausesCut(Contents, doc)
      BY DocType DEF ChunkerInv, WorkInv, TextInv
    <3> DEFINE before == {i \in 1..Len(Contents) : Letters(Contents[i]) \cap ClauseText(doc, b) # {}}
               holding == {i \in DOMAIN chunks : Letters(chunks[i].content) \cap ClauseText(doc, b) # {}}
    <3>2. /\ \A i \in before : Letters(Contents[i]) \subseteq ClauseText(doc, b)
          /\ ClauseLength(doc, b) <= MaxChunkSize => \A i, j \in before : i = j
      BY <2>2, <3>1 DEF ClausesCut
    <3>3. before = holding /\ \A i \in holding : Contents[i] = chunks[i].content
      BY <2>1
    <3> HIDE DEF before
    <3> QED BY <3>2, <3>3
  <2> QED BY <2>2, Zenon DEF CutOnlyToFit
<1> QED BY <1>1, ChunkerHolds, TextHolds, Fitting, PTL
=============================================================================
