------------------------- MODULE AnalysisGraph_proofs -------------------------
(***************************************************************************)
(* Proofs about AnalysisGraph, for every job, batch size, number of        *)
(* attempts and bound on the failures: its types, that a report covers     *)
(* every chunk, that no chunk is counted more often than there were        *)
(* attempts, and that failed attempts never raise the score.               *)
(*                                                                         *)
(* The score adds up the terms of all findings, so the last of these needs *)
(* induction over data.  The first part of the module gets it from least   *)
(* counterexamples, which the well-foundedness theorems of the library     *)
(* provide without an operator as a parameter, and derives what a sum of   *)
(* the community module Functions is from its recursive definition.        *)
(***************************************************************************)
EXTENDS AnalysisGraph, FiniteSetTheorems, SequenceTheorems, TLAPS

-----------------------------------------------------------------------------
(* Sums                                                                    *)

\* A non-empty set of subsets of a finite set has a minimal one: with this,
\* induction over finite sets is a proof by a least counterexample.
LEMMA MinimalSubset ==
  ASSUME NEW S, IsFiniteSet(S), NEW bad \in SUBSET (SUBSET S), bad # {}
  PROVE  \E s \in bad : \A t \in SUBSET s : t # s => t \notin bad
<1>1. IsWellFoundedOn(StrictSubsetOrdering(S), FiniteSubsetsOf(S))
  BY FS_StrictSubsetOrderingWellFounded
<1>2. bad \subseteq FiniteSubsetsOf(S)
  BY FS_Subset DEF FiniteSubsetsOf
<1>3. PICK s \in bad : \A t \in bad : <<t, s>> \notin StrictSubsetOrdering(S)
  BY <1>1, <1>2, WFMin
<1>4. ASSUME NEW t \in SUBSET s, t # s, t \in bad PROVE FALSE
  BY <1>3, <1>4 DEF StrictSubsetOrdering
<1> QED BY <1>3, <1>4

LEMMA LeastNatural ==
  ASSUME NEW bad \in SUBSET Nat, bad # {}
  PROVE  \E n \in bad : \A m \in bad : n <= m
<1>1. IsWellFoundedOn(OpToRel(<, Nat), Nat)
  BY NatLessThanWellFounded
<1>2. PICK n \in bad : \A m \in bad : <<m, n>> \notin OpToRel(<, Nat)
  BY <1>1, WFMin
<1>3. ASSUME NEW m \in bad PROVE n <= m
  <2>1. CASE m < n
    <3>1. <<m, n>> \in {ss \in Nat \X Nat : ss[1] < ss[2]}
      BY <2>1
    <3>2. <<m, n>> \in OpToRel(<, Nat)
      BY <3>1, Zenon DEF OpToRel
    <3> QED BY <1>2, <3>2
  <2>2. CASE ~(m < n)
    BY <2>2
  <2> QED BY <2>1, <2>2
<1> QED BY <1>3

PickOf(s) == CHOOSE x \in s : TRUE

\* g adds f up over each subset of S, as SumFunctionOnSet does.
AddsUp(g, f, S) ==
  g = [s \in SUBSET S |-> IF s = {} THEN 0 ELSE f[PickOf(s)] + g[s \ {PickOf(s)}]]

LEMMA AddsUpOnce ==
  ASSUME NEW f, NEW S, IsFiniteSet(S), NEW T \in SUBSET S,
         NEW g, AddsUp(g, f, S), NEW h, AddsUp(h, f, T)
  PROVE  \A s \in SUBSET T : g[s] = h[s]
<1> DEFINE bad == {s \in SUBSET T : g[s] # h[s]}
<1> SUFFICES ASSUME bad # {} PROVE FALSE
  OBVIOUS
<1>1. PICK s \in bad : \A t \in SUBSET s : t # s => t \notin bad
  <2>1. IsFiniteSet(T) /\ bad \in SUBSET (SUBSET T)
    BY FS_Subset
  <2> HIDE DEF bad
  <2> QED BY <2>1, MinimalSubset
<1>2. /\ g[s] = IF s = {} THEN 0 ELSE f[PickOf(s)] + g[s \ {PickOf(s)}]
      /\ h[s] = IF s = {} THEN 0 ELSE f[PickOf(s)] + h[s \ {PickOf(s)}]
  BY DEF AddsUp
<1>3. s # {} => g[s \ {PickOf(s)}] = h[s \ {PickOf(s)}]
  BY <1>1 DEF PickOf
<1> QED BY <1>2, <1>3

LEMMA AddsUpExists ==
  ASSUME NEW f, NEW S, IsFiniteSet(S)
  PROVE  \E g : AddsUp(g, f, S)
<1> DEFINE bad == {s \in SUBSET S : ~ \E g : AddsUp(g, f, s)}
<1> SUFFICES ASSUME bad # {} PROVE FALSE
  OBVIOUS
<1>1. PICK s \in bad : \A t \in SUBSET s : t # s => t \notin bad
  <2>1. bad \in SUBSET (SUBSET S)
    OBVIOUS
  <2> HIDE DEF bad
  <2> QED BY <2>1, MinimalSubset
<1> DEFINE own(t) == CHOOSE g : AddsUp(g, f, t)
<1>2. ASSUME NEW t \in SUBSET s, t # s PROVE AddsUp(own(t), f, t)
  BY <1>1, <1>2
<1> DEFINE val(t) == IF t = {} THEN 0 ELSE f[PickOf(t)] + own(t \ {PickOf(t)})[t \ {PickOf(t)}]
           g == [t \in SUBSET s |-> val(t)]
<1>3. ASSUME NEW t \in SUBSET s, t # s PROVE own(t)[t] = val(t)
  <2>1. AddsUp(own(t), f, t)
    BY <1>2, <1>3
  <2>2. own(t)[t] = IF t = {} THEN 0 ELSE f[PickOf(t)] + own(t)[t \ {PickOf(t)}]
    BY <2>1 DEF AddsUp
  <2>3. CASE t # {}
    <3>1. t \ {PickOf(t)} \in SUBSET t /\ t \ {PickOf(t)} # s
      BY <2>3 DEF PickOf
    <3>2. AddsUp(own(t \ {PickOf(t)}), f, t \ {PickOf(t)})
      BY <1>2, <3>1
    <3>3. IsFiniteSet(t)
      BY FS_Subset
    <3> HIDE DEF own
    <3>4. own(t)[t \ {PickOf(t)}] = own(t \ {PickOf(t)})[t \ {PickOf(t)}]
      BY <2>1, <3>1, <3>2, <3>3, AddsUpOnce
    <3> QED BY <2>2, <2>3, <3>4
  <2> QED BY <2>2, <2>3
<1>4. AddsUp(g, f, s)
  <2>1. ASSUME NEW t \in SUBSET s, t # {} PROVE own(t \ {PickOf(t)})[t \ {PickOf(t)}] = g[t \ {PickOf(t)}]
    <3>1. t \ {PickOf(t)} \in SUBSET s /\ t \ {PickOf(t)} # s
      BY <2>1 DEF PickOf
    <3> HIDE DEF own
    <3> QED BY <1>3, <3>1
  <2> HIDE DEF own
  <2> QED BY <2>1 DEF AddsUp
<1> QED BY <1>4

LEMMA SumUnfold ==
  ASSUME NEW f, NEW S, IsFiniteSet(S)
  PROVE  \E g : AddsUp(g, f, S) /\ SumFunctionOnSet(f, S) = g[S]
<1> DEFINE h == CHOOSE g : AddsUp(g, f, S)
<1>1. AddsUp(h, f, S)
  BY AddsUpExists
<1>2. SumFunctionOnSet(f, S) = h[S]
  BY Zenon DEF SumFunctionOnSet, FoldFunctionOnSet, MapThenFoldSet, AddsUp, PickOf
<1> QED BY <1>1, <1>2

\* The sum over a set is an element's value and the sum over the rest.  Which
\* element CHOOSE takes is known to nobody, so this has to be shown for all.
LEMMA SumEmpty == ASSUME NEW f PROVE SumFunctionOnSet(f, {}) = 0
<1>1. PICK g : AddsUp(g, f, {}) /\ SumFunctionOnSet(f, {}) = g[{}]
  BY SumUnfold, FS_EmptySet
<1> QED BY <1>1 DEF AddsUp

LEMMA SumPick ==
  ASSUME NEW f, NEW S, IsFiniteSet(S), S # {}
  PROVE  SumFunctionOnSet(f, S)
           = f[PickOf(S)] + SumFunctionOnSet(f, S \ {PickOf(S)})
<1> DEFINE T == S \ {PickOf(S)}
<1>1. IsFiniteSet(T) /\ T \in SUBSET S
  BY FS_Subset
<1>2. PICK g : AddsUp(g, f, S) /\ SumFunctionOnSet(f, S) = g[S]
  BY SumUnfold
<1>3. PICK h : AddsUp(h, f, T) /\ SumFunctionOnSet(f, T) = h[T]
  BY <1>1, SumUnfold
<1>4. g[T] = h[T]
  BY <1>1, <1>2, <1>3, AddsUpOnce
<1>5. g[S] = f[PickOf(S)] + g[T]
  BY <1>2 DEF AddsUp
<1> QED BY <1>2, <1>3, <1>4, <1>5

LEMMA SumType ==
  ASSUME NEW S, IsFiniteSet(S), NEW f, \A x \in S : f[x] \in Nat
  PROVE  \A s \in SUBSET S : SumFunctionOnSet(f, s) \in Nat
<1> DEFINE bad == {s \in SUBSET S : SumFunctionOnSet(f, s) \notin Nat}
<1> SUFFICES ASSUME bad # {} PROVE FALSE
  OBVIOUS
<1>1. PICK s \in bad : \A t \in SUBSET s : t # s => t \notin bad
  <2>1. bad \in SUBSET (SUBSET S)
    OBVIOUS
  <2> HIDE DEF bad
  <2> QED BY <2>1, MinimalSubset
<1>2. s # {}
  BY SumEmpty
<1>3. PickOf(s) \in s
  BY <1>2 DEF PickOf
<1>4. SumFunctionOnSet(f, s \ {PickOf(s)}) \in Nat
  BY <1>1, <1>3
<1>5. IsFiniteSet(s)
  BY FS_Subset
<1> QED BY <1>2, <1>3, <1>4, <1>5, SumPick

LEMMA SumAnyElement ==
  ASSUME NEW S, IsFiniteSet(S), NEW f, \A x \in S : f[x] \in Nat
  PROVE  \A s \in SUBSET S : \A x \in s :
           SumFunctionOnSet(f, s) = f[x] + SumFunctionOnSet(f, s \ {x})
<1> DEFINE Splits(s) == \A x \in s :
             SumFunctionOnSet(f, s) = f[x] + SumFunctionOnSet(f, s \ {x})
           bad == {s \in SUBSET S : ~Splits(s)}
<1> SUFFICES ASSUME bad # {} PROVE FALSE
  OBVIOUS
<1>1. PICK s \in bad : \A t \in SUBSET s : t # s => t \notin bad
  <2>1. bad \in SUBSET (SUBSET S)
    OBVIOUS
  <2> HIDE DEF bad
  <2> QED BY <2>1, MinimalSubset
<1>2. ASSUME NEW x \in s
      PROVE  SumFunctionOnSet(f, s) = f[x] + SumFunctionOnSet(f, s \ {x})
  <2> DEFINE p == PickOf(s)
             both == SumFunctionOnSet(f, (s \ {p}) \ {x})
  <2>0. p \in s /\ IsFiniteSet(s)
    BY FS_Subset DEF PickOf
  <2>1. SumFunctionOnSet(f, s) = f[p] + SumFunctionOnSet(f, s \ {p})
    BY <2>0, SumPick
  <2> HIDE DEF p
  <2>2. CASE x = p
    BY <2>1, <2>2
  <2>3. CASE x # p
    <3>1. Splits(s \ {p}) /\ Splits(s \ {x})
      BY <1>1, <2>0
    <3>2. SumFunctionOnSet(f, s \ {p}) = f[x] + both
      BY <2>3, <3>1
    <3>3. (s \ {x}) \ {p} = (s \ {p}) \ {x}
      OBVIOUS
    <3>4. SumFunctionOnSet(f, s \ {x}) = f[p] + both
      BY <2>0, <2>3, <3>1, <3>3
    <3>5. f[p] \in Nat /\ f[x] \in Nat /\ both \in Nat
      BY <2>0, SumType
    <3> QED BY <2>1, <3>2, <3>4, <3>5
  <2> QED BY <2>2, <2>3
<1> QED BY <1>1, <1>2

LEMMA SumSplit ==
  ASSUME NEW S, IsFiniteSet(S), NEW f, \A x \in S : f[x] \in Nat, NEW x \in S
  PROVE  SumFunctionOnSet(f, S) = f[x] + SumFunctionOnSet(f, S \ {x})
BY SumAnyElement

\* Adding over more elements gives no less.
LEMMA SumGrows ==
  ASSUME NEW S, IsFiniteSet(S), NEW f, \A x \in S : f[x] \in Nat, NEW T \in SUBSET S
  PROVE  SumFunctionOnSet(f, T) <= SumFunctionOnSet(f, S)
<1> DEFINE bad == {s \in SUBSET S : /\ T \subseteq s
                                    /\ ~(SumFunctionOnSet(f, T) <= SumFunctionOnSet(f, s))}
<1> SUFFICES ASSUME bad # {} PROVE FALSE
  OBVIOUS
<1>1. PICK s \in bad : \A t \in SUBSET s : t # s => t \notin bad
  <2>1. bad \in SUBSET (SUBSET S)
    OBVIOUS
  <2> HIDE DEF bad
  <2> QED BY <2>1, MinimalSubset
<1>2. s # T
  BY SumType
<1>3. PICK x \in s : x \notin T
  BY <1>2
<1>4. SumFunctionOnSet(f, s) = f[x] + SumFunctionOnSet(f, s \ {x})
  BY SumAnyElement
<1>5. SumFunctionOnSet(f, T) <= SumFunctionOnSet(f, s \ {x})
  BY <1>1, <1>3
<1>6. /\ SumFunctionOnSet(f, T) \in Nat /\ f[x] \in Nat
      /\ SumFunctionOnSet(f, s \ {x}) \in Nat
  BY SumType
<1> QED BY <1>4, <1>5, <1>6

\* The sum over an interval, from its last number on.
LEMMA SumLast ==
  ASSUME NEW n \in Nat, NEW f, \A x \in 1..n : f[x] \in Nat,
         NEW a \in Nat, NEW b \in Nat, 1 <= a, a <= b, b <= n
  PROVE  SumFunctionOnSet(f, a..b) = f[b] + SumFunctionOnSet(f, a..(b - 1))
<1> DEFINE all == 1..n
           part == a..b
<1>1. IsFiniteSet(all) /\ (\A x \in all : f[x] \in Nat) /\ part \in SUBSET all /\ b \in part
  BY FS_Interval
<1>2. part \ {b} = a..(b - 1)
  OBVIOUS
<1> HIDE DEF all, part
<1>3. IsFiniteSet(part) /\ \A x \in part : f[x] \in Nat
  BY <1>1, FS_Subset
<1>4. SumFunctionOnSet(f, part) = f[b] + SumFunctionOnSet(f, part \ {b})
  BY <1>1, <1>3, SumSplit
<1> QED BY <1>2, <1>4 DEF part

\* Moving a sequence of numbers does not change their sum.
LEMMA SumShifts ==
  ASSUME NEW n \in Nat, NEW d \in Nat,
         NEW f, \A k \in 1..n : f[k] \in Nat,
         NEW g, \A k \in 1..(d + n) : g[k] \in Nat,
         \A k \in 1..n : g[d + k] = f[k]
  PROVE  SumFunctionOnSet(g, (d + 1)..(d + n)) = SumFunctionOnSet(f, 1..n)
<1> DEFINE Same(m) == SumFunctionOnSet(g, (d + 1)..(d + m)) = SumFunctionOnSet(f, 1..m)
           bad == {m \in 0..n : ~Same(m)}
<1> SUFFICES ASSUME bad # {} PROVE FALSE
  OBVIOUS
<1>1. PICK m \in bad : \A k \in bad : m <= k
  <2>1. bad \in SUBSET Nat
    OBVIOUS
  <2> HIDE DEF bad
  <2> QED BY <2>1, LeastNatural
<1>2. m \in 0..n /\ ~Same(m)
  BY <1>1
<1>3. CASE m = 0
  <2>1. (d + 1)..(d + m) = {} /\ 1..m = {}
    BY <1>3
  <2> QED BY <1>2, <2>1, SumEmpty
<1>4. CASE m # 0
  <2>1. m - 1 \in 0..n /\ ~(m <= m - 1)
    BY <1>2, <1>4
  <2>2. Same(m - 1)
    BY <1>1, <2>1
  <2> HIDE DEF bad
  <2>3. m \in Nat /\ m \in 1..n
    BY <1>2, <1>4
  <2>4. SumFunctionOnSet(f, 1..m) = f[m] + SumFunctionOnSet(f, 1..(m - 1))
    <3>1. PICK a \in Nat : a = 1
      OBVIOUS
    <3>2. PICK b \in Nat : b = m
      BY <2>3
    <3>3. n \in Nat /\ (\A x \in 1..n : f[x] \in Nat) /\ 1 <= a /\ a <= b /\ b <= n
      BY <2>3, <3>1, <3>2
    <3>4. SumFunctionOnSet(f, a..b) = f[b] + SumFunctionOnSet(f, a..(b - 1))
      BY ONLY <3>3, SumLast
    <3> QED BY <3>1, <3>2, <3>4
  <2>5. SumFunctionOnSet(g, (d + 1)..(d + m))
          = g[d + m] + SumFunctionOnSet(g, (d + 1)..((d + m) - 1))
    <3>1. PICK a \in Nat : a = d + 1
      OBVIOUS
    <3>2. PICK b \in Nat : b = d + m
      BY <2>3
    <3>3. PICK e \in Nat : e = d + n
      OBVIOUS
    <3>4. (\A x \in 1..e : g[x] \in Nat) /\ 1 <= a /\ a <= b /\ b <= e
      BY <2>3, <3>1, <3>2, <3>3
    <3>5. SumFunctionOnSet(g, a..b) = g[b] + SumFunctionOnSet(g, a..(b - 1))
      BY <3>4, SumLast
    <3> QED BY <3>1, <3>2, <3>5
  <2>6. (d + m) - 1 = d + (m - 1) /\ g[d + m] = f[m]
    BY <2>3
  <2> QED BY <1>2, <2>2, <2>4, <2>5, <2>6
<1> QED BY <1>3, <1>4

-----------------------------------------------------------------------------
(* Types                                                                   *)

USE TermsAssumption, NumbersAssumption

\* The terms of the chunks and of the findings, which the scores add up.
LEMMA TermsOfFindings ==
  ASSUME TypeOK
  PROVE  /\ IsFiniteSet(DOMAIN chunks) /\ \A c \in DOMAIN chunks : chunks[c] \in Nat
         /\ IsFiniteSet(DOMAIN findings)
         /\ \A k \in DOMAIN findings :
              findings[k] \in Indices /\ RiskyTerms(findings[k]) \in Nat
<1>1. DOMAIN chunks = 1..Len(chunks) /\ DOMAIN findings = 1..Len(findings)
  <2>1. chunks \in Seq(Terms) /\ findings \in Seq(Indices)
    BY DEF TypeOK
  <2> QED BY <2>1
<1>2. IsFiniteSet(1..Len(chunks)) /\ IsFiniteSet(1..Len(findings))
  BY FS_Interval DEF TypeOK
<1>3. \A c \in DOMAIN chunks : chunks[c] \in Nat
  <2>1. chunks \in Seq(Terms)
    BY DEF TypeOK
  <2>2. \A c \in 1..Len(chunks) : chunks[c] \in Terms
    BY <2>1
  <2> QED BY <1>1, <2>2
<1>4. \A k \in DOMAIN findings : findings[k] \in Indices
  BY DEF TypeOK
<1>5. \A c \in Indices : c + 1 \in DOMAIN chunks
  BY <1>1 DEF TypeOK, Indices
<1> QED BY <1>1, <1>2, <1>3, <1>4, <1>5 DEF RiskyTerms

\* A score is one, and more terms do not raise it.
LEMMA ScoreRange ==
  ASSUME NEW a \in Nat, NEW b \in Nat, a <= b
  PROVE  Score(b) \in 0..100 /\ Score(b) <= Score(a)
BY DEF Score

LEMMA SumOfTerms ==
  ASSUME NEW S, IsFiniteSet(S), NEW f, \A x \in S : f[x] \in Nat
  PROVE  SumFunctionOnSet(f, S) \in Nat
BY SumType

\* The terms of all findings.
Found == [k \in DOMAIN findings |-> RiskyTerms(findings[k])]

LEMMA SumsAreNumbers ==
  ASSUME TypeOK
  PROVE  SumFunction(chunks) \in Nat /\ SumFunction(Found) \in Nat
<1>1. SumFunctionOnSet(chunks, DOMAIN chunks) \in Nat
  BY TermsOfFindings, SumOfTerms
<1>2. DOMAIN Found = DOMAIN findings /\ \A k \in DOMAIN Found : Found[k] \in Nat
  BY TermsOfFindings DEF Found
<1>3. SumFunctionOnSet(Found, DOMAIN Found) \in Nat
  BY <1>2, TermsOfFindings, SumOfTerms
<1> QED BY <1>1, <1>3 DEF SumFunction

LEMMA BatchFits ==
  ASSUME TypeOK
  PROVE  /\ BatchLength \in Nat /\ idx + BatchLength \in 0..Len(chunks)
         /\ idx < Len(chunks) => BatchLength > 0
BY DEF TypeOK, BatchLength

\* What risk_analysis_node appends.
LEMMA BatchAppended ==
  ASSUME TypeOK, RiskAnalysis
  PROVE  /\ findings' \in Seq(Indices)
         /\ Len(findings') = Len(findings) + BatchLength
         /\ \A k \in 1..Len(findings) : findings'[k] = findings[k]
         /\ \A k \in 1..BatchLength : findings'[Len(findings) + k] = idx + k - 1
<1> DEFINE batchFindings == [i \in 1..BatchLength |-> idx + i - 1]
<1>1. BatchLength \in Nat /\ idx \in Nat /\ idx + BatchLength \in 0..Len(chunks)
  BY BatchFits DEF TypeOK
<1>2. \A i \in 1..BatchLength : idx + i - 1 \in Indices
  BY <1>1 DEF Indices, TypeOK
<1>3. batchFindings \in Seq(Indices) /\ Len(batchFindings) = BatchLength
  BY <1>1, <1>2
<1>4. \A k \in 1..BatchLength : batchFindings[k] = idx + k - 1
  OBVIOUS
<1>5. findings' = findings \o batchFindings /\ findings \in Seq(Indices)
  BY DEF RiskAnalysis, TypeOK
<1> HIDE DEF batchFindings
<1>6. /\ findings' \in Seq(Indices) /\ Len(findings') = Len(findings) + BatchLength
      /\ \A i \in 1..(Len(findings) + BatchLength) :
           findings'[i] = IF i <= Len(findings) THEN findings[i]
                          ELSE batchFindings[i - Len(findings)]
  BY <1>3, <1>5, ConcatProperties
<1>7. \A k \in 1..Len(findings) : findings'[k] = findings[k]
  BY <1>1, <1>5, <1>6
<1>8. \A k \in 1..BatchLength : findings'[Len(findings) + k] = idx + k - 1
  BY <1>1, <1>4, <1>5, <1>6
<1> QED BY <1>6, <1>7, <1>8

\* Every step keeps the types.
LEMMA TypeStep ==
  ASSUME TypeOK, [Next]_vars
  PROVE  TypeOK'
<1>1. CASE Invoke
  BY <1>1 DEF Invoke, TypeOK, Indices, Nodes
<1>2. CASE GiveUp
  BY <1>2 DEF GiveUp, TypeOK, Indices, Nodes
<1>3. CASE Ingest
  BY <1>3 DEF Ingest, TypeOK, Indices, Nodes
<1>4. CASE RiskAnalysis
  BY <1>4, BatchAppended DEF RiskAnalysis, TypeOK, Indices, Nodes
<1>5. CASE McpTool
  BY <1>5, BatchFits DEF McpTool, TypeOK, Indices, Nodes
<1>6. CASE Reconcile
  <2>1. Range(findings) \subseteq Indices
    BY TermsOfFindings DEF Range
  <2>2. Score(SumFunction(Found)) \in 0..100
    BY SumsAreNumbers, ScoreRange
  <2>3. report' \in [covered : SUBSET Indices, score : 0..100]
    BY <1>6, <2>1, <2>2 DEF Reconcile, Found
  <2> QED BY <1>6, <2>3 DEF Reconcile, TypeOK, Indices, Nodes
<1>7. CASE ToolHangs
  BY <1>7 DEF ToolHangs, Fault, TypeOK, Indices, Nodes
<1>8. CASE InvokeRaises
  BY <1>8 DEF InvokeRaises, Fault, TypeOK, Indices, Nodes
<1>9. CASE DeliveredAgain
  BY <1>9 DEF DeliveredAgain, Fault, TypeOK, Indices, Nodes
<1>10. CASE UNCHANGED vars
  BY <1>10 DEF vars, TypeOK, Indices
<1> QED
  BY <1>1, <1>2, <1>3, <1>4, <1>5, <1>6, <1>7, <1>8, <1>9, <1>10 DEF Next, Step

LEMMA TypeInit == Init => TypeOK
<1> SUFFICES ASSUME Init PROVE TypeOK
  OBVIOUS
<1>1. PICK n \in 0..MaxChunks : chunks \in [1..n -> Terms]
  BY DEF Init
<1>2. n \in Nat /\ n <= MaxChunks
  BY <1>1
<1>3. chunks \in Seq(Terms) /\ Len(chunks) = n
  BY <1>1, <1>2
<1> QED BY <1>2, <1>3 DEF Init, TypeOK, NoReport, Indices, Nodes

\* The types hold throughout: the index never leaves the document, findings
\* are about its chunks, and the score is one.
THEOREM TypeCorrect == Spec => []TypeOK
BY TypeInit, TypeStep, PTL DEF Spec

-----------------------------------------------------------------------------
(* Attempts                                                                *)

Analysing == {"risk", "mcp", "reconcile", "end"}

\* The chunks the attempt going on has analysed are those before this index.
Analysed == IF node = "mcp" THEN idx + BatchLength ELSE idx

\* Every attempt before counted a chunk at most once, and the attempt going on
\* has counted the chunks before the index.
CountedOnce ==
  \A c \in Indices :
    Occurrences(c) <= IF node \in Analysing \cup {"ingest"} /\ c >= Analysed
                      THEN attempt - 1 ELSE attempt

\* The last findings are those of the attempt going on.
InOrder ==
  node \in Analysing =>
    /\ Len(findings) >= Analysed
    /\ \A k \in 1..Analysed : findings[Len(findings) - Analysed + k] = k - 1

\* What makes AttemptsAddUp inductive; and a first attempt has no findings
\* before it.
AttemptInv ==
  /\ CountedOnce
  /\ InOrder
  /\ node = "ingest" => idx = 0
  /\ node \in Analysing \cup {"ingest"} => attempt >= 1
  /\ node \in {"reconcile", "end"} => idx = Len(chunks)
  /\ attempt = 0 => findings = <<>>
  /\ attempt = 1 /\ node \in Analysing \cup {"ingest"} => Len(findings) = Analysed

LEMMA OccurrencesFinite ==
  ASSUME TypeOK, NEW c
  PROVE  IsFiniteSet({k \in DOMAIN findings : findings[k] = c}) /\ Occurrences(c) \in Nat
<1>1. IsFiniteSet({k \in DOMAIN findings : findings[k] = c})
  BY TermsOfFindings, FS_Subset
<1> QED BY <1>1, FS_CardinalityType DEF Occurrences

LEMMA NothingOccurs ==
  ASSUME findings = <<>>, NEW c
  PROVE  Occurrences(c) = 0
<1>1. {k \in DOMAIN findings : findings[k] = c} = {}
  OBVIOUS
<1> QED BY <1>1, FS_EmptySet DEF Occurrences

\* A batch counts each of its chunks once more, and no other.
LEMMA BatchCounts ==
  ASSUME TypeOK, RiskAnalysis, NEW c \in Indices
  PROVE  Occurrences(c)' = IF c >= idx /\ c < idx + BatchLength
                           THEN Occurrences(c) + 1 ELSE Occurrences(c)
<1> DEFINE old == {k \in DOMAIN findings : findings[k] = c}
           new == {k \in DOMAIN findings' : findings'[k] = c}
           n == Len(findings)
<1>1. /\ DOMAIN findings = 1..n /\ n \in Nat /\ idx \in Nat /\ BatchLength \in Nat
      /\ DOMAIN findings' = 1..(n + BatchLength) /\ c \in Nat
  <2>1. findings \in Seq(Indices) /\ findings' \in Seq(Indices) /\ idx \in Nat
    BY BatchAppended DEF TypeOK
  <2> QED BY <2>1, BatchAppended, BatchFits DEF Indices
<1>2. /\ \A k \in 1..n : findings'[k] = findings[k]
      /\ \A k \in 1..BatchLength : findings'[n + k] = idx + k - 1
  BY BatchAppended
<1>3. \A k \in 1..(n + BatchLength) :
        \/ k \in 1..n
        \/ (k > n /\ k - n \in 1..BatchLength /\ findings'[k] = idx + (k - n) - 1)
  <2>1. ASSUME NEW k \in 1..(n + BatchLength), k \notin 1..n
        PROVE  k > n /\ k - n \in 1..BatchLength /\ findings'[k] = idx + (k - n) - 1
    <3>1. k > n /\ k - n \in 1..BatchLength /\ n + (k - n) = k
      BY <1>1, <2>1
    <3> QED BY <1>2, <3>1
  <2> QED BY <2>1
<1>4. IsFiniteSet(old) /\ Cardinality(old) \in Nat
  BY OccurrencesFinite DEF Occurrences
<1>5. CASE c >= idx /\ c < idx + BatchLength
  <2> DEFINE place == n + (c - idx + 1)
  <2>1. place \in 1..(n + BatchLength) /\ place \notin 1..n
    BY <1>1, <1>5
  <2>2. findings'[place] = c
    BY <1>1, <1>3, <2>1
  <2>3. ASSUME NEW k \in 1..(n + BatchLength), k \notin 1..n, findings'[k] = c
        PROVE  k = place
    <3>1. c = idx + (k - n) - 1
      BY <1>3, <2>3
    <3> QED BY <1>1, <3>1
  <2>4. new = old \cup {place} /\ place \notin old
    BY <1>1, <1>2, <2>1, <2>2, <2>3
  <2> HIDE DEF old, place
  <2>5. Cardinality(old \cup {place}) = Cardinality(old) + 1
    BY <1>4, <2>4, FS_AddElement
  <2> USE DEF old
  <2> QED BY <1>5, <2>4, <2>5 DEF Occurrences
<1>6. CASE ~(c >= idx /\ c < idx + BatchLength)
  <2>1. \A k \in 1..(n + BatchLength) : findings'[k] = c => k \in 1..n
    BY <1>1, <1>3, <1>6
  <2>2. new = old
    BY <1>1, <1>2, <2>1
  <2> QED BY <1>6, <2>2 DEF Occurrences
<1> QED BY <1>5, <1>6

LEMMA AttemptInit == Init => AttemptInv
BY NothingOccurs DEF Init, AttemptInv, CountedOnce, InOrder, Analysing, Indices

\* The chunks and the findings stay, and with them what is counted.
LEMMA SameCount ==
  ASSUME UNCHANGED <<chunks, findings>>
  PROVE  Indices' = Indices /\ \A c : Occurrences(c)' = Occurrences(c)
BY DEF Indices, Occurrences

\* Every step preserves it.
LEMMA AttemptStep ==
  ASSUME TypeOK, AttemptInv, [Next]_vars
  PROVE  AttemptInv'
<1>0. /\ idx \in Nat /\ Len(chunks) \in Nat /\ idx <= Len(chunks) /\ attempt \in Nat
      /\ Len(findings) \in Nat /\ BatchLength \in Nat
      /\ idx + BatchLength \in 0..Len(chunks)
      /\ \A c \in Indices : c \in Nat /\ c < Len(chunks) /\ Occurrences(c) \in Nat
  <2>1. /\ idx \in 0..Len(chunks) /\ Len(chunks) \in Nat /\ attempt \in Nat
        /\ Len(findings) \in Nat
    BY DEF TypeOK
  <2>2. \A c \in Indices : Occurrences(c) \in Nat
    BY OccurrencesFinite
  <2>3. \A c \in Indices : c \in Nat /\ c < Len(chunks)
    BY <2>1 DEF Indices
  <2> QED BY <2>1, <2>2, <2>3, BatchFits
<1>1. CASE Invoke
  <2>1. Indices' = Indices /\ \A c : Occurrences(c)' = Occurrences(c)
    BY <1>1, SameCount DEF Invoke
  <2> QED BY <1>0, <1>1, <2>1
          DEF Invoke, AttemptInv, CountedOnce, InOrder, Analysing, Analysed
<1>2. CASE GiveUp
  <2>1. Indices' = Indices /\ \A c : Occurrences(c)' = Occurrences(c)
    BY <1>2, SameCount DEF GiveUp
  <2> QED BY <1>0, <1>2, <2>1
          DEF GiveUp, AttemptInv, CountedOnce, InOrder, Analysing, Analysed
<1>3. CASE Ingest
  <2>1. Indices' = Indices /\ \A c : Occurrences(c)' = Occurrences(c)
    BY <1>3, SameCount DEF Ingest
  <2> QED BY <1>0, <1>3, <2>1
          DEF Ingest, AttemptInv, CountedOnce, InOrder, Analysing, Analysed
<1>4. CASE RiskAnalysis
  <2>1. /\ node = "risk" /\ node' = "mcp" /\ Indices' = Indices
        /\ UNCHANGED <<chunks, batch, idx, attempt>>
        /\ BatchLength' = BatchLength
    BY <1>4 DEF RiskAnalysis, Indices, BatchLength
  <2>2. Analysed = idx /\ Analysed' = idx + BatchLength
    BY <2>1 DEF Analysed
  <2>3. Len(findings') = Len(findings) + BatchLength
    BY <1>4, BatchAppended
  <2>4. CountedOnce'
    <3> SUFFICES ASSUME NEW c \in Indices
                 PROVE  Occurrences(c)' <= IF c >= idx + BatchLength
                                           THEN attempt - 1 ELSE attempt
      BY <2>1, <2>2 DEF CountedOnce, Analysing
    <3>1. Occurrences(c) <= IF c >= idx THEN attempt - 1 ELSE attempt
      BY <2>1, <2>2 DEF AttemptInv, CountedOnce, Analysing
    <3> QED BY <1>0, <1>4, <3>1, BatchCounts
  <2>5. InOrder'
    <3>1. Len(findings) >= idx /\ \A k \in 1..idx : findings[Len(findings) - idx + k] = k - 1
      BY <2>1, <2>2 DEF AttemptInv, InOrder, Analysing
    <3>2. ASSUME NEW k \in 1..(idx + BatchLength)
          PROVE  findings'[(Len(findings) + BatchLength) - (idx + BatchLength) + k] = k - 1
      <4>1. (Len(findings) + BatchLength) - (idx + BatchLength) + k = Len(findings) - idx + k
        BY <1>0
      <4>2. CASE k <= idx
        <5>1. Len(findings) - idx + k \in 1..Len(findings) /\ k \in 1..idx
          BY <1>0, <3>1, <4>2
        <5> QED BY <1>4, <3>1, <4>1, <5>1, BatchAppended
      <4>3. CASE k > idx
        <5>1. /\ k - idx \in 1..BatchLength
              /\ Len(findings) - idx + k = Len(findings) + (k - idx)
              /\ idx + (k - idx) - 1 = k - 1
          BY <1>0, <4>3
        <5>2. findings'[Len(findings) + (k - idx)] = idx + (k - idx) - 1
          BY <1>4, <5>1, BatchAppended
        <5> QED BY <4>1, <5>1, <5>2
      <4> QED BY <1>0, <4>2, <4>3
    <3> QED BY <1>0, <2>1, <2>2, <2>3, <3>1, <3>2 DEF InOrder
  <2>6. attempt >= 1 /\ (attempt = 1 => Len(findings) = idx)
    BY <2>1, <2>2 DEF AttemptInv, Analysing
  <2> QED BY <1>0, <2>1, <2>2, <2>3, <2>4, <2>5, <2>6 DEF AttemptInv, Analysing
<1>5. CASE McpTool
  <2>1. /\ node = "mcp" /\ idx' = idx + BatchLength /\ node' \in {"risk", "reconcile"}
        /\ node' = "reconcile" => idx' >= Len(chunks)
        /\ UNCHANGED <<chunks, findings, attempt>>
    BY <1>5 DEF McpTool
  <2>2. Analysed = idx + BatchLength /\ Analysed' = idx + BatchLength
    BY <2>1 DEF Analysed
  <2>3. Indices' = Indices /\ \A c : Occurrences(c)' = Occurrences(c)
    BY <2>1, SameCount
  <2>4. CountedOnce'
    BY <2>1, <2>2, <2>3 DEF AttemptInv, CountedOnce, Analysing
  <2>5. InOrder'
    BY <2>1, <2>2 DEF AttemptInv, InOrder, Analysing
  <2> QED BY <1>0, <2>1, <2>2, <2>4, <2>5 DEF AttemptInv, Analysing
<1>6. CASE Reconcile
  <2>1. /\ node = "reconcile" /\ node' = "end"
        /\ UNCHANGED <<chunks, idx, findings, attempt>>
    BY <1>6 DEF Reconcile
  <2>2. Analysed' = Analysed
    BY <2>1 DEF Analysed
  <2>3. Indices' = Indices /\ \A c : Occurrences(c)' = Occurrences(c)
    BY <2>1, SameCount
  <2>4. CountedOnce'
    BY <2>1, <2>2, <2>3 DEF AttemptInv, CountedOnce, Analysing
  <2>5. InOrder'
    BY <2>1, <2>2 DEF AttemptInv, InOrder, Analysing
  <2> QED BY <2>1, <2>2, <2>4, <2>5 DEF AttemptInv, Analysing
<1>7. CASE ToolHangs \/ InvokeRaises
  <2>1. /\ UNCHANGED <<chunks, findings, attempt>>
        /\ node' \in {"waiting", "invoke"}
    BY <1>7 DEF ToolHangs, InvokeRaises
  <2>2. Indices' = Indices /\ \A c : Occurrences(c)' = Occurrences(c)
    BY <2>1, SameCount
  <2>3. \A c \in Indices : Occurrences(c) <= attempt
    BY <1>0 DEF AttemptInv, CountedOnce
  <2> QED BY <2>1, <2>2, <2>3 DEF AttemptInv, CountedOnce, InOrder, Analysing
<1>8. CASE DeliveredAgain
  <2>1. /\ findings' = <<>> /\ attempt' = 0 /\ node' = "invoke" /\ Indices' = Indices
    BY <1>8 DEF DeliveredAgain, Indices
  <2>2. \A c \in Indices : Occurrences(c)' = 0
    <3>1. {k \in DOMAIN findings' : FALSE} = {}
      OBVIOUS
    <3>2. ASSUME NEW c \in Indices PROVE {k \in DOMAIN findings' : findings'[k] = c} = {}
      BY <2>1
    <3> QED BY <3>2, FS_EmptySet DEF Occurrences
  <2> QED BY <2>1, <2>2 DEF AttemptInv, CountedOnce, InOrder, Analysing
<1>9. CASE UNCHANGED vars
  <2>1. Indices' = Indices /\ \A c : Occurrences(c)' = Occurrences(c)
    BY <1>9, SameCount DEF vars
  <2>2. Analysed' = Analysed
    BY <1>9 DEF vars, Analysed, BatchLength
  <2> QED BY <1>9, <2>1, <2>2 DEF vars, AttemptInv, CountedOnce, InOrder
<1> QED
  BY <1>1, <1>2, <1>3, <1>4, <1>5, <1>6, <1>7, <1>8, <1>9 DEF Next, Step

\* No chunk is counted more often than there were attempts, and the attempt
\* going on has analysed exactly the chunks before the index, in order.
THEOREM FindingsAddUp == Spec => []AttemptsAddUp
<1>1. TypeOK /\ AttemptInv => AttemptsAddUp
  <2> SUFFICES ASSUME TypeOK, AttemptInv PROVE AttemptsAddUp
    OBVIOUS
  <2>1. ASSUME NEW c \in Indices PROVE Occurrences(c) <= attempt
    <3>0. attempt \in Nat
      BY DEF TypeOK
    <3>1. Occurrences(c) \in Nat
      BY OccurrencesFinite
    <3>2. Occurrences(c) <= attempt \/ Occurrences(c) <= attempt - 1
      BY DEF AttemptInv, CountedOnce
    <3> QED BY <3>0, <3>1, <3>2
  <2> QED BY <2>1 DEF AttemptInv, InOrder, Analysing, Analysed, AttemptsAddUp
<1>2. TypeOK /\ AttemptInv /\ [Next]_vars => AttemptInv'
  BY AttemptStep
<1> QED BY <1>1, <1>2, AttemptInit, TypeCorrect, PTL DEF Spec

-----------------------------------------------------------------------------
(* Reports                                                                 *)

\* When all chunks are analysed, the last findings are the document.
LEMMA LastFindings ==
  ASSUME TypeOK, AttemptInv, node = "reconcile"
  PROVE  /\ Len(findings) - Len(chunks) \in Nat
         /\ \A k \in 1..Len(chunks) :
              findings[(Len(findings) - Len(chunks)) + k] = k - 1
<1>1. Len(findings) \in Nat /\ Len(chunks) \in Nat
  BY DEF TypeOK
<1>2. Analysed = Len(chunks)
  BY DEF AttemptInv, Analysed
<1> QED BY <1>1, <1>2 DEF AttemptInv, InOrder, Analysing

LEMMA ReportCovers ==
  ASSUME TypeOK, AttemptInv, node = "reconcile"
  PROVE  Range(findings) = Indices
<1>1. Range(findings) \subseteq Indices
  BY TermsOfFindings DEF Range
<1>2. ASSUME NEW c \in Indices PROVE c \in Range(findings)
  <2>1. c \in Nat /\ c + 1 \in 1..Len(chunks) /\ Len(chunks) \in Nat /\ Len(findings) \in Nat
    BY DEF Indices, TypeOK
  <2>2. PICK k : k = (Len(findings) - Len(chunks)) + (c + 1)
    OBVIOUS
  <2>3. k \in 1..Len(findings) /\ findings[k] = c
    BY <2>1, <2>2, LastFindings
  <2>4. DOMAIN findings = 1..Len(findings)
    BY DEF TypeOK
  <2> QED BY <2>3, <2>4 DEF Range
<1> QED BY <1>1, <1>2

\* The findings' terms add up to at least those of the document.
LEMMA SumNotLess ==
  ASSUME TypeOK, AttemptInv, node = "reconcile"
  PROVE  /\ SumFunction(chunks) <= SumFunction(Found)
         /\ attempt = 1 => SumFunction(Found) = SumFunction(chunks)
<1> DEFINE n == Len(chunks)
           d == Len(findings) - Len(chunks)
<1>1. n \in Nat /\ d \in Nat /\ Len(findings) = d + n
  BY LastFindings DEF TypeOK
<1>2. /\ DOMAIN chunks = 1..n /\ DOMAIN Found = 1..(d + n)
      /\ \A k \in 1..n : chunks[k] \in Nat
      /\ \A k \in 1..(d + n) : Found[k] \in Nat
  <2>1. chunks \in Seq(Terms) /\ findings \in Seq(Indices)
    BY DEF TypeOK
  <2>2. DOMAIN chunks = 1..n /\ DOMAIN findings = 1..(d + n)
    BY <1>1, <2>1
  <2> QED BY <2>2, TermsOfFindings DEF Found
<1>3. \A k \in 1..n : Found[d + k] = chunks[k]
  <2>1. ASSUME NEW k \in 1..n PROVE Found[d + k] = chunks[k]
    <3>1. d + k \in DOMAIN findings
      BY <1>1, <1>2 DEF Found
    <3>2. findings[d + k] = k - 1
      BY LastFindings
    <3>3. (k - 1) + 1 = k
      OBVIOUS
    <3> QED BY <3>1, <3>2, <3>3 DEF Found, RiskyTerms
  <2> QED BY <2>1
<1>4. attempt = 1 => d = 0
  BY <1>1 DEF AttemptInv, Analysing, Analysed, TypeOK
<1> HIDE DEF n, d
<1>5. SumFunctionOnSet(Found, (d + 1)..(d + n)) = SumFunctionOnSet(chunks, 1..n)
  BY ONLY <1>1, <1>2, <1>3, SumShifts
<1>6. SumFunctionOnSet(Found, (d + 1)..(d + n)) <= SumFunctionOnSet(Found, 1..(d + n))
  <2>1. IsFiniteSet(1..(d + n)) /\ (d + 1)..(d + n) \in SUBSET (1..(d + n))
    BY <1>1, FS_Interval
  <2> QED BY <1>2, <2>1, SumGrows
<1>7. /\ SumFunction(chunks) = SumFunctionOnSet(chunks, 1..n)
      /\ SumFunction(Found) = SumFunctionOnSet(Found, 1..(d + n))
  BY <1>2 DEF SumFunction
<1>8. ASSUME attempt = 1 PROVE (d + 1)..(d + n) = 1..(d + n)
  BY <1>1, <1>4, <1>8
<1> QED BY <1>5, <1>6, <1>7, <1>8

\* What a report says when it is made it says for good.
ReportInv == ReportCoversEveryChunk /\ ScoreNeverFlatters

LEMMA ReportStep ==
  ASSUME TypeOK, AttemptInv, ReportInv, [Next]_vars
  PROVE  ReportInv'
<1>1. CASE Reconcile
  <2>1. /\ node = "reconcile" /\ chunks' = chunks /\ attempt' = attempt
        /\ report'.covered = Range(findings)
        /\ report'.score = Score(SumFunction(Found))
    BY <1>1 DEF Reconcile, Found
  <2>2. Indices' = Indices /\ TrueScore' = TrueScore
    BY <2>1 DEF Indices, TrueScore
  <2>3. Score(SumFunction(Found)) <= TrueScore
    BY <2>1, SumsAreNumbers, SumNotLess, ScoreRange DEF TrueScore
  <2>4. attempt = 1 => Score(SumFunction(Found)) = TrueScore
    BY <2>1, SumNotLess DEF TrueScore
  <2> QED BY <2>1, <2>2, <2>3, <2>4, ReportCovers
          DEF ReportInv, ReportCoversEveryChunk, ScoreNeverFlatters
<1>2. CASE node' # "end"
  BY <1>2 DEF ReportInv, ReportCoversEveryChunk, ScoreNeverFlatters
<1>3. CASE UNCHANGED vars
  BY <1>3
     DEF vars, ReportInv, ReportCoversEveryChunk, ScoreNeverFlatters, Indices, TrueScore
<1> QED
  BY <1>1, <1>2, <1>3
     DEF Next, Step, Invoke, GiveUp, Ingest, RiskAnalysis, McpTool, ToolHangs,
         InvokeRaises, DeliveredAgain

LEMMA ReportsHold == Spec => []ReportInv
<1>1. Init => ReportInv
  BY DEF Init, ReportInv, ReportCoversEveryChunk, ScoreNeverFlatters
<1>2. TypeOK /\ AttemptInv /\ [Next]_vars => AttemptInv'
  BY AttemptStep
<1>3. TypeOK /\ AttemptInv /\ ReportInv /\ [Next]_vars => ReportInv'
  BY ReportStep
<1> QED BY <1>1, <1>2, <1>3, AttemptInit, TypeCorrect, PTL DEF Spec

\* A report speaks about every chunk of the job, whatever the batch size and
\* whichever attempts failed.
THEOREM ReportsAreComplete == Spec => []ReportCoversEveryChunk
<1>1. ReportInv => ReportCoversEveryChunk
  BY DEF ReportInv
<1> QED BY <1>1, ReportsHold, PTL

\* Failed attempts never make a document look safer than it is, and the report
\* of a first attempt has the document's score.
THEOREM ScoresAreSafe == Spec => []ScoreNeverFlatters
<1>1. ReportInv => ScoreNeverFlatters
  BY DEF ReportInv
<1> QED BY <1>1, ReportsHold, PTL

=============================================================================
