--------------------------- MODULE OptionsProofs ---------------------------
(***************************************************************************)
(* What the folds of Options make of lists of lines and params: lists of   *)
(* words again, for lines and params of any number.                        *)
(***************************************************************************)
EXTENDS Options, Integers, FiniteSetTheorems, SequenceTheorems, WellFoundedInduction, TLAPS

-----------------------------------------------------------------------------
(* Folds of a sequence with the indices 1..n.                               *)

LEMMA SmallestNumber ==
  ASSUME NEW T \in SUBSET Nat, T # {}
  PROVE  \E n \in T : \A m \in T : n <= m
<1> DEFINE R == {ij \in Nat \X Nat : ij[1] < ij[2]}
<1>1. IsWellFoundedOn(R, Nat)
  BY NatLessThanWellFounded DEF OpToRel
<1> HIDE DEF R
<1>2. PICK n \in T : \A m \in T : <<m, n>> \notin R
  BY <1>1, WFMin
<1>3. \A m \in T : m \in Nat /\ n \in Nat /\ ~(m < n)
  BY <1>2 DEF R
<1>4. QED
  BY <1>3

LEMMA MaxIsLargest ==
  ASSUME NEW n \in Nat, NEW s \in SUBSET (1..n), s # {}
  PROVE  Max(s) \in s /\ \A i \in s : i <= Max(s)
<1> DEFINE Bounds == {k \in Nat : \A i \in s : i <= k}
<1>1. n \in Bounds
  OBVIOUS
<1>2. PICK k \in Bounds : \A m \in Bounds : k <= m
  BY <1>1, SmallestNumber
<1>3. k \in s
  <2>1. k # 0
    <3>1. PICK i \in s : i <= k
      OBVIOUS
    <3>2. QED
      BY <3>1
  <2>2. CASE k \notin s
    <3>1. k - 1 \in Bounds
      BY <2>1, <2>2
    <3>2. QED
      BY <1>2, <3>1
  <2>3. QED
    BY <2>2
<1>4. \E x \in s : \A y \in s : x >= y
  BY <1>3
<1>5. Max(s) \in s /\ \A y \in s : Max(s) >= y
  BY <1>4 DEF Max
<1>6. QED
  BY <1>5

LEMMA WithoutMax ==
  ASSUME NEW k \in Nat, NEW s \in SUBSET (1..k), s # {}
  PROVE  /\ k # 0 /\ Max(s) \in 1..k
         /\ s \ {Max(s)} \in SUBSET (1..(k-1))
<1>1. Max(s) \in s /\ \A i \in s : i <= Max(s)
  BY MaxIsLargest
<1>2. Max(s) \in 1..k
  BY <1>1
<1>3. ASSUME NEW i \in s \ {Max(s)} PROVE i \in 1..(k-1)
  <2>1. i \in 1..k /\ i <= Max(s) /\ i # Max(s)
    BY <1>1
  <2>2. QED
    BY <1>2, <2>1
<1>4. s \ {Max(s)} \in SUBSET (1..(k-1))
  BY <1>3
<1>5. k # 0
  BY <1>2
<1>6. QED
  BY <1>2, <1>4, <1>5

\* g[1..k] is what k steps make of base.
IsFold(g, Accumulators, base, n, step) ==
  /\ g \in [SUBSET (1..n) -> Accumulators]
  /\ \A s \in SUBSET (1..n) :
       g[s] = IF s = {} THEN base ELSE step[Max(s)][g[s \ {Max(s)}]]

(* A fold whose steps lead from Accumulators to Accumulators exists.          *)
LEMMA FoldExists ==
  ASSUME NEW Accumulators, NEW base \in Accumulators, NEW n \in Nat,
         NEW step \in [1..n -> [Accumulators -> Accumulators]]
  PROVE  \E g : IsFold(g, Accumulators, base, n, step)
<1> DEFINE Folds(g, k) ==
             \A s \in SUBSET (1..k) :
               g[s] = IF s = {} THEN base ELSE step[Max(s)][g[s \ {Max(s)}]]
           Exists(k) == \E g \in [SUBSET (1..k) -> Accumulators] : Folds(g, k)
           Missing == {k \in 0..n : ~Exists(k)}
<1>1. Exists(0)
  <2> DEFINE g == [s \in SUBSET (1..0) |-> base]
  <2>1. \A s \in SUBSET (1..0) : s = {}
    <3>1. 1..0 = {}
      OBVIOUS
    <3>2. QED
      BY <3>1
  <2>2. g \in [SUBSET (1..0) -> Accumulators]
    OBVIOUS
  <2>3. Folds(g, 0)
    BY <2>1
  <2>4. QED
    BY <2>2, <2>3
<1>2. ASSUME NEW k \in 1..n, Exists(k - 1) PROVE Exists(k)
  <2>1. PICK g \in [SUBSET (1..(k-1)) -> Accumulators] : Folds(g, k - 1)
    BY <1>2
  <2> DEFINE h == [s \in SUBSET (1..k) |->
                     IF s = {} THEN base ELSE step[Max(s)][g[s \ {Max(s)}]]]
  <2>2. ASSUME NEW s \in SUBSET (1..k), s # {}
        PROVE  Max(s) \in 1..n /\ s \ {Max(s)} \in SUBSET (1..(k-1))
    <3>1. k \in Nat
      OBVIOUS
    <3>2. Max(s) \in 1..k /\ s \ {Max(s)} \in SUBSET (1..(k-1))
      BY <2>2, <3>1, WithoutMax
    <3>3. QED
      BY <3>2
  <2>3. h \in [SUBSET (1..k) -> Accumulators]
    BY <2>1, <2>2
  <2>4. ASSUME NEW s \in SUBSET (1..k), s # {}
        PROVE  h[s \ {Max(s)}] = g[s \ {Max(s)}]
    <3>1. PICK rest : rest = s \ {Max(s)}
      OBVIOUS
    <3>2. rest \in SUBSET (1..(k-1))
      BY <2>2, <2>4, <3>1
    <3>3. rest \in SUBSET (1..k)
      BY <3>1
    <3>4. g[rest] = IF rest = {} THEN base ELSE step[Max(rest)][g[rest \ {Max(rest)}]]
      BY <2>1, <3>2
    <3>5. h[rest] = g[rest]
      BY <3>3, <3>4
    <3>6. QED
      BY <3>1, <3>5
  <2>5. Folds(h, k)
    BY <2>4
  <2> HIDE DEF h, Folds
  <2>6. QED
    BY <2>3, <2>5
<1> HIDE DEF Exists
<1>3. Missing = {}
  <2> SUFFICES ASSUME Missing # {} PROVE FALSE
    OBVIOUS
  <2>0. Missing \in SUBSET Nat
    OBVIOUS
  <2>1. PICK k \in Missing : \A m \in Missing : k <= m
    <3> HIDE DEF Missing
    <3>1. QED
      BY <2>0, SmallestNumber
  <2>2. k \in 1..n /\ k - 1 \in 0..n
    BY <1>1, <2>1
  <2>3. k - 1 \notin Missing
    BY <2>1, <2>2
  <2>4. QED
    BY <1>2, <2>1, <2>2, <2>3
<1>4. Exists(n)
  BY <1>3
<1>5. QED
  BY <1>4 DEF Exists, IsFold

(* What holds of the base and is kept by every step holds of the fold.        *)
LEMMA FoldInduction ==
  ASSUME NEW Accumulators, NEW n \in Nat, NEW g, g[{}] \in Accumulators,
         \A s \in SUBSET (1..n) :
           s # {} /\ g[s \ {Max(s)}] \in Accumulators => g[s] \in Accumulators
  PROVE  \A s \in SUBSET (1..n) : g[s] \in Accumulators
<1> DEFINE Holds(k) == \A s \in SUBSET (1..k) : g[s] \in Accumulators
           Bad == {k \in 0..n : ~Holds(k)}
<1>1. Holds(0)
  <2>1. 1..0 = {}
    OBVIOUS
  <2>2. \A s \in SUBSET (1..0) : s = {}
    BY <2>1
  <2>3. QED
    BY <2>2
<1>2. ASSUME NEW k \in 1..n, Holds(k - 1) PROVE Holds(k)
  <2> SUFFICES ASSUME NEW s \in SUBSET (1..k), s # {} PROVE g[s] \in Accumulators
    OBVIOUS
  <2>1. k \in Nat /\ 1..k \subseteq 1..n
    OBVIOUS
  <2>2. s \ {Max(s)} \in SUBSET (1..(k-1)) /\ s \in SUBSET (1..n)
    BY <2>1, WithoutMax
  <2>3. g[s \ {Max(s)}] \in Accumulators
    BY <1>2, <2>2
  <2>4. QED
    BY <2>2, <2>3
<1> HIDE DEF Holds
<1>3. Bad = {}
  <2> SUFFICES ASSUME Bad # {} PROVE FALSE
    OBVIOUS
  <2>0. Bad \in SUBSET Nat
    OBVIOUS
  <2>1. PICK k \in Bad : \A m \in Bad : k <= m
    <3> HIDE DEF Bad
    <3>1. QED
      BY <2>0, SmallestNumber
  <2>2. k \in 1..n /\ k - 1 \in 0..n
    BY <1>1, <2>1
  <2>3. k - 1 \notin Bad
    BY <2>1, <2>2
  <2>4. QED
    BY <1>2, <2>1, <2>2, <2>3
<1>4. Holds(n)
  BY <1>3
<1>5. QED
  BY <1>4 DEF Holds

-----------------------------------------------------------------------------
(* The options of a Tailorfile.                                             *)

LEMMA ConcatNotEmpty ==
  ASSUME NEW S, NEW x \in Seq(S), NEW y \in Seq(S), y # <<>>
  PROVE  x \o y # <<>>
<1>1. Len(y) \in Nat \ {0} /\ Len(x) \in Nat
  BY EmptySeq, LenProperties
<1>2. Len(x \o y) # 0
  BY <1>1, ConcatProperties
<1>3. QED
  BY <1>2, EmptySeq

(* Every option of a Tailorfile has the words of its lines, one or more; those *)
(* of the option "resource" are words of a resource.                           *)
LEMMA FileFlagsType ==
  ASSUME NEW Word, NEW ResourceWord, NEW lines, IsList(lines),
         \A i \in DOMAIN lines :
           /\ lines[i].value \in Seq(Word) /\ lines[i].value # <<>>
           /\ lines[i].key \in {"", "resource"} => lines[i].value \in Seq(ResourceWord)
  PROVE  \A o \in DOMAIN FileFlags(lines) :
           /\ FileFlags(lines)[o] \in Seq(Word) /\ FileFlags(lines)[o] # <<>>
           /\ o = "resource" => FileFlags(lines)[o] \in Seq(ResourceWord)
<1> DEFINE n == Len(lines)
           Option == {lines[i].key : i \in 1..n} \cup {"resource"}
           Good(a) == \A o \in DOMAIN a :
                        /\ a[o] \in Seq(Word) /\ a[o] # <<>>
                        /\ o = "resource" => a[o] \in Seq(ResourceWord)
           Accumulators == {a \in UNION {[K -> Seq(Word)] : K \in SUBSET Option} : Good(a)}
           step == [i \in 1..n |-> [a \in Accumulators |-> AddLine(a, lines[i])]]
<1>1. n \in Nat /\ DOMAIN lines = 1..n
  BY DEF IsList
<1>2. \A K \in SUBSET Option : \A a \in [K -> Seq(Word)] : Good(a) => a \in Accumulators
  OBVIOUS
<1>3. NoFile \in Accumulators
  <2>1. NoFile \in [{} -> Seq(Word)] /\ {} \in SUBSET Option /\ Good(NoFile)
    BY DEF NoFile
  <2> HIDE DEF Accumulators, Good, Option
  <2>2. QED
    BY <1>2, <2>1
<1>4. ASSUME NEW a \in Accumulators, NEW i \in 1..n
      PROVE  AddLine(a, lines[i]) \in Accumulators
  <2>1. PICK K \in SUBSET Option : a \in [K -> Seq(Word)] /\ Good(a)
    OBVIOUS
  <2>2. ASSUME NEW o \in Option, NEW value \in Seq(Word), value # <<>>,
               o = "resource" => value \in Seq(ResourceWord)
        PROVE  With(a, o, value) \in Accumulators
    <3>1. With(a, o, value) \in [K \cup {o} -> Seq(Word)] /\ K \cup {o} \in SUBSET Option
      BY <2>1 DEF With
    <3>2. Good(With(a, o, value))
      BY <2>1, <2>2 DEF With
    <3> HIDE DEF Accumulators, Good, Option
    <3>3. QED
      BY <1>2, <3>1, <3>2
  <2>3. /\ lines[i].value \in Seq(Word) /\ lines[i].value # <<>> /\ lines[i].key \in Option
        /\ lines[i].key \in {"", "resource"} => lines[i].value \in Seq(ResourceWord)
    BY <1>1
  <2>4. CASE lines[i].key = ""
    BY <2>2, <2>3, <2>4 DEF AddLine
  <2>5. CASE lines[i].key # "" /\ lines[i].key \notin DOMAIN a
    BY <2>2, <2>3, <2>5 DEF AddLine
  <2>6. CASE lines[i].key # "" /\ lines[i].key \in DOMAIN a
    <3> DEFINE key == lines[i].key
               value == a[key] \o lines[i].value
    <3>0. a[key] \in Seq(Word) /\ (key = "resource" => a[key] \in Seq(ResourceWord))
      BY <2>1, <2>6
    <3>1. value \in Seq(Word) /\ value # <<>>
      <4>1. a[key] \in Seq(Word) /\ lines[i].value \in Seq(Word) /\ lines[i].value # <<>>
        BY <2>3, <3>0
      <4>2. value \in Seq(Word)
        BY <4>1, ConcatProperties
      <4>3. value # <<>>
        BY <4>1, ConcatNotEmpty
      <4>4. QED
        BY <4>2, <4>3
    <3>2. ASSUME key = "resource" PROVE value \in Seq(ResourceWord)
      <4>1. a[key] \in Seq(ResourceWord) /\ lines[i].value \in Seq(ResourceWord)
        BY <2>3, <3>0, <3>2
      <4>2. QED
        BY <4>1, ConcatProperties
    <3>3. AddLine(a, lines[i]) = With(a, key, value)
      BY <2>6 DEF AddLine
    <3> HIDE DEF value, Accumulators
    <3>4. QED
      BY <2>2, <2>3, <3>1, <3>2, <3>3
  <2>7. QED
    BY <2>4, <2>5, <2>6
<1> DEFINE iter == CHOOSE g : g = [s \in SUBSET (1..n) |->
                      IF s = {} THEN NoFile
                      ELSE AddLine(g[s \ {Max(s)}], lines[Max(s)])]
<1>5. FileFlags(lines) = iter[1..n]
  BY <1>1 DEF FileFlags, FoldLeft, MapThenFoldSet
<1>6. iter = [s \in SUBSET (1..n) |->
                IF s = {} THEN NoFile ELSE AddLine(iter[s \ {Max(s)}], lines[Max(s)])]
  <2>1. step \in [1..n -> [Accumulators -> Accumulators]]
    BY <1>4
  <2> HIDE DEF Accumulators
  <2>2. PICK g : IsFold(g, Accumulators, NoFile, n, step)
    <3> HIDE DEF step, n
    <3>1. QED
      BY <1>1, <1>3, <2>1, FoldExists
  <2>3. ASSUME NEW s \in SUBSET (1..n), s # {}
        PROVE  step[Max(s)][g[s \ {Max(s)}]] = AddLine(g[s \ {Max(s)}], lines[Max(s)])
    <3>1. Max(s) \in 1..n
      BY <1>1, <2>3, WithoutMax
    <3>2. s \ {Max(s)} \in SUBSET (1..n)
      OBVIOUS
    <3>3. QED
      BY <2>2, <3>1, <3>2 DEF IsFold
  <2>4. g = [s \in SUBSET (1..n) |->
               IF s = {} THEN NoFile ELSE AddLine(g[s \ {Max(s)}], lines[Max(s)])]
    <3> HIDE DEF step
    <3>1. QED
      BY <2>2, <2>3 DEF IsFold
  <2>5. QED
    BY <2>4
<1> HIDE DEF iter
<1>7. iter[{}] \in Accumulators
  BY <1>3, <1>6
<1>8. ASSUME NEW s \in SUBSET (1..n), s # {}, iter[s \ {Max(s)}] \in Accumulators
      PROVE  iter[s] \in Accumulators
  <2>1. Max(s) \in 1..n
    BY <1>1, <1>8, WithoutMax
  <2>2. iter[s] = AddLine(iter[s \ {Max(s)}], lines[Max(s)])
    BY <1>6, <1>8
  <2> HIDE DEF Accumulators
  <2>3. QED
    BY <1>4, <1>8, <2>1, <2>2
<1>9. iter[1..n] \in Accumulators
  <2> HIDE DEF Accumulators
  <2>1. \A s \in SUBSET (1..n) : iter[s] \in Accumulators
    BY <1>1, <1>7, <1>8, FoldInduction
  <2>2. QED
    BY <2>1
<1>10. QED
  BY <1>5, <1>9

-----------------------------------------------------------------------------
(* The params of flags and Tailorfile.                                      *)

LEMMA SetToSeqType ==
  ASSUME NEW S, IsFiniteSet(S)
  PROVE  SetToSeq(S) \in Seq(S)
<1>1. Cardinality(S) \in Nat /\ ExistsBijection(1..Cardinality(S), S)
  BY FS_CardinalityType
<1>2. \E f \in [1..Cardinality(S) -> S] : IsInjective(f)
  BY <1>1 DEF ExistsBijection, Bijection, Injection
<1>3. SetToSeq(S) \in [1..Cardinality(S) -> S]
  BY <1>2 DEF SetToSeq
<1>4. QED
  BY <1>1, <1>3

(* A key of the Tailorfile, and what MergedParams does with a param of a flag. *)
MergedParam(flagParams, fileParams, key) ==
  [key |-> key, value |-> IF key \in Keys(flagParams) THEN FirstOf(flagParams, key)
                          ELSE LastOf(fileParams, key)]

Merged(flagParams, fileParams) ==
  {MergedParam(flagParams, fileParams, key) : key \in Keys(fileParams)}

AddedIfNew(fileParams, params, param) ==
  IF param.key \in Keys(fileParams) THEN params ELSE Append(params, param)

LEMMA MergedIsFinite ==
  ASSUME NEW Word, NEW flagParams, NEW fileParams \in Seq(Word)
  PROVE  IsFiniteSet(Merged(flagParams, fileParams))
<1> DEFINE merged == Merged(flagParams, fileParams)
           image == [i \in DOMAIN fileParams |->
                       MergedParam(flagParams, fileParams, fileParams[i].key)]
<1>1. IsFiniteSet(DOMAIN fileParams)
  BY LenProperties, FS_Interval
<1>2. image \in Surjection(DOMAIN fileParams, merged)
  BY DEF Surjection, Keys, Merged
<1> HIDE DEF merged, image
<1>3. IsFiniteSet(merged)
  BY <1>1, <1>2, FS_Surjection
<1>4. QED
  BY <1>3 DEF merged

\* iter has the params after the flags with the indices of a set are added.
AddsFlags(iter, Param, flagParams, fileParams) ==
  /\ iter \in [SUBSET (1..Len(flagParams)) -> Seq(Param)]
  /\ MergedParams(flagParams, fileParams) = iter[1..Len(flagParams)]
  /\ iter[{}] = SetToSeq(Merged(flagParams, fileParams))
  /\ \A s \in SUBSET (1..Len(flagParams)) : s # {} =>
       iter[s] = AddedIfNew(fileParams, iter[s \ {Max(s)}], flagParams[Max(s)])

(* MergedParams adds one flag after the other to the params of the Tailorfile. *)
LEMMA MergedParamsFold ==
  ASSUME NEW Word, NEW flagParams \in Seq(Word), flagParams # <<>>,
         NEW fileParams \in Seq(Word)
  PROVE  \E Param, iter : AddsFlags(iter, Param, flagParams, fileParams)
<1> DEFINE n == Len(flagParams)
           merged == Merged(flagParams, fileParams)
           Param == Word \cup merged
           add(params, param) == AddedIfNew(fileParams, params, param)
           step == [i \in 1..n |-> [a \in Seq(Param) |-> add(a, flagParams[i])]]
           iter == CHOOSE g : g = [s \in SUBSET (1..n) |->
                      IF s = {} THEN SetToSeq(merged)
                      ELSE add(g[s \ {Max(s)}], flagParams[Max(s)])]
<1>1. n \in Nat /\ DOMAIN flagParams = 1..n /\ \A i \in 1..n : flagParams[i] \in Word
  BY LenProperties
<1>2. SetToSeq(merged) \in Seq(Param)
  <2>1. IsFiniteSet(merged)
    BY MergedIsFinite
  <2> HIDE DEF merged
  <2>2. SetToSeq(merged) \in Seq(merged)
    BY <2>1, SetToSeqType
  <2>3. QED
    BY <2>2
<1>3. MergedParams(flagParams, fileParams) = iter[1..n]
  BY <1>1 DEF MergedParams, FoldLeft, MapThenFoldSet, Merged, MergedParam, AddedIfNew
<1> HIDE DEF merged
<1>4. ASSUME NEW a \in Seq(Param), NEW i \in 1..n
      PROVE  add(a, flagParams[i]) \in Seq(Param)
  BY <1>1 DEF AddedIfNew
<1> HIDE DEF Param
<1>5. iter = [s \in SUBSET (1..n) |->
                IF s = {} THEN SetToSeq(merged)
                ELSE add(iter[s \ {Max(s)}], flagParams[Max(s)])]
  <2>1. step \in [1..n -> [Seq(Param) -> Seq(Param)]]
    BY <1>4
  <2>2. PICK g : IsFold(g, Seq(Param), SetToSeq(merged), n, step)
    <3> HIDE DEF step, n
    <3>1. QED
      BY <1>1, <1>2, <2>1, FoldExists
  <2>3. ASSUME NEW s \in SUBSET (1..n), s # {}
        PROVE  step[Max(s)][g[s \ {Max(s)}]] = add(g[s \ {Max(s)}], flagParams[Max(s)])
    <3>1. Max(s) \in 1..n
      BY <1>1, <2>3, WithoutMax
    <3>2. s \ {Max(s)} \in SUBSET (1..n)
      OBVIOUS
    <3>3. QED
      BY <2>2, <3>1, <3>2 DEF IsFold
  <2>4. g = [s \in SUBSET (1..n) |->
               IF s = {} THEN SetToSeq(merged)
               ELSE add(g[s \ {Max(s)}], flagParams[Max(s)])]
    <3> HIDE DEF step, add
    <3>1. QED
      BY <2>2, <2>3 DEF IsFold
  <2>5. QED
    BY <2>4
<1> HIDE DEF iter
<1>6. iter[{}] = SetToSeq(merged)
  BY <1>5
<1>7. ASSUME NEW s \in SUBSET (1..n), s # {}
      PROVE  iter[s] = add(iter[s \ {Max(s)}], flagParams[Max(s)])
  BY <1>5, <1>7
<1>8. ASSUME NEW s \in SUBSET (1..n), s # {}, iter[s \ {Max(s)}] \in Seq(Param)
      PROVE  iter[s] \in Seq(Param)
  <2>1. Max(s) \in 1..n
    BY <1>1, <1>8, WithoutMax
  <2> HIDE DEF add
  <2>2. QED
    BY <1>4, <1>7, <1>8, <2>1
<1>9. \A s \in SUBSET (1..n) : iter[s] \in Seq(Param)
  <2> DEFINE Accumulators == Seq(Param)
  <2>1. iter[{}] \in Accumulators
    BY <1>2, <1>6
  <2>2. \A s \in SUBSET (1..n) :
          s # {} /\ iter[s \ {Max(s)}] \in Accumulators => iter[s] \in Accumulators
    BY <1>8
  <2> HIDE DEF Accumulators, n
  <2>3. \A s \in SUBSET (1..n) : iter[s] \in Accumulators
    BY <1>1, <2>1, <2>2, FoldInduction
  <2>4. QED
    BY <2>3 DEF Accumulators
<1>10. iter \in [SUBSET (1..n) -> Seq(Param)]
  <2> HIDE DEF add, n
  <2>1. DOMAIN iter = SUBSET (1..n) /\ iter = [s \in SUBSET (1..n) |-> iter[s]]
    BY <1>5
  <2>2. QED
    BY <1>9, <2>1
<1>11. AddsFlags(iter, Param, flagParams, fileParams)
  BY <1>3, <1>6, <1>7, <1>10 DEF AddsFlags, merged
<1>12. QED
  BY <1>11

(* What is put together from flags and Tailorfile is a list again.            *)
LEMMA MergedParamsType ==
  ASSUME NEW Word, NEW flagParams \in Seq(Word), NEW fileParams \in Seq(Word)
  PROVE  \E Param : MergedParams(flagParams, fileParams) \in Seq(Param)
<1>1. CASE flagParams = <<>>
  BY <1>1 DEF MergedParams
<1>2. CASE flagParams # <<>>
  <2>1. PICK Param, iter : AddsFlags(iter, Param, flagParams, fileParams)
    BY <1>2, MergedParamsFold
  <2>2. 1..Len(flagParams) \in SUBSET (1..Len(flagParams))
    OBVIOUS
  <2>3. MergedParams(flagParams, fileParams) \in Seq(Param)
    BY <2>1, <2>2 DEF AddsFlags
  <2>4. QED
    BY <2>3
<1>3. QED
  BY <1>1, <1>2

(* Every set of indices can be reached by adding larger and larger ones.      *)
LEMMA IndexInduction ==
  ASSUME NEW n \in Nat, NEW Good, {} \in Good,
         \A s \in SUBSET (1..n) : s # {} /\ s \ {Max(s)} \in Good => s \in Good
  PROVE  1..n \in Good
<1> DEFINE g == [s \in SUBSET (1..n) |-> s]
<1>1. g[{}] \in Good
  OBVIOUS
<1>2. \A s \in SUBSET (1..n) : s # {} /\ g[s \ {Max(s)}] \in Good => g[s] \in Good
  <2>1. \A s \in SUBSET (1..n) : g[s] = s /\ g[s \ {Max(s)}] = s \ {Max(s)}
    OBVIOUS
  <2>2. QED
    BY <2>1
<1> HIDE DEF g
<1>3. \A s \in SUBSET (1..n) : g[s] \in Good
  BY <1>1, <1>2, FoldInduction
<1>4. QED
  BY <1>3 DEF g

=============================================================================
