---------------------------- MODULE ParamProofs ----------------------------
(***************************************************************************)
(* Which value of a param `oc process` sees: that of the most specific     *)
(* place that sets it, for flags, Tailorfiles and param files of any       *)
(* length.                                                                 *)
(***************************************************************************)
EXTENDS InvocationProofs

-----------------------------------------------------------------------------
(* The last value of a key.                                                 *)

LastAt(params, key, i) ==
  /\ i \in DOMAIN params /\ params[i].key = key
  /\ \A j \in DOMAIN params : params[j].key = key => j <= i

\* Whoever reads params from the first to the last ends with this value.
Sees(params, key, value) == \E i : LastAt(params, key, i) /\ params[i].value = value

LEMMA ListDomain ==
  ASSUME NEW params, IsList(params)
  PROVE  Len(params) \in Nat /\ DOMAIN params = 1..Len(params)
<1>1. params \in Seq(Words(params))
  BY ListOfWords
<1>2. QED
  BY <1>1, LenProperties

LEMMA LastExists ==
  ASSUME NEW params, IsList(params), NEW key \in Keys(params)
  PROVE  \E i : LastAt(params, key, i)
<1> DEFINE those == {i \in DOMAIN params : params[i].key = key}
<1>1. Len(params) \in Nat /\ DOMAIN params = 1..Len(params)
  BY ListDomain
<1>2. those \in SUBSET (1..Len(params)) /\ those # {}
  BY <1>1 DEF Keys
<1> HIDE DEF those
<1>3. Max(those) \in those /\ \A i \in those : i <= Max(those)
  BY <1>1, <1>2, MaxIsLargest
<1>4. QED
  BY <1>3 DEF those, LastAt

LEMMA LastUnique ==
  ASSUME NEW params, IsList(params), NEW key, NEW i, LastAt(params, key, i)
  PROVE  LastOf(params, key) = params[i].value /\ LastLine(params, key) = params[i]
<1>1. Len(params) \in Nat /\ DOMAIN params = 1..Len(params)
  BY ListDomain
<1>2. \A j : j \in DOMAIN params /\ params[j].key = key
             /\ (\A k \in DOMAIN params : params[k].key = key => k <= j) <=> j = i
  BY <1>1 DEF LastAt
<1>3. QED
  BY <1>2 DEF LastOf, LastLine

LEMMA SeesLast ==
  ASSUME NEW params, IsList(params), NEW key
  PROVE  /\ key \in Keys(params) => Sees(params, key, LastOf(params, key))
         /\ \A value : Sees(params, key, value) =>
              key \in Keys(params) /\ LastOf(params, key) = value
<1>1. ASSUME key \in Keys(params) PROVE Sees(params, key, LastOf(params, key))
  <2>1. PICK i : LastAt(params, key, i)
    BY <1>1, LastExists
  <2>2. QED
    BY <2>1, LastUnique DEF Sees
<1>2. ASSUME NEW value, Sees(params, key, value)
      PROVE  key \in Keys(params) /\ LastOf(params, key) = value
  <2>1. PICK i : LastAt(params, key, i) /\ params[i].value = value
    BY <1>2 DEF Sees
  <2>2. key \in Keys(params)
    BY <2>1 DEF LastAt, Keys
  <2>3. QED
    BY <2>1, <2>2, LastUnique
<1>3. QED
  BY <1>1, <1>2

LEMMA Concatenation ==
  ASSUME NEW x, IsList(x), NEW y, IsList(y), NEW key
  PROVE  /\ IsList(x \o y)
         /\ Keys(x \o y) = Keys(x) \cup Keys(y)
         /\ \A value : Sees(y, key, value) => Sees(x \o y, key, value)
         /\ key \notin Keys(y) =>
              \A value : Sees(x, key, value) => Sees(x \o y, key, value)
<1> DEFINE all == x \o y
           n == Len(x)
           m == Len(y)
<1>1. /\ n \in Nat /\ DOMAIN x = 1..n
      /\ m \in Nat /\ DOMAIN y = 1..m
  BY ListDomain
<1>2. PICK S : x \in Seq(S) /\ y \in Seq(S)
  <2>1. x \in Seq(Words(x) \cup Words(y))
    BY ListOfWords, MoreWords
  <2>2. y \in Seq(Words(x) \cup Words(y))
    BY ListOfWords, MoreWords
  <2>3. QED
    BY <2>1, <2>2
<1>3. /\ all \in Seq(S) /\ DOMAIN all = 1..(n + m)
      /\ \A i \in 1..n : all[i] = x[i]
      /\ \A i \in 1..m : all[n + i] = y[i]
  BY <1>1, <1>2, ConcatProperties, LenProperties
<1>4. \A i \in 1..(n + m) : i \in 1..n \/ (i - n \in 1..m /\ all[i] = y[i - n])
  <2>1. ASSUME NEW i \in 1..(n + m), i \notin 1..n PROVE i - n \in 1..m /\ all[i] = y[i - n]
    <3>1. i - n \in 1..m /\ n + (i - n) = i
      BY <1>1, <2>1
    <3> HIDE DEF all, n, m
    <3>2. all[n + (i - n)] = y[i - n]
      BY <1>3, <3>1
    <3>3. QED
      BY <3>1, <3>2
  <2>2. QED
    BY <2>1
<1>5. \A i \in 1..m : n + i \in 1..(n + m)
  BY <1>1
<1>6. \A i \in 1..n : i \in 1..(n + m)
  BY <1>1
<1>7. IsList(all)
  BY <1>3, SeqIsList
<1> HIDE DEF all, n, m
<1>8. Keys(all) = Keys(x) \cup Keys(y)
  <2>1. Keys(all) \subseteq Keys(x) \cup Keys(y)
    BY <1>1, <1>3, <1>4 DEF Keys
  <2>2. Keys(x) \subseteq Keys(all)
    BY <1>1, <1>3, <1>6 DEF Keys
  <2>3. Keys(y) \subseteq Keys(all)
    BY <1>1, <1>3, <1>5 DEF Keys
  <2>4. QED
    BY <2>1, <2>2, <2>3
<1>9. ASSUME NEW value, Sees(y, key, value) PROVE Sees(all, key, value)
  <2>1. PICK i \in 1..m : LastAt(y, key, i) /\ y[i].value = value
    BY <1>1, <1>9 DEF Sees, LastAt
  <2>2. n + i \in 1..(n + m) /\ all[n + i] = y[i]
    BY <1>3, <1>5
  <2>3. ASSUME NEW j \in 1..(n + m), all[j].key = key PROVE j <= n + i
    <3>1. CASE j \in 1..n
      BY <1>1, <3>1
    <3>2. CASE j - n \in 1..m /\ all[j] = y[j - n]
      <4>1. j - n <= i
        BY <1>1, <2>1, <2>3, <3>2 DEF LastAt
      <4>2. QED
        BY <1>1, <4>1
    <3>3. QED
      BY <1>4, <3>1, <3>2
  <2>4. LastAt(all, key, n + i)
    BY <1>3, <2>1, <2>2, <2>3 DEF LastAt
  <2>5. QED
    BY <2>1, <2>2, <2>4 DEF Sees
<1>10. ASSUME key \notin Keys(y), NEW value, Sees(x, key, value) PROVE Sees(all, key, value)
  <2>1. PICK i \in 1..n : LastAt(x, key, i) /\ x[i].value = value
    BY <1>1, <1>10 DEF Sees, LastAt
  <2>2. ASSUME NEW j \in 1..(n + m), all[j].key = key PROVE j <= i
    <3>1. j \in 1..n
      BY <1>1, <1>4, <1>10, <2>2 DEF Keys
    <3>2. QED
      BY <1>1, <1>3, <2>1, <2>2, <3>1 DEF LastAt
  <2>3. LastAt(all, key, i)
    BY <1>3, <1>6, <2>1, <2>2 DEF LastAt
  <2>4. QED
    BY <1>3, <2>1, <2>3 DEF Sees
<1>11. QED
  BY <1>7, <1>8, <1>9, <1>10 DEF all

LEMMA Appending ==
  ASSUME NEW x, IsList(x), NEW param, NEW key
  PROVE  /\ IsList(Append(x, param))
         /\ Keys(Append(x, param)) = Keys(x) \cup {param.key}
         /\ param.key = key => Sees(Append(x, param), key, param.value)
         /\ param.key # key =>
              \A value : Sees(x, key, value) => Sees(Append(x, param), key, value)
<1> DEFINE one == <<param>>
<1>1. IsList(one) /\ one[1] = param /\ DOMAIN one = {1}
  <2>1. one \in Seq({param}) /\ one[1] = param /\ DOMAIN one = {1}
    OBVIOUS
  <2> HIDE DEF one
  <2>2. QED
    BY <2>1, SeqIsList
<1>2. Keys(one) = {param.key}
  BY <1>1 DEF Keys
<1>3. Sees(one, param.key, param.value)
  BY <1>1 DEF Sees, LastAt
<1>4. Append(x, param) = x \o one
  <2>1. x \in Seq(Words(x) \cup {param}) /\ param \in Words(x) \cup {param}
    BY ListOfWords, MoreWords
  <2>2. QED
    BY <2>1, AppendIsConcat
<1> HIDE DEF one
<1>5. /\ IsList(x \o one)
      /\ Keys(x \o one) = Keys(x) \cup Keys(one)
      /\ \A value : Sees(one, key, value) => Sees(x \o one, key, value)
      /\ key \notin Keys(one) =>
           \A value : Sees(x, key, value) => Sees(x \o one, key, value)
  BY <1>1, Concatenation
<1>6. QED
  BY <1>2, <1>3, <1>4, <1>5

-----------------------------------------------------------------------------
(* The params of flags and Tailorfile.                                      *)

LEMMA SetToSeqElements ==
  ASSUME NEW S, IsFiniteSet(S)
  PROVE  /\ \A i \in DOMAIN SetToSeq(S) : SetToSeq(S)[i] \in S
         /\ \A x \in S : \E i \in DOMAIN SetToSeq(S) : SetToSeq(S)[i] = x
<1> DEFINE n == Cardinality(S)
<1>1. n \in Nat /\ ExistsBijection(1..n, S)
  BY FS_CardinalityType
<1>2. \E f \in [1..n -> S] : IsInjective(f)
  BY <1>1 DEF ExistsBijection, Bijection, Injection
<1>3. SetToSeq(S) \in Injection(1..n, S)
  BY <1>2 DEF SetToSeq, Injection
<1>4. Cardinality(1..n) = Cardinality(S)
  BY <1>1, FS_Interval
<1>5. SetToSeq(S) \in Surjection(1..n, S)
  <2> HIDE DEF n
  <2>1. QED
    BY <1>3, <1>4, FS_Injection
<1> HIDE DEF n
<1>6. QED
  BY <1>3, <1>5 DEF Surjection

(* The params of the Tailorfile, with the values of the flags in their place. *)
LEMMA MergedSees ==
  ASSUME NEW flagParams, IsList(flagParams), NEW fileParams, IsList(fileParams), NEW key
  PROVE  LET first == SetToSeq(Merged(flagParams, fileParams))
         IN  /\ IsList(first)
             /\ key \in Keys(fileParams) =>
                  Sees(first, key, MergedParam(flagParams, fileParams, key).value)
             /\ key \notin Keys(fileParams) => key \notin Keys(first)
<1> DEFINE merged == Merged(flagParams, fileParams)
           first == SetToSeq(merged)
<1>1. IsFiniteSet(merged)
  BY ListOfWords, MergedIsFinite
<1>2. IsList(first)
  <2> HIDE DEF merged
  <2>1. first \in Seq(merged)
    BY <1>1, SetToSeqType
  <2>2. QED
    BY <2>1, SeqIsList
<1>3. /\ \A i \in DOMAIN first : first[i] \in merged
      /\ \A x \in merged : \E i \in DOMAIN first : first[i] = x
  BY <1>1, SetToSeqElements
<1> HIDE DEF first
<1>4. \A i \in DOMAIN first :
        /\ first[i].key \in Keys(fileParams)
        /\ first[i] = MergedParam(flagParams, fileParams, first[i].key)
  BY <1>3 DEF Merged, MergedParam
<1>5. ASSUME key \in Keys(fileParams)
      PROVE  Sees(first, key, MergedParam(flagParams, fileParams, key).value)
  <2>1. PICK i \in DOMAIN first : first[i] = MergedParam(flagParams, fileParams, key)
    BY <1>3, <1>5 DEF Merged
  <2>2. key \in Keys(first)
    BY <2>1 DEF Keys, MergedParam
  <2>3. PICK j : LastAt(first, key, j)
    BY <1>2, <2>2, LastExists
  <2>4. first[j] = MergedParam(flagParams, fileParams, key)
    BY <1>4, <2>3 DEF LastAt
  <2>5. QED
    BY <2>3, <2>4 DEF Sees
<1>6. key \notin Keys(fileParams) => key \notin Keys(first)
  BY <1>4 DEF Keys
<1>7. QED
  BY <1>2, <1>5, <1>6 DEF first

(* A param has the value of the first flag that sets it if the Tailorfile has *)
(* it too, that of the last such flag if not, and the last one of the         *)
(* Tailorfile if there is no such flag.                                       *)
LEMMA MergedParamsValue ==
  ASSUME NEW flagParams, IsList(flagParams), NEW fileParams, IsList(fileParams), NEW key
  PROVE  LET params == MergedParams(flagParams, fileParams)
         IN  /\ IsList(params)
             /\ key \in Keys(params) <=> key \in Keys(flagParams) \cup Keys(fileParams)
             /\ key \in Keys(params) =>
                  LastOf(params, key) =
                    IF key \notin Keys(flagParams) THEN LastOf(fileParams, key)
                    ELSE IF key \in Keys(fileParams) THEN FirstOf(flagParams, key)
                    ELSE LastOf(flagParams, key)
<1> DEFINE params == MergedParams(flagParams, fileParams)
           n == Len(flagParams)
<1>1. n \in Nat /\ DOMAIN flagParams = 1..n
  BY ListDomain
<1>2. CASE flagParams = <<>>
  <2>1. Keys(flagParams) = {}
    BY <1>2 DEF Keys
  <2>2. params = fileParams
    BY <1>2 DEF MergedParams
  <2>3. QED
    BY <2>1, <2>2
<1>3. CASE flagParams # <<>>
  <2>1. PICK Word : flagParams \in Seq(Word) /\ fileParams \in Seq(Word)
    <3>1. flagParams \in Seq(Words(flagParams) \cup Words(fileParams))
      BY ListOfWords, MoreWords
    <3>2. fileParams \in Seq(Words(flagParams) \cup Words(fileParams))
      BY ListOfWords, MoreWords
    <3>3. QED
      BY <3>1, <3>2
  <2>2. PICK Param, iter : AddsFlags(iter, Param, flagParams, fileParams)
    BY <1>3, <2>1, MergedParamsFold
  <2>3. /\ iter \in [SUBSET (1..n) -> Seq(Param)]
        /\ params = iter[1..n]
        /\ iter[{}] = SetToSeq(Merged(flagParams, fileParams))
        /\ \A s \in SUBSET (1..n) : s # {} =>
             iter[s] = AddedIfNew(fileParams, iter[s \ {Max(s)}], flagParams[Max(s)])
    BY <2>2 DEF AddsFlags
  <2> HIDE DEF params, n
  <2>4. \A s \in SUBSET (1..n) : IsList(iter[s])
    BY <2>3, SeqIsList
  <2>5. ASSUME NEW s \in SUBSET (1..n), s # {}
        PROVE  /\ Max(s) \in s /\ Max(s) \in 1..n /\ \A i \in s : i \in 1..n /\ i <= Max(s)
               /\ s \ {Max(s)} \in SUBSET (1..n)
    BY <1>1, <2>5, MaxIsLargest
  <2>6. ASSUME key \in Keys(fileParams)
        PROVE  Sees(params, key, MergedParam(flagParams, fileParams, key).value)
    <3> DEFINE value == MergedParam(flagParams, fileParams, key).value
               Good == {s \in SUBSET (1..n) : Sees(iter[s], key, value)}
    <3>1. {} \in Good
      BY <2>3, <2>6, MergedSees
    <3>2. ASSUME NEW s \in SUBSET (1..n), s # {}, s \ {Max(s)} \in Good PROVE s \in Good
      <4> DEFINE before == iter[s \ {Max(s)}]
                 param == flagParams[Max(s)]
      <4>1. iter[s] = AddedIfNew(fileParams, before, param)
        BY <2>3, <3>2
      <4>2. IsList(before) /\ Sees(before, key, value)
        BY <2>4, <2>5, <3>2
      <4> HIDE DEF before, param, value
      <4>3. CASE param.key \in Keys(fileParams)
        BY <4>1, <4>2, <4>3 DEF AddedIfNew
      <4>4. CASE param.key \notin Keys(fileParams)
        <5>1. param.key # key /\ iter[s] = Append(before, param)
          BY <2>6, <4>1, <4>4 DEF AddedIfNew
        <5>2. Sees(iter[s], key, value)
          BY <4>2, <5>1, Appending
        <5>3. QED
          BY <5>2
      <4>5. QED
        BY <4>3, <4>4
    <3> HIDE DEF Good, value
    <3>3. 1..n \in Good
      BY <1>1, <3>1, <3>2, IndexInduction
    <3>4. QED
      BY <2>3, <3>3 DEF Good, value
  <2>7. ASSUME key \notin Keys(fileParams)
        PROVE  \/ key \notin Keys(flagParams) /\ key \notin Keys(params)
               \/ key \in Keys(flagParams) /\ Sees(params, key, LastOf(flagParams, key))
    <3> DEFINE Latest(s, i) == /\ i \in s /\ flagParams[i].key = key
                               /\ \A j \in s : flagParams[j].key = key => j <= i
               Unset(s) == key \notin Keys(iter[s]) /\ \A i \in s : flagParams[i].key # key
               Some(s) == \E i : Latest(s, i) /\ Sees(iter[s], key, flagParams[i].value)
               Good == {s \in SUBSET (1..n) : Unset(s) \/ Some(s)}
    <3>1. {} \in Good
      BY <2>3, <2>7, MergedSees
    <3>2. ASSUME NEW s \in SUBSET (1..n), s # {}, s \ {Max(s)} \in Good PROVE s \in Good
      <4> DEFINE before == iter[s \ {Max(s)}]
                 param == flagParams[Max(s)]
      <4>1. iter[s] = AddedIfNew(fileParams, before, param)
        BY <2>3, <3>2
      <4>2. IsList(before)
        BY <2>4, <2>5, <3>2
      <4>3. Unset(s \ {Max(s)}) \/ Some(s \ {Max(s)})
        BY <3>2
      <4> HIDE DEF before
      <4>4. CASE param.key = key
        <5>1. iter[s] = Append(before, param)
          BY <2>7, <4>1, <4>4 DEF AddedIfNew
        <5> HIDE DEF param
        <5>2. Sees(iter[s], key, param.value)
          BY <4>2, <4>4, <5>1, Appending
        <5> USE DEF param
        <5>3. Latest(s, Max(s))
          BY <2>5, <3>2, <4>4
        <5> HIDE DEF Latest
        <5>4. Some(s)
          BY <5>2, <5>3
        <5>5. QED
          BY <5>4
      <4>5. CASE param.key # key
        <5>1. /\ key \notin Keys(before) => key \notin Keys(iter[s])
              /\ \A value : Sees(before, key, value) => Sees(iter[s], key, value)
          <6> HIDE DEF param
          <6>1. CASE param.key \in Keys(fileParams)
            BY <4>1, <6>1 DEF AddedIfNew
          <6>2. CASE param.key \notin Keys(fileParams)
            <7>1. iter[s] = Append(before, param)
              BY <4>1, <6>2 DEF AddedIfNew
            <7>2. QED
              BY <4>2, <4>5, <7>1, Appending
          <6>3. QED
            BY <6>1, <6>2
        <5>2. CASE Unset(s \ {Max(s)})
          <6>1. Unset(s)
            BY <4>5, <5>1, <5>2 DEF before
          <6>2. QED
            BY <6>1
        <5>3. CASE Some(s \ {Max(s)})
          <6>1. PICK i : /\ Latest(s \ {Max(s)}, i)
                         /\ Sees(before, key, flagParams[i].value)
            <7> HIDE DEF Latest
            <7>1. QED
              BY <5>3 DEF before
          <6>2. Latest(s, i)
            BY <4>5, <6>1
          <6> HIDE DEF Latest
          <6>3. Some(s)
            BY <5>1, <6>1, <6>2
          <6>4. QED
            BY <6>3
        <5>4. QED
          BY <4>3, <5>2, <5>3
      <4>6. QED
        BY <4>4, <4>5
    <3>3. 1..n \in Good
      <4> HIDE DEF Good
      <4>1. QED
        BY <1>1, <3>1, <3>2, IndexInduction
    <3>4. Unset(1..n) \/ Some(1..n)
      BY <3>3
    <3>5. CASE Unset(1..n)
      <4>1. key \notin Keys(flagParams) /\ key \notin Keys(params)
        BY <1>1, <2>3, <3>5 DEF Keys
      <4>2. QED
        BY <4>1
    <3>6. CASE Some(1..n)
      <4>1. PICK i : Latest(1..n, i) /\ Sees(params, key, flagParams[i].value)
        BY <2>3, <3>6
      <4>2. LastAt(flagParams, key, i)
        BY <1>1, <4>1 DEF LastAt
      <4>3. key \in Keys(flagParams)
        BY <4>2 DEF LastAt, Keys
      <4>4. LastOf(flagParams, key) = flagParams[i].value
        BY <4>2, LastUnique
      <4>5. QED
        BY <4>1, <4>3, <4>4
    <3>7. QED
      BY <3>4, <3>5, <3>6
  <2>8. IsList(params)
    BY <2>3, <2>4
  <2>9. CASE key \in Keys(fileParams)
    <3>1. key \in Keys(params) /\ LastOf(params, key) = MergedParam(flagParams, fileParams, key).value
      BY <2>6, <2>8, <2>9, SeesLast
    <3>2. QED
      BY <2>8, <2>9, <3>1 DEF MergedParam, params
  <2>10. CASE key \notin Keys(fileParams)
    <3>1. \/ key \notin Keys(flagParams) /\ key \notin Keys(params)
          \/ /\ key \in Keys(flagParams) /\ key \in Keys(params)
             /\ LastOf(params, key) = LastOf(flagParams, key)
      BY <2>7, <2>8, <2>10, SeesLast
    <3>2. QED
      BY <2>8, <2>10, <3>1 DEF params
  <2>11. QED
    BY <2>9, <2>10
<1>4. QED
  BY <1>2, <1>3

-----------------------------------------------------------------------------
(* Param files.                                                             *)

\* iter has the lines of the files with the indices of a set.
ReadsFiles(iter, Line, fs, files) ==
  /\ iter \in [SUBSET (1..Len(files)) -> Seq(Line)]
  /\ ReadParamFiles(fs, files) = iter[1..Len(files)]
  /\ iter[{}] = <<>>
  /\ \A s \in SUBSET (1..Len(files)) : s # {} =>
       iter[s] = iter[s \ {Max(s)}] \o LinesOf(fs, files[Max(s)])

(* ReadParamFiles appends the lines of one file after the other.              *)
LEMMA ReadParamFilesFold ==
  ASSUME NEW fs, NEW files, IsList(files), \A i \in DOMAIN files : IsList(LinesOf(fs, files[i]))
  PROVE  \E Line, iter : ReadsFiles(iter, Line, fs, files)
<1> DEFINE n == Len(files)
           Line == UNION {Words(LinesOf(fs, files[i])) : i \in DOMAIN files}
           add(lines, f) == lines \o LinesOf(fs, f)
           step == [i \in 1..n |-> [a \in Seq(Line) |-> add(a, files[i])]]
           iter == CHOOSE g : g = [s \in SUBSET (1..n) |->
                      IF s = {} THEN <<>> ELSE add(g[s \ {Max(s)}], files[Max(s)])]
<1>1. n \in Nat /\ DOMAIN files = 1..n
  BY ListDomain
<1>2. ReadParamFiles(fs, files) = iter[1..n]
  BY <1>1 DEF ReadParamFiles, FoldLeft, MapThenFoldSet
<1>3. ASSUME NEW i \in 1..n PROVE LinesOf(fs, files[i]) \in Seq(Line)
  <2>1. Words(LinesOf(fs, files[i])) \subseteq Line
    BY <1>1
  <2>2. LinesOf(fs, files[i]) \in Seq(Words(LinesOf(fs, files[i])))
    BY <1>1, ListOfWords
  <2> HIDE DEF Line, n
  <2>3. QED
    BY <2>1, <2>2, MoreWords
<1> HIDE DEF Line
<1>4. ASSUME NEW a \in Seq(Line), NEW i \in 1..n PROVE add(a, files[i]) \in Seq(Line)
  BY <1>3, ConcatProperties
<1>5. iter = [s \in SUBSET (1..n) |->
                IF s = {} THEN <<>> ELSE add(iter[s \ {Max(s)}], files[Max(s)])]
  <2>1. step \in [1..n -> [Seq(Line) -> Seq(Line)]]
    BY <1>4
  <2>2. PICK g : IsFold(g, Seq(Line), <<>>, n, step)
    <3> DEFINE Accumulators == Seq(Line)
               empty == <<>>
    <3>1. empty \in Accumulators /\ step \in [1..n -> [Accumulators -> Accumulators]]
      BY <2>1
    <3> HIDE DEF step, n, Accumulators, empty
    <3>2. \E g : IsFold(g, Accumulators, empty, n, step)
      BY <1>1, <3>1, FoldExists
    <3>3. QED
      BY <3>2 DEF Accumulators, empty
  <2>3. ASSUME NEW s \in SUBSET (1..n), s # {}
        PROVE  step[Max(s)][g[s \ {Max(s)}]] = add(g[s \ {Max(s)}], files[Max(s)])
    <3>1. Max(s) \in 1..n
      BY <1>1, <2>3, WithoutMax
    <3>2. s \ {Max(s)} \in SUBSET (1..n)
      OBVIOUS
    <3>3. QED
      BY <2>2, <3>1, <3>2 DEF IsFold
  <2>4. g = [s \in SUBSET (1..n) |->
               IF s = {} THEN <<>> ELSE add(g[s \ {Max(s)}], files[Max(s)])]
    <3> HIDE DEF step, add
    <3>1. QED
      BY <2>2, <2>3 DEF IsFold
  <2>5. QED
    BY <2>4
<1> HIDE DEF iter
<1>6. iter[{}] = <<>>
  BY <1>5
<1>7. ASSUME NEW s \in SUBSET (1..n), s # {}
      PROVE  iter[s] = add(iter[s \ {Max(s)}], files[Max(s)])
  BY <1>5, <1>7
<1>8. ASSUME NEW s \in SUBSET (1..n), s # {}, iter[s \ {Max(s)}] \in Seq(Line)
      PROVE  iter[s] \in Seq(Line)
  <2>1. Max(s) \in 1..n
    BY <1>1, <1>8, WithoutMax
  <2> HIDE DEF add
  <2>2. QED
    BY <1>4, <1>7, <1>8, <2>1
<1>9. \A s \in SUBSET (1..n) : iter[s] \in Seq(Line)
  <2> DEFINE Accumulators == Seq(Line)
  <2>1. iter[{}] \in Accumulators
    BY <1>6
  <2>2. \A s \in SUBSET (1..n) :
          s # {} /\ iter[s \ {Max(s)}] \in Accumulators => iter[s] \in Accumulators
    BY <1>8
  <2> HIDE DEF Accumulators, n
  <2>3. \A s \in SUBSET (1..n) : iter[s] \in Accumulators
    BY <1>1, <2>1, <2>2, FoldInduction
  <2>4. QED
    BY <2>3 DEF Accumulators
<1>10. iter \in [SUBSET (1..n) -> Seq(Line)]
  <2> HIDE DEF add, n
  <2>1. DOMAIN iter = SUBSET (1..n) /\ iter = [s \in SUBSET (1..n) |-> iter[s]]
    BY <1>5
  <2>2. QED
    BY <1>9, <2>1
<1>11. ReadsFiles(iter, Line, fs, files)
  BY <1>2, <1>6, <1>7, <1>10 DEF ReadsFiles
<1>12. QED
  BY <1>11

\* The last file whose lines have the key.
LastFile(fs, files, key, i) ==
  /\ i \in DOMAIN files /\ key \in Keys(LinesOf(fs, files[i]))
  /\ \A j \in DOMAIN files : key \in Keys(LinesOf(fs, files[j])) => j <= i

(* What is read from several files has, for each key, the value of the last   *)
(* file that sets it.                                                         *)
LEMMA ReadParamFilesValue ==
  ASSUME NEW fs, NEW files, IsList(files), NEW key,
         \A i \in DOMAIN files : IsList(LinesOf(fs, files[i]))
  PROVE  LET lines == ReadParamFiles(fs, files)
         IN  \/ /\ key \notin Keys(lines)
                /\ \A i \in DOMAIN files : key \notin Keys(LinesOf(fs, files[i]))
             \/ /\ key \in Keys(lines)
                /\ \E i : /\ LastFile(fs, files, key, i)
                          /\ LastOf(lines, key) = LastOf(LinesOf(fs, files[i]), key)
<1> DEFINE n == Len(files)
           lines == ReadParamFiles(fs, files)
           of(i) == LinesOf(fs, files[i])
<1>1. n \in Nat /\ DOMAIN files = 1..n
  BY ListDomain
<1>2. PICK Line, iter : ReadsFiles(iter, Line, fs, files)
  BY ReadParamFilesFold
<1>3. /\ iter \in [SUBSET (1..n) -> Seq(Line)]
      /\ lines = iter[1..n]
      /\ iter[{}] = <<>>
      /\ \A s \in SUBSET (1..n) : s # {} => iter[s] = iter[s \ {Max(s)}] \o of(Max(s))
  BY <1>2 DEF ReadsFiles
<1>4. \A i \in 1..n : IsList(of(i))
  BY <1>1
<1> HIDE DEF lines, n, of
<1>5. \A s \in SUBSET (1..n) : IsList(iter[s])
  BY <1>3, SeqIsList
<1>6. ASSUME NEW s \in SUBSET (1..n), s # {}
      PROVE  /\ Max(s) \in s /\ Max(s) \in 1..n /\ \A i \in s : i \in 1..n /\ i <= Max(s)
             /\ s \ {Max(s)} \in SUBSET (1..n)
  BY <1>1, <1>6, MaxIsLargest
<1> DEFINE Latest(s, i) == /\ i \in s /\ key \in Keys(of(i))
                           /\ \A j \in s : key \in Keys(of(j)) => j <= i
           Unset(s) == key \notin Keys(iter[s]) /\ \A i \in s : key \notin Keys(of(i))
           Some(s) == \E i : Latest(s, i) /\ Sees(iter[s], key, LastOf(of(i), key))
           Good == {s \in SUBSET (1..n) : Unset(s) \/ Some(s)}
<1>7. {} \in Good
  BY <1>3 DEF Keys
<1>8. ASSUME NEW s \in SUBSET (1..n), s # {}, s \ {Max(s)} \in Good PROVE s \in Good
  <2> DEFINE before == iter[s \ {Max(s)}]
             more == of(Max(s))
  <2>1. iter[s] = before \o more
    BY <1>3, <1>8
  <2>2. IsList(before) /\ IsList(more)
    BY <1>4, <1>5, <1>6, <1>8
  <2>3. Unset(s \ {Max(s)}) \/ Some(s \ {Max(s)})
    BY <1>8
  <2> HIDE DEF before, more
  <2>4. /\ Keys(iter[s]) = Keys(before) \cup Keys(more)
        /\ \A value : Sees(more, key, value) => Sees(iter[s], key, value)
        /\ key \notin Keys(more) =>
             \A value : Sees(before, key, value) => Sees(iter[s], key, value)
    BY <2>1, <2>2, Concatenation
  <2>5. CASE key \in Keys(more)
    <3>1. Sees(iter[s], key, LastOf(more, key))
      BY <2>2, <2>4, <2>5, SeesLast
    <3>2. Latest(s, Max(s))
      BY <1>6, <1>8, <2>5 DEF more
    <3> HIDE DEF Latest
    <3>3. Some(s)
      BY <3>1, <3>2 DEF more
    <3>4. QED
      BY <3>3
  <2>6. CASE key \notin Keys(more)
    <3>1. CASE Unset(s \ {Max(s)})
      <4>1. Unset(s)
        BY <2>4, <2>6, <3>1 DEF before, more
      <4>2. QED
        BY <4>1
    <3>2. CASE Some(s \ {Max(s)})
      <4>1. PICK i : Latest(s \ {Max(s)}, i) /\ Sees(before, key, LastOf(of(i), key))
        <5> HIDE DEF Latest
        <5>1. QED
          BY <3>2 DEF before
      <4>2. Latest(s, i)
        BY <2>6, <4>1 DEF more
      <4> HIDE DEF Latest
      <4>3. Some(s)
        BY <2>4, <2>6, <4>1, <4>2
      <4>4. QED
        BY <4>3
    <3>3. QED
      BY <2>3, <3>1, <3>2
  <2>7. QED
    BY <2>5, <2>6
<1>9. 1..n \in Good
  <2> HIDE DEF Good
  <2>1. QED
    BY <1>1, <1>7, <1>8, IndexInduction
<1>10. Unset(1..n) \/ Some(1..n)
  BY <1>9
<1>11. CASE Unset(1..n)
  BY <1>1, <1>3, <1>11 DEF of, lines
<1>12. CASE Some(1..n)
  <2>1. PICK i : Latest(1..n, i) /\ Sees(lines, key, LastOf(of(i), key))
    BY <1>3, <1>12
  <2>2. LastFile(fs, files, key, i)
    BY <1>1, <2>1 DEF LastFile, of
  <2>3. IsList(lines)
    BY <1>3, <1>5
  <2>4. key \in Keys(lines) /\ LastOf(lines, key) = LastOf(of(i), key)
    BY <2>1, <2>3, SeesLast
  <2>5. QED
    BY <2>2, <2>4 DEF of, lines
<1>13. QED
  BY <1>10, <1>11, <1>12

(* The lines of a file and its encrypted companion have the value the file    *)
(* sets, with secrets encoded.                                                *)
LEMMA LinesOfValue ==
  ASSUME disk \in Disks, NEW f \in DOMAIN disk.fs.clear, NEW key
  PROVE  /\ IsList(LinesOf(disk.fs, f))
         /\ key \in Keys(LinesOf(disk.fs, f)) <=> FileSets(f, key)
         /\ key \in Keys(LinesOf(disk.fs, f)) =>
              LastOf(LinesOf(disk.fs, f), key) = ValueInFile(f, key)
<1> DEFINE clear == disk.fs.clear[f]
           secrets == LinesAt(disk.fs.encrypted, f)
           encoded == [i \in DOMAIN secrets |-> Encoded(secrets[i])]
<1>1. IsList(clear)
  BY ParamFileAssumption
<1>2. IsList(secrets)
  <2>1. CASE f \in DOMAIN disk.fs.encrypted
    BY <2>1, ParamFileAssumption DEF LinesAt
  <2>2. CASE f \notin DOMAIN disk.fs.encrypted
    <3>1. <<>> \in Seq({}) /\ secrets = <<>>
      BY <2>2 DEF LinesAt
    <3> HIDE DEF secrets
    <3>2. QED
      BY <3>1, SeqIsList
  <2>3. QED
    BY <2>1, <2>2
<1>3. Len(secrets) \in Nat /\ DOMAIN secrets = 1..Len(secrets)
  BY <1>2, ListDomain
<1>4. IsList(encoded) /\ DOMAIN encoded = DOMAIN secrets
  <2>1. encoded \in Seq({Encoded(secrets[i]) : i \in DOMAIN secrets})
    <3> HIDE DEF secrets
    <3>1. QED
      BY <1>3
  <2> HIDE DEF secrets
  <2>2. DOMAIN encoded = DOMAIN secrets
    OBVIOUS
  <2> HIDE DEF encoded
  <2>3. QED
    BY <2>1, <2>2, SeqIsList
<1>5. \A i \in DOMAIN secrets : encoded[i].key = secrets[i].key
  BY DEF Encoded
<1>6. Keys(encoded) = Keys(secrets)
  <2> HIDE DEF encoded, secrets
  <2>1. QED
    BY <1>4, <1>5 DEF Keys
<1>7. LinesOf(disk.fs, f) = clear \o encoded
  <2>1. CASE f \in DOMAIN disk.fs.encrypted
    BY <2>1 DEF LinesOf, LinesAt
  <2>2. CASE f \notin DOMAIN disk.fs.encrypted
    <3>1. secrets = <<>>
      BY <2>2 DEF LinesAt
    <3>2. encoded = <<>>
      BY <3>1
    <3>3. QED
      BY <2>2, <3>2 DEF LinesOf
  <2>3. QED
    BY <2>1, <2>2
<1>8. key \in Keys(encoded) =>
        LET secret == LastLine(secrets, key)
        IN  LastOf(encoded, key) = IF secret.b64 THEN secret.value ELSE Base64(secret.value)
  <2>1. \A i \in DOMAIN secrets :
          encoded[i].value = IF secrets[i].b64 THEN secrets[i].value ELSE Base64(secrets[i].value)
    BY DEF Encoded
  <2> HIDE DEF encoded, secrets
  <2>2. SUFFICES ASSUME key \in Keys(encoded)
        PROVE  LastOf(encoded, key) = IF LastLine(secrets, key).b64 THEN LastLine(secrets, key).value
                                      ELSE Base64(LastLine(secrets, key).value)
    OBVIOUS
  <2>3. PICK i : LastAt(encoded, key, i)
    BY <1>4, <2>2, LastExists
  <2>4. LastAt(secrets, key, i)
    BY <1>4, <1>5, <2>3 DEF LastAt
  <2>5. LastOf(encoded, key) = encoded[i].value /\ LastLine(secrets, key) = secrets[i]
    BY <1>2, <1>4, <2>3, <2>4, LastUnique
  <2>6. QED
    BY <2>1, <2>4, <2>5 DEF LastAt
<1> HIDE DEF clear, encoded
<1>9. /\ IsList(clear \o encoded)
      /\ Keys(clear \o encoded) = Keys(clear) \cup Keys(encoded)
      /\ \A value : Sees(encoded, key, value) => Sees(clear \o encoded, key, value)
      /\ key \notin Keys(encoded) =>
           \A value : Sees(clear, key, value) => Sees(clear \o encoded, key, value)
  BY <1>1, <1>4, Concatenation
<1>10. key \in Keys(clear \o encoded) <=> FileSets(f, key)
  BY <1>6, <1>9 DEF FileSets, Exists, Has, clear
<1>11. ASSUME key \in Keys(clear \o encoded)
       PROVE  LastOf(clear \o encoded, key) = ValueInFile(f, key)
  <2>1. CASE key \in Keys(encoded)
    <3>1. LastOf(clear \o encoded, key) = LastOf(encoded, key)
      BY <1>4, <1>9, <2>1, SeesLast
    <3>2. QED
      BY <1>6, <1>8, <2>1, <3>1 DEF ValueInFile, Has
  <2>2. CASE key \notin Keys(encoded)
    <3>1. LastOf(clear \o encoded, key) = LastOf(clear, key)
      BY <1>1, <1>9, <1>11, <2>2, SeesLast
    <3>2. QED
      BY <1>6, <2>2, <3>1 DEF ValueInFile, Has, clear
  <2>3. QED
    BY <2>1, <2>2
<1>12. QED
  BY <1>7, <1>9, <1>10, <1>11

LEMMA SequenceOfOne ==
  ASSUME NEW x
  PROVE  IsList(<<x>>) /\ DOMAIN <<x>> = {1} /\ <<x>>[1] = x /\ Len(<<x>>) = 1
<1> DEFINE one == <<x>>
<1>1. one \in Seq({x}) /\ one[1] = x /\ DOMAIN one = {1} /\ Len(one) = 1
  OBVIOUS
<1> HIDE DEF one
<1>2. IsList(one)
  BY <1>1, SeqIsList
<1>3. QED
  BY <1>1, <1>2 DEF one

LEMMA TwoOfOne ==
  ASSUME NEW x, NEW y
  PROVE  <<x>> \o <<y>> = <<x, y>>
<1> DEFINE S == {x, y}
           a == <<x>>
           b == <<y>>
           c == <<x, y>>
<1>1. /\ a \in Seq(S) /\ Len(a) = 1 /\ a[1] = x
      /\ b \in Seq(S) /\ Len(b) = 1 /\ b[1] = y
      /\ c \in Seq(S) /\ Len(c) = 2 /\ c[1] = x /\ c[2] = y
  OBVIOUS
<1> HIDE DEF S, a, b, c
<1>2. a \o b \in Seq(S) /\ Len(a \o b) = 2 /\ (a \o b)[1] = x /\ (a \o b)[2] = y
  BY <1>1, ConcatProperties
<1>3. \A i \in 1..Len(a \o b) : (a \o b)[i] = c[i]
  <2>1. 1..Len(a \o b) = {1, 2}
    BY <1>2
  <2>2. QED
    BY <1>1, <1>2, <2>1
<1>4. a \o b = c
  BY <1>1, <1>2, <1>3, SeqEqual
<1>5. QED
  BY <1>4 DEF a, b, c

\* The strongest of some param files that sets the key.
LastSets(files, key, i) ==
  /\ i \in DOMAIN files /\ FileSets(files[i], key)
  /\ \A j \in DOMAIN files : FileSets(files[j], key) => j <= i

LEMMA StrongestFile ==
  ASSUME NEW template, NEW key, IsList(Ranked(template)),
         NEW i, LastSets(Ranked(template), key, i)
  PROVE  FromFiles(template, key) = ValueInFile(Ranked(template)[i], key)
<1> DEFINE files == Ranked(template)
           those == {j \in DOMAIN files : FileSets(files[j], key)}
<1>1. DOMAIN files = 1..Len(files) /\ Len(files) \in Nat
  BY ListDomain
<1> HIDE DEF files
<1>2. \A j : j \in those /\ (\A k \in those : k <= j) <=> j = i
  BY <1>1 DEF LastSets, files
<1>3. (CHOOSE j \in those : \A k \in those : k <= j) = i
  BY <1>2
<1>4. those # {}
  BY <1>2
<1> HIDE DEF those
<1>5. QED
  BY <1>3, <1>4 DEF FromFiles, those, files

(* The files that are read for a template, which all exist, are those that    *)
(* Ranked lists, without those that do not exist.                             *)
LEMMA FilesAreRanked ==
  ASSUME NEW template, NEW key, IsList(options["param-file"]),
         \A i \in DOMAIN CalculateParamFiles(template, options, disk.fs) :
           Exists(disk.fs, CalculateParamFiles(template, options, disk.fs)[i]),
         NEW i, LastSets(CalculateParamFiles(template, options, disk.fs), key, i)
  PROVE  /\ IsList(Ranked(template))
         /\ \E k : /\ LastSets(Ranked(template), key, k)
                   /\ Ranked(template)[k] = CalculateParamFiles(template, options, disk.fs)[i]
<1> DEFINE files == CalculateParamFiles(template, options, disk.fs)
           own == TemplateParamFile(template, options, disk.fs)
           ns == NamespaceParamFile(options)
           named == options["param-file"]
           first == IF named # <<>> THEN named ELSE <<own>>
           read == IF named # <<>> THEN named
                   ELSE IF Exists(disk.fs, own) THEN <<own>> ELSE <<>>
           ranked == Ranked(template)
<1>1. files = IF Exists(disk.fs, ns) /\ ~Contains(read, ns) THEN Append(read, ns) ELSE read
  BY DEF CalculateParamFiles
<1>2. ranked = IF Contains(first, ns) THEN first ELSE first \o <<ns>>
  BY DEF Ranked
<1>3. IsList(first)
  BY SequenceOfOne
<1>4. IsList(ranked)
  <2> HIDE DEF first, ranked
  <2>1. IsList(first \o <<ns>>)
    BY <1>3, SequenceOfOne, Concatenation
  <2>2. QED
    BY <1>2, <1>3, <2>1
<1>5. ~Exists(disk.fs, ns) => ~FileSets(ns, key)
  BY DEF FileSets
<1>6. ~Exists(disk.fs, own) => ~FileSets(own, key)
  BY DEF FileSets
<1>7. CASE read = first
  <2>1. PICK S : first \in Seq(S) /\ ns \in S
    <3>1. first \in Seq(Words(first) \cup {ns})
      BY <1>3, ListOfWords, MoreWords
    <3>2. QED
      BY <3>1
  <2>2. CASE Contains(first, ns) \/ Exists(disk.fs, ns)
    <3> HIDE DEF first, read, files, ranked
    <3>1. Append(first, ns) = first \o <<ns>>
      BY <2>1, AppendIsConcat
    <3>2. files = ranked
      BY <1>1, <1>2, <1>7, <2>2, <3>1
    <3>3. QED
      BY <1>4, <3>2 DEF files, ranked
  <2>3. CASE ~Contains(first, ns) /\ ~Exists(disk.fs, ns)
    <3> HIDE DEF first, read, files, ranked
    <3>1. files = first /\ ranked = Append(first, ns)
      BY <1>1, <1>2, <1>7, <2>1, <2>3, AppendIsConcat
    <3>2. /\ Len(first) \in Nat /\ DOMAIN first = 1..Len(first)
          /\ DOMAIN ranked = 1..(Len(first) + 1) /\ ranked[Len(first) + 1] = ns
          /\ \A j \in 1..Len(first) : ranked[j] = first[j]
      BY <2>1, <3>1, AppendProperties, LenProperties
    <3>3. \A j \in DOMAIN ranked : j \in DOMAIN first \/ j = Len(first) + 1
      BY <3>2
    <3>4. \A j \in DOMAIN first : j \in DOMAIN ranked /\ ranked[j] = first[j]
      BY <3>2
    <3>5. LastSets(first, key, i)
      BY <3>1 DEF files
    <3>6. LastSets(ranked, key, i)
      BY <1>5, <2>3, <3>2, <3>3, <3>4, <3>5 DEF LastSets
    <3>7. ranked[i] = files[i]
      BY <3>1, <3>4, <3>5 DEF LastSets
    <3>8. QED
      BY <1>4, <3>6, <3>7 DEF files, ranked
  <2>4. QED
    BY <2>2, <2>3
<1>8. CASE read # first
  <2>1. first = <<own>> /\ read = <<>> /\ ~Exists(disk.fs, own)
    BY <1>8
  <2>2. ~Contains(read, ns)
    BY <2>1 DEF Contains
  <2>3. Exists(disk.fs, ns) /\ files = <<ns>>
    <3> HIDE DEF first
    <3>1. Exists(disk.fs, ns)
      <4>1. ~Exists(disk.fs, ns) => files = <<>>
        BY <1>1, <2>1
      <4> HIDE DEF files
      <4>2. DOMAIN files # {}
        BY DEF LastSets, files
      <4>3. QED
        BY <4>1, <4>2
    <3>2. files = Append(read, ns)
      BY <1>1, <2>2, <3>1
    <3>3. read = <<>>
      BY <2>1
    <3>4. Append(<<>>, ns) = <<ns>>
      BY SMT
    <3> HIDE DEF files, read, ns
    <3>5. QED
      BY <3>1, <3>2, <3>3, <3>4
  <2>4. ~Contains(first, ns)
    BY <2>1, <2>3 DEF Contains
  <2>5. ranked = <<own, ns>>
    <3>1. ranked = first \o <<ns>>
      BY <1>2, <2>4
    <3>2. <<own>> \o <<ns>> = <<own, ns>>
      BY TwoOfOne
    <3> HIDE DEF ranked, first
    <3>3. QED
      BY <2>1, <3>1, <3>2
  <2> HIDE DEF files, ranked
  <2>6. i = 1 /\ FileSets(ns, key)
    BY <2>3 DEF LastSets, files
  <2>7. LastSets(ranked, key, 2) /\ ranked[2] = files[i]
    BY <1>6, <2>1, <2>3, <2>5, <2>6 DEF LastSets
  <2>8. QED
    BY <1>4, <2>7 DEF files, ranked
<1>9. QED
  BY <1>7, <1>8

-----------------------------------------------------------------------------
(* What is known of the params of a call.                                   *)

FilesOf(template) == CalculateParamFiles(template, options, disk.fs)

\* The options have the params of flags and Tailorfile.
ParamsRead ==
  (pc \in {"filter", "fetch", "lists"} \/ Asked) /\ Comparing =>
    /\ options["param"] = MergedParams(call.flags["param"], FileParams(CommandFile))
    /\ IsList(options["param-file"])

\* oc process is called with what its param files hold, all of which could be read.
FilesRead ==
  /\ processing = "temp" => ~ReadFails(disk.fs, Files)
  /\ \A t \in DOMAIN given : /\ ~ReadFails(disk.fs, FilesOf(t))
                             /\ given[t].lines = ReadParamFiles(disk.fs, FilesOf(t))

PInv == IInv /\ ParamsRead /\ FilesRead

LEMMA FileParamsAreList ==
  ASSUME Given
  PROVE  IsList(call.flags["param"]) /\ IsList(FileParams(CommandFile))
<1>1. IsList(call.flags["param"]) /\ disk \in Disks
  BY FlagsAssumption DEF Given
<1>2. PICK Word : \A o \in DOMAIN CommandFile : CommandFile[o] \in Seq(Word)
  BY <1>1, FileType DEF CommandFile
<1>3. FileParams(CommandFile) \in Seq(Word)
  BY <1>2 DEF FileParams
<1>4. QED
  BY <1>1, <1>3, SeqIsList

LEMMA CompareParams ==
  ASSUME Given, Comparing
  PROVE  /\ CommandOptions["param"] = MergedParams(call.flags["param"], FileParams(CommandFile))
         /\ IsList(CommandOptions["param-file"])
         /\ {"param", "param-file"} \subseteq DOMAIN CommandOptions
<1>1. CommandOptions = CompareOptions(call, CommandFile)
  BY DEF CommandOptions
<1>2. CommandOptions["param"] = MergedParams(call.flags["param"], FileParams(CommandFile))
  BY <1>1, OptionValues
<1>3. CommandOptions["param-file"] = TextOption("param-file", call.flags, CommandFile)
  BY <1>1 DEF CompareOptions, With, Texts
<1>4. IsList(CommandOptions["param-file"])
  <2>1. IsList(call.flags["param-file"]) /\ disk \in Disks
    BY FlagsAssumption DEF Given
  <2>2. PICK Word : \A o \in DOMAIN CommandFile : CommandFile[o] \in Seq(Word)
    BY <2>1, FileType DEF CommandFile
  <2>3. "param-file" \in DOMAIN CommandFile => IsList(CommandFile["param-file"])
    BY <2>2, SeqIsList
  <2>4. CASE call.flags["param-file"] # DefaultFlags["param-file"]
    BY <1>3, <2>1, <2>4 DEF TextOption
  <2>5. CASE call.flags["param-file"] = DefaultFlags["param-file"]
    BY <1>3, <2>1, <2>3, <2>5 DEF TextOption
  <2>6. QED
    BY <2>4, <2>5
<1>5. {"param", "param-file"} \subseteq DOMAIN CommandOptions
  BY <1>1 DEF CompareOptions, With, Texts
<1>6. QED
  BY <1>2, <1>4, <1>5

LEMMA InitParams == Init => PInv
<1> SUFFICES ASSUME Init PROVE PInv
  OBVIOUS
<1>1. exported = {} /\ DOMAIN given = {} /\ pc = "start" /\ processing = "idle"
  BY DEF Init
<1>2. QED
  BY <1>1, InitInvariant DEF PInv, ParamsRead, FilesRead, Asked

\* Most steps read no params and give none to oc.
LEMMA ParamsStay ==
  ASSUME PInv, UNCHANGED <<call, disk, options, given>>,
         pc' \in {"filter", "fetch", "lists"} \/ Asked' =>
           pc \in {"filter", "fetch", "lists"} \/ Asked,
         processing' = "temp" => processing = "temp" /\ UNCHANGED todo
  PROVE  ParamsRead' /\ FilesRead'
<1>1. ParamsRead'
  BY SameCall DEF PInv, ParamsRead
<1>2. FilesRead'
  <2>1. processing' = "temp" => ~ReadFails(disk.fs, Files)'
    BY DEF PInv, FilesRead, Files
  <2>2. \A t \in DOMAIN given' : /\ ~ReadFails(disk.fs, FilesOf(t))'
                                 /\ (given[t].lines = ReadParamFiles(disk.fs, FilesOf(t)))'
    BY DEF PInv, FilesRead, FilesOf
  <2>3. QED
    BY <2>1, <2>2 DEF FilesRead
<1>3. QED
  BY <1>1, <1>2

LEMMA ReadOptionsParams == PInv /\ ReadOptions => ParamsRead' /\ FilesRead'
<1> SUFFICES ASSUME PInv, ReadOptions PROVE ParamsRead' /\ FilesRead'
  OBVIOUS
<1>1. /\ pc = "options" /\ exported = {} /\ DOMAIN given = {} /\ processing = "idle" /\ Given
      /\ UNCHANGED <<call, disk, given, exported, processing>>
  BY DEF ReadOptions, runVars, PInv, IInv, NothingAsked, Places
<1>2. FilesRead'
  BY <1>1 DEF FilesRead
<1>3. ~Asked'
  BY <1>1 DEF Asked
<1>4. ASSUME pc' = "filter", Comparing
      PROVE  /\ options'["param"] = CommandOptions["param"]
             /\ options'["param-file"] = CommandOptions["param-file"]
  <2>1. {"param", "param-file"} \subseteq DOMAIN CommandOptions
    BY <1>1, <1>4, CompareParams
  <2>2. SetNamespace(CommandOptions)
    BY <1>4 DEF ReadOptions
  <2>3. options' \in {CommandOptions, With(CommandOptions, "namespace", oc.project)}
    BY <2>2 DEF SetNamespace
  <2>4. QED
    BY <2>1, <2>3 DEF With
<1>5. pc' \notin {"fetch", "lists"}
  BY DEF ReadOptions, SetNamespace
<1>6. ASSUME pc' = "filter", Comparing'
      PROVE  /\ options'["param"] = MergedParams(call'.flags["param"], FileParams(CommandFile'))
             /\ IsList(options'["param-file"])
  <2>1. Comparing /\ call' = call /\ CommandFile' = CommandFile
    BY <1>1, <1>6, SameCall
  <2>2. /\ CommandOptions["param"] = MergedParams(call.flags["param"], FileParams(CommandFile))
        /\ IsList(CommandOptions["param-file"])
    BY <1>1, <2>1, CompareParams
  <2>3. QED
    BY <1>4, <1>6, <2>1, <2>2
<1>7. ParamsRead'
  BY <1>3, <1>5, <1>6 DEF ParamsRead
<1>8. QED
  BY <1>2, <1>7

LEMMA BeginTemplateParams == PInv /\ BeginTemplate => ParamsRead' /\ FilesRead'
<1> SUFFICES ASSUME PInv, BeginTemplate PROVE ParamsRead' /\ FilesRead'
  OBVIOUS
<1>1. pc = "fetch" /\ processing = "idle" /\ UNCHANGED <<call, disk, pc, options, given>>
  BY DEF BeginTemplate
<1>2. CASE UNCHANGED processing
  BY <1>1, <1>2, ParamsStay
<1>3. CASE ~UNCHANGED processing
  <2>1. ~ReadFails(disk.fs, Files) /\ UNCHANGED todo
    BY <1>3 DEF BeginTemplate
  <2>2. ~ReadFails(disk.fs, Files)'
    BY <1>1, <2>1 DEF Files
  <2>3. \A t \in DOMAIN given' : /\ ~ReadFails(disk.fs, FilesOf(t))'
                                 /\ (given[t].lines = ReadParamFiles(disk.fs, FilesOf(t)))'
    BY <1>1 DEF PInv, FilesRead, FilesOf
  <2>4. ParamsRead'
    BY <1>1, SameCall DEF PInv, ParamsRead
  <2>5. QED
    BY <2>2, <2>3, <2>4 DEF FilesRead
<1>4. QED
  BY <1>2, <1>3

LEMMA ProcessParams == PInv /\ Process => ParamsRead' /\ FilesRead'
<1> SUFFICES ASSUME PInv, Process PROVE ParamsRead' /\ FilesRead'
  OBVIOUS
<1>1. /\ pc = "fetch" /\ processing = "temp" /\ processing' = "processed"
      /\ UNCHANGED <<call, disk, pc, options>>
  BY DEF Process
<1>2. ~ReadFails(disk.fs, Files) /\ Files = FilesOf(Head(todo))
  BY <1>1 DEF PInv, FilesRead, Files, FilesOf
<1>3. ASSUME NEW t \in DOMAIN given'
      PROVE  ~ReadFails(disk.fs, FilesOf(t)) /\ given'[t].lines = ReadParamFiles(disk.fs, FilesOf(t))
  <2>1. CASE t = Head(todo)
    BY <1>2, <2>1 DEF Process, With
  <2>2. CASE t # Head(todo)
    BY <1>3, <2>2 DEF Process, With, PInv, FilesRead
  <2>3. QED
    BY <2>1, <2>2
<1>4. ASSUME NEW t PROVE FilesOf(t)' = FilesOf(t)
  BY <1>1 DEF FilesOf
<1>5. FilesRead'
  BY <1>1, <1>3, <1>4 DEF FilesRead
<1>6. ParamsRead'
  BY <1>1, SameCall DEF PInv, ParamsRead
<1>7. QED
  BY <1>5, <1>6

LEMMA OtherParams ==
  ASSUME PInv,
         \/ ReadGlobalOptions \/ StartGoroutines \/ ReturnFromTemplate \/ ExportKinds \/ Wait
         \/ SwitchProject \/ Kill \/ UNCHANGED vars
  PROVE  ParamsRead' /\ FilesRead'
<1>1. UNCHANGED <<call, disk, options, given>>
  BY DEF ReadGlobalOptions, StartGoroutines, ReturnFromTemplate, ExportKinds, Wait,
         SwitchProject, Kill, vars, runVars
<1>2. processing' = "temp" => processing = "temp" /\ UNCHANGED todo
  <2>1. CASE StartGoroutines
    BY <2>1 DEF StartGoroutines, PInv, IInv, Places
  <2>2. CASE ~StartGoroutines
    BY <2>2 DEF ReadGlobalOptions, ReturnFromTemplate, ExportKinds, Wait, SwitchProject, Kill,
                vars, runVars
  <2>3. QED
    BY <2>1, <2>2
<1>3. Asked' => Asked \/ pc = "fetch"
  BY DEF Asked, ReadGlobalOptions, StartGoroutines, ReturnFromTemplate, ExportKinds, Wait,
         SwitchProject, Kill, vars, runVars
<1>4. pc' \in {"filter", "fetch", "lists"} => pc \in {"filter", "fetch", "lists"}
  BY DEF ReadGlobalOptions, StartGoroutines, ReturnFromTemplate, ExportKinds, Wait,
         SwitchProject, Kill, vars
<1>5. QED
  BY <1>1, <1>2, <1>3, <1>4, ParamsStay

LEMMA ParamsInvariant == Spec => []PInv
<1>1. PInv /\ [Next]_vars => PInv'
  <2> SUFFICES ASSUME PInv, [Next]_vars PROVE PInv'
    OBVIOUS
  <2>1. IInv'
    BY ReadGlobalOptionsStep, ReadOptionsStep, StartGoroutinesStep, BeginTemplateStep,
       ProcessStep, ReturnFromTemplateStep, ExportKindsStep, WaitStep, SwitchProjectStep,
       KillStep, StutterStep DEF Next, PInv
  <2>2. ParamsRead' /\ FilesRead'
    BY ReadOptionsParams, BeginTemplateParams, ProcessParams, OtherParams DEF Next
  <2>3. QED
    BY <2>1, <2>2 DEF PInv
<1>2. QED
  BY InitParams, <1>1, PTL DEF Spec

-----------------------------------------------------------------------------
(* The property.                                                            *)

LEMMA ArgumentsValue ==
  ASSUME NEW template, IsList(options["param"]), NEW key, key # "TAILOR_NAMESPACE"
  PROVE  LET arguments == ParamArguments(template, options, UsesNamespace)
         IN  /\ key \in Keys(arguments) <=> key \in Keys(options["param"])
             /\ key \in Keys(arguments) => LastOf(arguments, key) = LastOf(options["param"], key)
<1> DEFINE params == options["param"]
           more == IF template \in UsesNamespace
                   THEN <<[key |-> "TAILOR_NAMESPACE", value |-> options["namespace"][1]]>>
                   ELSE <<>>
           arguments == ParamArguments(template, options, UsesNamespace)
<1>1. arguments = params \o more
  BY DEF ParamArguments
<1>2. IsList(more) /\ key \notin Keys(more)
  <2>1. CASE template \in UsesNamespace
    <3> DEFINE param == [key |-> "TAILOR_NAMESPACE", value |-> options["namespace"][1]]
    <3>1. more = <<param>> /\ param.key # key
      BY <2>1
    <3> HIDE DEF param, more
    <3>2. QED
      BY <3>1, SequenceOfOne DEF Keys
  <2>2. CASE template \notin UsesNamespace
    <3>1. more \in Seq({}) /\ DOMAIN more = {}
      BY <2>2
    <3> HIDE DEF more
    <3>2. IsList(more)
      BY <3>1, SeqIsList
    <3>3. QED
      BY <3>1, <3>2 DEF Keys
  <2>3. QED
    BY <2>1, <2>2
<1> HIDE DEF arguments, more
<1>3. /\ IsList(params \o more) /\ Keys(params \o more) = Keys(params) \cup Keys(more)
      /\ \A value : Sees(params, key, value) => Sees(params \o more, key, value)
  BY <1>2, Concatenation
<1>4. ASSUME key \in Keys(arguments)
      PROVE  LastOf(arguments, key) = LastOf(params, key)
  BY <1>1, <1>2, <1>3, <1>4, SeesLast
<1>5. QED
  BY <1>1, <1>2, <1>3, <1>4 DEF arguments

(* The combined param files of a template have the value of the strongest.    *)
LEMMA FilesValue ==
  ASSUME disk \in Disks, IsList(options["param-file"]), NEW template,
         ~ReadFails(disk.fs, FilesOf(template)),
         NEW key \in Keys(ReadParamFiles(disk.fs, FilesOf(template)))
  PROVE  LastOf(ReadParamFiles(disk.fs, FilesOf(template)), key) = FromFiles(template, key)
<1> DEFINE files == FilesOf(template)
<1>1. \A i \in DOMAIN files : files[i] \in DOMAIN disk.fs.clear
  BY DEF ReadFails, FileFails, Exists
<1>2. IsList(files)
  <2> DEFINE own == TemplateParamFile(template, options, disk.fs)
             ns == NamespaceParamFile(options)
             read == IF options["param-file"] # <<>> THEN options["param-file"]
                     ELSE IF Exists(disk.fs, own) THEN <<own>> ELSE <<>>
  <2>1. IsList(read)
    <3>1. IsList(<<>>)
      <4>1. <<>> \in Seq({})
        OBVIOUS
      <4>2. QED
        BY <4>1, SeqIsList
    <3>2. QED
      BY <3>1, SequenceOfOne
  <2>2. files = IF Exists(disk.fs, ns) /\ ~Contains(read, ns) THEN Append(read, ns) ELSE read
    BY DEF CalculateParamFiles, FilesOf
  <2> HIDE DEF read, ns, files
  <2>3. IsList(Append(read, ns))
    <3>1. read \in Seq(Words(read) \cup {ns}) /\ ns \in Words(read) \cup {ns}
      BY <2>1, ListOfWords, MoreWords
    <3>2. Append(read, ns) \in Seq(Words(read) \cup {ns})
      BY <3>1, AppendProperties
    <3>3. QED
      BY <3>2, SeqIsList
  <2>4. QED
    BY <2>1, <2>2, <2>3
<1>3. \A i \in DOMAIN files :
        /\ IsList(LinesOf(disk.fs, files[i]))
        /\ key \in Keys(LinesOf(disk.fs, files[i])) <=> FileSets(files[i], key)
        /\ key \in Keys(LinesOf(disk.fs, files[i])) =>
             LastOf(LinesOf(disk.fs, files[i]), key) = ValueInFile(files[i], key)
  BY <1>1, LinesOfValue
<1> HIDE DEF files
<1>4. PICK i : /\ LastFile(disk.fs, files, key, i)
               /\ LastOf(ReadParamFiles(disk.fs, files), key)
                    = LastOf(LinesOf(disk.fs, files[i]), key)
  BY <1>2, <1>3, ReadParamFilesValue DEF files
<1>5. LastSets(files, key, i)
  BY <1>3, <1>4 DEF LastFile, LastSets
<1>6. LastOf(ReadParamFiles(disk.fs, files), key) = ValueInFile(files[i], key)
  BY <1>3, <1>4 DEF LastFile
<1>7. PICK k : /\ IsList(Ranked(template)) /\ LastSets(Ranked(template), key, k)
               /\ Ranked(template)[k] = files[i]
  <2>1. \A j \in DOMAIN files : Exists(disk.fs, files[j])
    BY <1>1 DEF Exists
  <2>2. QED
    BY <1>5, <2>1, FilesAreRanked DEF files, FilesOf
<1>8. FromFiles(template, key) = ValueInFile(files[i], key)
  BY <1>7, StrongestFile
<1>9. QED
  BY <1>6, <1>8 DEF files

\* No call sets a param with two flags.
FlagsGivenOnce ==
  \A c \in Calls : \A i, j \in DOMAIN c.flags["param"] :
    c.flags["param"][i].key = c.flags["param"][j].key => i = j

LEMMA FirstIsLast ==
  ASSUME FlagsGivenOnce, NEW c \in Calls, NEW key \in Keys(c.flags["param"])
  PROVE  FirstOf(c.flags["param"], key) = LastOf(c.flags["param"], key)
<1> DEFINE params == c.flags["param"]
<1>1. IsList(params) /\ \A i, j \in DOMAIN params : params[i].key = params[j].key => i = j
  BY FlagsAssumption DEF FlagsGivenOnce
<1> HIDE DEF params
<1>2. DOMAIN params = 1..Len(params) /\ Len(params) \in Nat
  BY <1>1, ListDomain
<1>3. PICK i \in DOMAIN params : params[i].key = key
  BY DEF Keys, params
<1>4. /\ \A k : k \in DOMAIN params /\ params[k].key = key
                /\ (\A j \in DOMAIN params : params[j].key = key => j <= k) <=> k = i
      /\ \A k : k \in DOMAIN params /\ params[k].key = key
                /\ (\A j \in DOMAIN params : params[j].key = key => k <= j) <=> k = i
  BY <1>1, <1>2, <1>3
<1>5. FirstOf(params, key) = params[i].value
  BY <1>4 DEF FirstOf
<1>6. LastOf(params, key) = params[i].value
  BY <1>4 DEF LastOf
<1>7. QED
  BY <1>5, <1>6 DEF params

(* If no call sets a param with two flags, oc sees for every param the value  *)
(* of the most specific place that sets it, for Tailorfiles, param files and  *)
(* secrets of any number.  (NewCompareOptions, calculateParamFiles,           *)
(* readParamFileBytes, encode)                                                *)
THEOREM MostSpecificParamWinsHolds == FlagsGivenOnce => (Spec => []MostSpecificParamWins)
<1> SUFFICES ASSUME FlagsGivenOnce PROVE Spec => []MostSpecificParamWins
  OBVIOUS
<1>1. ASSUME PInv PROVE MostSpecificParamWins
  <2> SUFFICES ASSUME NEW t \in DOMAIN given, NEW key \in GivenKeys(t) \ {"TAILOR_NAMESPACE"}
               PROVE  ValueInOc(key, given[t].arguments, given[t].lines) = MostSpecific(t, key)
    BY DEF MostSpecificParamWins
  <2> DEFINE flagParams == call.flags["param"]
             fileParams == FileParams(CommandFile)
             arguments == given[t].arguments
  <2>1. /\ Comparing /\ arguments = ParamArguments(t, options, UsesNamespace)
        /\ ~ReadFails(disk.fs, FilesOf(t)) /\ given[t].lines = ReadParamFiles(disk.fs, FilesOf(t))
        /\ call \in Calls /\ disk \in Disks
    BY <1>1 DEF PInv, IInv, AskedAsOptionsSay, FilesRead, Given
  <2>2. options["param"] = MergedParams(flagParams, fileParams) /\ IsList(options["param-file"])
    BY <1>1, <2>1 DEF PInv, ParamsRead, Asked
  <2>3. IsList(flagParams) /\ IsList(fileParams)
    BY <1>1, FileParamsAreList DEF PInv, IInv
  <2> HIDE DEF flagParams, fileParams, arguments
  <2>4. /\ IsList(options["param"])
        /\ key \in Keys(options["param"]) <=> key \in Keys(flagParams) \cup Keys(fileParams)
        /\ key \in Keys(options["param"]) =>
             LastOf(options["param"], key) =
               IF key \notin Keys(flagParams) THEN LastOf(fileParams, key)
               ELSE IF key \in Keys(fileParams) THEN FirstOf(flagParams, key)
               ELSE LastOf(flagParams, key)
    BY <2>2, <2>3, MergedParamsValue
  <2>5. /\ key \in Keys(arguments) <=> key \in Keys(options["param"])
        /\ key \in Keys(arguments) => LastOf(arguments, key) = LastOf(options["param"], key)
    BY <2>1, <2>4, ArgumentsValue
  <2>6. key \in Keys(flagParams) => FirstOf(flagParams, key) = LastOf(flagParams, key)
    BY <2>1, FirstIsLast DEF flagParams
  <2>7. CASE key \in Keys(arguments)
    BY <2>4, <2>5, <2>6, <2>7 DEF ValueInOc, MostSpecific, Has, flagParams, fileParams, arguments
  <2>8. CASE key \notin Keys(arguments)
    <3>1. key \in Keys(given[t].lines)
      BY <2>8 DEF GivenKeys, arguments
    <3>2. LastOf(given[t].lines, key) = FromFiles(t, key)
      BY <2>1, <2>2, <3>1, FilesValue
    <3>3. key \notin Keys(flagParams) /\ key \notin Keys(fileParams)
      BY <2>4, <2>5, <2>8
    <3>4. QED
      BY <2>8, <3>1, <3>2, <3>3 DEF ValueInOc, MostSpecific, Has, flagParams, fileParams, arguments
  <2>9. QED
    BY <2>7, <2>8
<1>2. QED
  BY <1>1, ParamsInvariant, PTL

=============================================================================
