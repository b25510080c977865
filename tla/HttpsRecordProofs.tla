-------------------------- MODULE HttpsRecordProofs --------------------------
(***************************************************************************)
(* Proofs about HttpsRecord, for any specs with any number of params and   *)
(* entries in any spelling, and for any addresses of the target: the loop  *)
(* between the configuration, the comparison and the server closes.        *)
(***************************************************************************)
EXTENDS HttpsRecord, FiniteSetTheorems, FunctionTheorems, TLAPS

-----------------------------------------------------------------------------
(* Filters. *)

\* Counting how many of a set of positions come before each numbers them.
LEMMA Counted ==
    ASSUME NEW n \in Nat, NEW P \in SUBSET (1..n)
    PROVE  /\ IsFiniteSet(P) /\ Cardinality(P) \in Nat
           /\ \A i \in P : Cardinality({j \in P : j <= i}) \in 1..Cardinality(P)
           /\ \A k \in 1..Cardinality(P) :
                 \E i \in P : Cardinality({j \in P : j <= i}) = k
           /\ \A i, k \in P :
                 Cardinality({j \in P : j <= i}) = Cardinality({j \in P : j <= k})
                    => i = k
<1> DEFINE Upto(i) == {j \in P : j <= i}
           Rank == [i \in P |-> Cardinality(Upto(i))]
<1>1. IsFiniteSet(P) /\ Cardinality(P) \in Nat
  <2>1. IsFiniteSet(1..n)
    BY FS_Interval
  <2> QED BY <2>1, FS_Subset, FS_CardinalityType
<1>2. \A i \in P : IsFiniteSet(Upto(i)) /\ Cardinality(Upto(i)) \in Nat
  BY <1>1, FS_Subset, FS_CardinalityType
<1>3. \A i \in P : Cardinality(Upto(i)) \in 1..Cardinality(P)
  <2> TAKE i \in P
  <2>1. Upto(i) \subseteq P /\ i \in Upto(i)
    OBVIOUS
  <2> HIDE DEF Upto
  <2>2. Cardinality(Upto(i)) <= Cardinality(P) /\ Cardinality(Upto(i)) # 0
    BY <1>1, <1>2, <2>1, FS_Subset, FS_EmptySet
  <2> QED BY <1>1, <1>2, <2>2
<1>4. \A i, k \in P : i < k => Cardinality(Upto(i)) # Cardinality(Upto(k))
  <2> SUFFICES ASSUME NEW i \in P, NEW k \in P, i < k
               PROVE  Cardinality(Upto(i)) # Cardinality(Upto(k))
    OBVIOUS
  <2>1. P \subseteq Nat /\ i \in Nat /\ k \in Nat
    OBVIOUS
  <2>2. Upto(i) \subseteq Upto(k)
    <3> SUFFICES ASSUME NEW j \in P, j <= i PROVE j <= k
      OBVIOUS
    <3> QED BY <2>1
  <2>3. k \in Upto(k) /\ k \notin Upto(i)
    BY <2>1
  <2> HIDE DEF Upto
  <2> QED BY <1>2, <2>2, <2>3, FS_Subset
<1>5. \A i, k \in P : Cardinality(Upto(i)) = Cardinality(Upto(k)) => i = k
  BY <1>4
<1>6. Rank \in Injection(P, 1..Cardinality(P))
  <2> HIDE DEF Upto
  <2>1. Rank \in [P -> 1..Cardinality(P)]
    BY <1>3
  <2> QED BY <1>5, <2>1, Fun_IsInj
<1>7. Rank \in Surjection(P, 1..Cardinality(P))
  <2> HIDE DEF Rank
  <2> QED BY <1>1, <1>6, FS_Injection, FS_Interval
<1>8. \A k \in 1..Cardinality(P) : \E i \in P : Rank[i] = k
  <2> HIDE DEF Rank
  <2> QED BY <1>7 DEF Surjection
<1> QED BY <1>1, <1>3, <1>5, <1>8

\* t has n elements, those of s at the positions P, each once.
Picks(t, s, P, n, at) ==
    /\ n \in Nat /\ at \in [1..n -> P]
    /\ t = [k \in 1..n |-> s[at[k]]]
    /\ \A k, l \in 1..n : at[k] = at[l] => k = l
    /\ \A i \in P : \E k \in 1..n : at[k] = i

\* A filter keeps the elements it is to keep, each once, and no others.
LEMMA KeptElements ==
    ASSUME NEW S, NEW s \in Seq(S), NEW P \in SUBSET DOMAIN s
    PROVE  \E n, at : Picks(Kept(s, P), s, P, n, at)
<1> DEFINE Rank(i) == Cardinality({j \in P : j <= i})
           Nth(k) == CHOOSE i \in P : Rank(i) = k
<1>1. DOMAIN s = 1..Len(s) /\ Len(s) \in Nat
  OBVIOUS
<1>2. /\ Cardinality(P) \in Nat
      /\ \A i \in P : Rank(i) \in 1..Cardinality(P)
      /\ \A k \in 1..Cardinality(P) : \E i \in P : Rank(i) = k
      /\ \A i, k \in P : Rank(i) = Rank(k) => i = k
  BY <1>1, Counted
<1>3. Kept(s, P) = [k \in 1..Cardinality(P) |-> s[Nth(k)]]
  BY DEF Kept
<1> HIDE DEF Rank
<1>4. \A k \in 1..Cardinality(P) : Nth(k) \in P /\ Rank(Nth(k)) = k
  BY <1>2
<1> HIDE DEF Nth
<1>5. \A i \in P : Nth(Rank(i)) = i
  BY <1>2, <1>4
<1> DEFINE at == [k \in 1..Cardinality(P) |-> Nth(k)]
<1>6. at \in [1..Cardinality(P) -> P]
  BY <1>4
<1>7. \A k, l \in 1..Cardinality(P) : at[k] = at[l] => k = l
  BY <1>4
<1>8. \A i \in P : \E k \in 1..Cardinality(P) : at[k] = i
  BY <1>2, <1>5
<1>9. Kept(s, P) = [k \in 1..Cardinality(P) |-> s[at[k]]]
  BY <1>3
<1> HIDE DEF at
<1>10. Picks(Kept(s, P), s, P, Cardinality(P), at)
  BY <1>2, <1>6, <1>7, <1>8, <1>9 DEF Picks
<1> QED BY <1>10

\* A filter that keeps everything changes nothing.
LEMMA KeptAll ==
    ASSUME NEW S, NEW s \in Seq(S)
    PROVE  Kept(s, DOMAIN s) = s
<1> DEFINE P == DOMAIN s
           Nth(k) == CHOOSE i \in P : Cardinality({j \in P : j <= i}) = k
<1>1. P = 1..Len(s) /\ Len(s) \in Nat
  OBVIOUS
<1>2. Cardinality(P) = Len(s)
  BY <1>1, FS_Interval
<1>3. \A i \in P : Cardinality({j \in P : j <= i}) = i
  <2> TAKE i \in P
  <2>1. i \in Nat /\ i >= 1 /\ i <= Len(s)
    BY <1>1
  <2>2. {j \in P : j <= i} = 1..i
    BY <1>1, <2>1
  <2>3. Cardinality(1..i) = i
    BY <2>1, FS_Interval
  <2> QED BY <2>2, <2>3
<1>4. \A k \in P : Nth(k) = k
  BY <1>1, <1>3
<1>5. Kept(s, P) = [k \in 1..Cardinality(P) |-> s[Nth(k)]]
  BY DEF Kept
<1> HIDE DEF Nth
<1> QED BY <1>1, <1>2, <1>4, <1>5

-----------------------------------------------------------------------------
(* Entries of values. *)

\* What an entry is made of.
LEMMA EntryText ==
    ASSUME NEW v \in Value, NEW i \in DOMAIN v
    PROVE  v[i].text \in Texts /\ v[i].plain \in BOOLEAN
<1>1. v \in Seq(Entries)
  BY DEF Value
<1>2. v[i] \in Entries
  BY <1>1
<1> QED BY <1>2 DEF Entries

\* Splitting keeps the texts that are not blank.
LEMMA SplitTexts ==
    ASSUME NEW v \in Value
    PROVE  /\ SplitTrim(v) \in Seq(Texts \ {Blank})
           /\ ToSet(SplitTrim(v)) = {v[i].text : i \in DOMAIN v} \ {Blank}
<1> DEFINE P == {i \in DOMAIN v : v[i].text # Blank}
<1>1. v \in Seq(Entries)
  BY DEF Value
<1>2. P \in SUBSET DOMAIN v
  OBVIOUS
<1>3. PICK n, at : Picks(Kept(v, P), v, P, n, at)
  BY <1>1, <1>2, KeptElements
<1>4. /\ n \in Nat /\ at \in [1..n -> P]
      /\ Kept(v, P) = [k \in 1..n |-> v[at[k]]]
      /\ \A i \in P : \E k \in 1..n : at[k] = i
  BY <1>3 DEF Picks
<1>5. SplitTrim(v) = [k \in 1..n |-> v[at[k]].text]
  BY <1>4 DEF SplitTrim
<1>6. \A k \in 1..n : at[k] \in DOMAIN v /\ v[at[k]].text \in Texts \ {Blank}
  BY <1>4, EntryText
<1>7. SplitTrim(v) \in [1..n -> Texts \ {Blank}] /\ n \in Nat
  BY <1>5, <1>6, <1>4
<1>8. ToSet(SplitTrim(v)) = {v[at[k]].text : k \in 1..n}
  BY <1>5 DEF ToSet
<1>9. {v[at[k]].text : k \in 1..n} = {v[i].text : i \in DOMAIN v} \ {Blank}
  BY <1>4, <1>6
<1> HIDE DEF P
<1>10. SplitTrim(v) \in Seq(Texts \ {Blank})
  BY <1>7
<1> QED BY <1>8, <1>9, <1>10

\* Splitting what has no blank entry changes nothing.
LEMMA SplitPlain ==
    ASSUME NEW m \in Seq(Texts \ {Blank}), NEW plain \in BOOLEAN
    PROVE  SplitTrim([i \in DOMAIN m |-> [text |-> m[i], plain |-> plain]]) = m
<1> DEFINE v == [i \in DOMAIN m |-> [text |-> m[i], plain |-> plain]]
<1>1. DOMAIN m = 1..Len(m) /\ Len(m) \in Nat /\ DOMAIN v = DOMAIN m
  OBVIOUS
<1>2. v \in [1..Len(m) -> Entries]
  BY <1>1 DEF Entries
<1>3. v \in Seq(Entries)
  BY <1>1, <1>2
<1>4. {i \in DOMAIN v : v[i].text # Blank} = DOMAIN v
  BY <1>1
<1>5. Kept(v, DOMAIN v) = v
  BY <1>3, KeptAll
<1>6. SplitTrim(v) = [i \in DOMAIN v |-> v[i].text]
  BY <1>4, <1>5 DEF SplitTrim
<1> QED BY <1>1, <1>6

\* No spelling of the value of k is sent verbatim but not compared.
Plain(k, v) == k = "dohpath" => \A i \in DOMAIN v : v[i].plain

\* The meanings a value of k may have.
Meant(k, m) ==
    CASE k = "mandatory"       -> IsFiniteSet(m) /\ m \subseteq Texts \ {Blank}
      [] k = "no-default-alpn" -> m = <<>>
      [] k = "dohpath"         -> m \in Value /\ Plain(k, m)
      [] OTHER                 -> m \in Seq(Texts \ {Blank})

LEMMA MeaningMeant ==
    ASSUME NEW k, NEW v \in Value, Plain(k, v)
    PROVE  Meant(k, Meaning(k, v))
<1>1. CASE k = "mandatory"
  <2> DEFINE T == {v[i].text : i \in DOMAIN v}
             f == [i \in DOMAIN v |-> v[i].text]
  <2>1. v \in Seq(Entries)
    BY DEF Value
  <2>2. IsFiniteSet(DOMAIN v)
    BY <2>1, FS_Interval
  <2>3. f \in Surjection(DOMAIN v, T)
    BY DEF Surjection
  <2>4. T \subseteq Texts
    BY EntryText
  <2> HIDE DEF T, f
  <2>5. IsFiniteSet(T)
    BY <2>2, <2>3, FS_Surjection
  <2>6. IsFiniteSet(T \ {Blank})
    BY <2>5, FS_RemoveElement
  <2>7. Meaning(k, v) = T \ {Blank}
    BY <1>1 DEF Meaning, T
  <2> QED BY <1>1, <2>4, <2>6, <2>7 DEF Meant
<1>2. CASE k = "no-default-alpn"
  BY <1>2 DEF Meaning, Meant
<1>3. CASE k = "dohpath"
  BY <1>3 DEF Meaning, Meant
<1>4. CASE k \notin {"mandatory", "no-default-alpn", "dohpath"}
  BY <1>4, SplitTexts DEF Meaning, Meant
<1> QED BY <1>1, <1>2, <1>3, <1>4

\* What a set is listed as.
LEMMA ListedOnce ==
    ASSUME NEW S, IsFiniteSet(S)
    PROVE  /\ Cardinality(S) \in Nat
           /\ SetToSeq(S) \in [1..Cardinality(S) -> S]
           /\ \A i, j \in 1..Cardinality(S) : SetToSeq(S)[i] = SetToSeq(S)[j] => i = j
           /\ \A x \in S : \E i \in 1..Cardinality(S) : SetToSeq(S)[i] = x
<1> DEFINE D == 1..Cardinality(S)
<1>1. Cardinality(S) \in Nat /\ ExistsBijection(D, S)
  BY FS_CardinalityType
<1>2. PICK f \in Bijection(D, S) : TRUE
  BY <1>1 DEF ExistsBijection
<1>3. f \in [D -> S] /\ IsInjective(f)
  BY <1>2 DEF Bijection, Injection, IsInjective
<1>4. SetToSeq(S) \in [D -> S] /\ IsInjective(SetToSeq(S))
  BY <1>3 DEF SetToSeq
<1>5. SetToSeq(S) \in Injection(D, S)
  BY <1>4 DEF Injection, IsInjective
<1>6. SetToSeq(S) \in Surjection(D, S)
  <2>1. Cardinality(D) = Cardinality(S)
    BY <1>1, FS_Interval
  <2> QED BY <1>5, <2>1, FS_Injection
<1> QED BY <1>1, <1>4, <1>6 DEF Surjection, IsInjective

-----------------------------------------------------------------------------
(* Lists of params. *)

KeyOf(p) == p.key.name

\* A list of known keys, none of them twice.
TidyList(ps) ==
    /\ \E S : ps \in Seq(S)
    /\ \A i \in DOMAIN ps : KeyOf(ps[i]) \in Keys
    /\ \A i, j \in DOMAIN ps : KeyOf(ps[i]) = KeyOf(ps[j]) => i = j

KeysOf(ps) == {KeyOf(ps[i]) : i \in DOMAIN ps}

LEMMA TidyKeys ==
    ASSUME NEW ps, TidyList(ps), NEW i \in DOMAIN ps
    PROVE  NormalizeKey(ps[i].key) = KeyOf(ps[i]) /\ KeyOf(ps[i]) # NoKey
BY KeysAssumption DEF TidyList, NormalizeKey, KeyOf

\* What is stored of a tidy list.
LEMMA StoredTidy ==
    ASSUME NEW ps, TidyList(ps)
    PROVE  /\ DOMAIN Stored(EncodeParams(ps)) = KeysOf(ps)
           /\ \A i \in DOMAIN ps :
                 Stored(EncodeParams(ps))[KeyOf(ps[i])]
                    = Meaning(KeyOf(ps[i]), ps[i].value)
<1> DEFINE pairs == [i \in DOMAIN ps |-> [key |-> KeyOf(ps[i]), value |-> ps[i].value]]
           The(k) == CHOOSE p \in ToSet(pairs) : p.key = k
<1>1. \A i \in DOMAIN ps : NormalizeKey(ps[i].key) = KeyOf(ps[i]) /\ KeyOf(ps[i]) # NoKey
  BY TidyKeys
<1>2. EncodeParams(ps) = pairs
  BY <1>1 DEF EncodeParams
<1>3. \A i \in DOMAIN ps : The(KeyOf(ps[i])) = pairs[i]
  <2> TAKE i \in DOMAIN ps
  <2>1. pairs[i] \in ToSet(pairs) /\ pairs[i].key = KeyOf(ps[i])
    BY DEF ToSet
  <2>2. \A p \in ToSet(pairs) : p.key = KeyOf(ps[i]) => p = pairs[i]
    BY DEF ToSet, TidyList
  <2> HIDE DEF pairs
  <2> QED BY <2>1, <2>2
<1>4. {pairs[i].key : i \in DOMAIN pairs} = KeysOf(ps)
  BY DEF KeysOf
<1>5. Stored(pairs) = [k \in KeysOf(ps) |-> Meaning(k, The(k).value)]
  BY <1>4 DEF Stored
<1> HIDE DEF The
<1>6. \A i \in DOMAIN ps : The(KeyOf(ps[i])).value = ps[i].value
  BY <1>3
<1> HIDE DEF pairs
<1> QED BY <1>2, <1>5, <1>6 DEF KeysOf

\* What is compared of a tidy list.
Signed(ps, auto) ==
    {<<KeyOf(ps[i]), CanonicalValue(KeyOf(ps[i]), ps[i].value)>> :
        i \in {j \in DOMAIN ps : KeyOf(ps[j]) \notin auto}}

LEMMA SignedTidy ==
    ASSUME NEW spec, TidyList(spec.params)
    PROVE  CanonicalParams(EffectiveParams(spec)) = Signed(spec.params, spec.auto)
<1> DEFINE ps == spec.params
           P == {i \in DOMAIN ps : KeyOf(ps[i]) \notin spec.auto}
           kept == Kept(ps, P)
           Pair(p) == <<KeyOf(p), CanonicalValue(KeyOf(p), p.value)>>
<1>1. \A i \in DOMAIN ps : NormalizeKey(ps[i].key) = KeyOf(ps[i]) /\ KeyOf(ps[i]) # NoKey
  BY TidyKeys
<1>2. EffectiveParams(spec) = kept
  BY <1>1 DEF EffectiveParams
<1>3. PICK n, at : Picks(kept, ps, P, n, at)
  <2>1. PICK S : ps \in Seq(S)
    BY DEF TidyList
  <2>2. P \in SUBSET DOMAIN ps
    OBVIOUS
  <2> HIDE DEF P, ps
  <2> QED BY <2>1, <2>2, KeptElements
<1>4. /\ at \in [1..n -> P] /\ n \in Nat
      /\ kept = [k \in 1..n |-> ps[at[k]]]
      /\ \A k, l \in 1..n : at[k] = at[l] => k = l
      /\ \A i \in P : \E k \in 1..n : at[k] = i
  BY <1>3 DEF Picks
<1>5. \A k \in 1..n : at[k] \in P /\ at[k] \in DOMAIN ps /\ kept[k] = ps[at[k]]
  BY <1>4
<1>6. DOMAIN kept = 1..n
  BY <1>4
<1> HIDE DEF kept, ps
<1>7. \A k, l \in 1..n : KeyOf(kept[k]) = KeyOf(kept[l]) => k = l
  BY <1>4, <1>5 DEF TidyList, ps
<1>8. \A k \in 1..n :
         NormalizeKey(kept[k].key) = KeyOf(kept[k]) /\ KeyOf(kept[k]) # NoKey
  BY <1>1, <1>5
<1>9. LastOfKey(kept) = 1..n
  BY <1>6, <1>7, <1>8 DEF LastOfKey
<1>10. CanonicalParams(kept) = {Pair(kept[k]) : k \in 1..n}
  BY <1>8, <1>9 DEF CanonicalParams
<1>11. {Pair(kept[k]) : k \in 1..n} = {Pair(ps[i]) : i \in P}
  <2>1. \A k \in 1..n : Pair(kept[k]) = Pair(ps[at[k]])
    BY <1>5
  <2> HIDE DEF Pair, P
  <2> QED BY <1>4, <1>5, <2>1
<1>12. {Pair(ps[i]) : i \in P} = Signed(ps, spec.auto)
  BY DEF Signed
<1> QED BY <1>2, <1>10, <1>11, <1>12 DEF ps

-----------------------------------------------------------------------------
(* Records. *)

Valid == {s \in Specs : ValidateSpec(s)}

\* No dohpath is saved with spaces around it.
PlainPaths ==
    \A s \in Specs : \A i \in DOMAIN s.params :
        Plain(KeyOf(s.params[i]), s.params[i].value)

LEMMA ValidTidy ==
    ASSUME NEW s \in Valid
    PROVE  /\ TidyList(s.params)
           /\ s.auto \subseteq HintKeys
           /\ \A i \in DOMAIN s.params : s.params[i].value \in Value
<1>1. s.params \in Seq(Param) /\ s.auto \subseteq HintKeys
  BY SpecsAssumption DEF Valid
<1>2. \A i \in DOMAIN s.params : s.params[i] \in Param
  BY <1>1
<1>3. \A i \in DOMAIN s.params : s.params[i].value \in Value
  BY <1>2 DEF Param
<1>4. /\ \A i \in DOMAIN s.params : ValidateParam(s.params[i])
      /\ \A i, j \in DOMAIN s.params :
            NormalizeKey(s.params[i].key) = NormalizeKey(s.params[j].key) => i = j
  BY DEF Valid, ValidateSpec
<1>5. \A i \in DOMAIN s.params :
         NormalizeKey(s.params[i].key) = KeyOf(s.params[i]) /\ KeyOf(s.params[i]) \in Keys
  BY <1>4, KeysAssumption DEF ValidateParam, NormalizeKey, KeyOf
<1>6. \A i, j \in DOMAIN s.params :
         KeyOf(s.params[i]) = KeyOf(s.params[j]) => i = j
  BY <1>4, <1>5
<1> QED BY <1>1, <1>3, <1>5, <1>6 DEF TidyList

LEMMA FiniteKeys ==
    ASSUME NEW ps, TidyList(ps)
    PROVE  IsFiniteSet(KeysOf(ps)) /\ KeysOf(ps) \subseteq Keys
<1> DEFINE f == [i \in DOMAIN ps |-> KeyOf(ps[i])]
<1>1. IsFiniteSet(DOMAIN ps)
  <2>1. PICK S : ps \in Seq(S)
    BY DEF TidyList
  <2>2. DOMAIN ps = 1..Len(ps) /\ Len(ps) \in Nat
    BY <2>1
  <2> QED BY <2>2, FS_Interval
<1>2. f \in Surjection(DOMAIN ps, KeysOf(ps))
  BY DEF Surjection, KeysOf
<1> HIDE DEF f
<1>3. IsFiniteSet(KeysOf(ps))
  BY <1>1, <1>2, FS_Surjection
<1> QED BY <1>3 DEF TidyList, KeysOf

\* The keys of the params of a record for s, when the target has these addresses.
RecordKeys(s, hs) ==
    (KeysOf(s.params) \ Automatic(s)) \cup {k \in Automatic(s) : hs[k] # <<>>}

\* The params of a record that the plugin has written.
LEMMA RecordParams ==
    ASSUME PlainPaths, NEW s \in Valid, NEW hs \in HintSets
    PROVE  LET params == RecordOf(s, hs).params
           IN  /\ DOMAIN params = RecordKeys(s, hs)
               /\ \A i \in DOMAIN s.params : KeyOf(s.params[i]) \notin Automatic(s) =>
                     params[KeyOf(s.params[i])] =
                        Meaning(KeyOf(s.params[i]), s.params[i].value)
               /\ \A k \in Automatic(s) : hs[k] # <<>> => params[k] = hs[k]
               /\ IsFiniteSet(DOMAIN params) /\ DOMAIN params \subseteq Keys
               /\ \A k \in DOMAIN params : Meant(k, params[k])
<1> DEFINE sent == Stored(EncodeParams(s.params))
           params == Rehinted(sent, Automatic(s), hs)
<1>1. /\ TidyList(s.params) /\ Automatic(s) \subseteq HintKeys
      /\ \A i \in DOMAIN s.params : s.params[i].value \in Value
  BY ValidTidy DEF Automatic
<1>2. /\ DOMAIN sent = KeysOf(s.params)
      /\ \A i \in DOMAIN s.params :
            sent[KeyOf(s.params[i])] = Meaning(KeyOf(s.params[i]), s.params[i].value)
  BY <1>1, StoredTidy
<1> HIDE DEF sent
<1>3. params = [k \in RecordKeys(s, hs) |-> IF k \in Automatic(s) THEN hs[k] ELSE sent[k]]
  BY <1>2 DEF Rehinted, RecordKeys
<1> HIDE DEF params
<1>4. RecordOf(s, hs).params = params
  BY DEF RecordOf, params, sent
<1>5. IsFiniteSet(RecordKeys(s, hs)) /\ RecordKeys(s, hs) \subseteq Keys
  <2>1. IsFiniteSet(KeysOf(s.params)) /\ KeysOf(s.params) \subseteq Keys
    BY <1>1, FiniteKeys
  <2>2. IsFiniteSet({"ipv4hint", "ipv6hint"})
    <3>1. {"ipv4hint", "ipv6hint"} = {"ipv4hint"} \cup {"ipv6hint"}
      OBVIOUS
    <3>2. IsFiniteSet({"ipv4hint"})
      BY FS_Singleton
    <3> QED BY <3>1, <3>2, FS_AddElement
  <2>3. HintKeys \subseteq Keys /\ IsFiniteSet(HintKeys)
    BY <2>2 DEF HintKeys, Keys, KnownKeys
  <2>4. IsFiniteSet(KeysOf(s.params) \cup HintKeys)
    BY <2>1, <2>3, FS_Union
  <2>5. RecordKeys(s, hs) \subseteq KeysOf(s.params) \cup HintKeys
    BY <1>1 DEF RecordKeys
  <2> QED BY <2>1, <2>3, <2>4, <2>5, FS_Subset
<1>6. \A i \in DOMAIN s.params : KeyOf(s.params[i]) \notin Automatic(s) =>
         params[KeyOf(s.params[i])] = Meaning(KeyOf(s.params[i]), s.params[i].value)
  BY <1>2, <1>3 DEF RecordKeys, KeysOf
<1>7. \A k \in Automatic(s) : hs[k] # <<>> => params[k] = hs[k]
  BY <1>3 DEF RecordKeys
<1>8. \A k \in RecordKeys(s, hs) : Meant(k, params[k])
  <2> TAKE k \in RecordKeys(s, hs)
  <2>1. CASE k \in Automatic(s)
    <3>1. k \in HintKeys /\ params[k] = hs[k]
      BY <1>1, <1>7, <2>1 DEF RecordKeys
    <3>2. hs[k] \in Seq(Texts \ {Blank})
      BY <3>1, HintSetsAssumption
    <3> QED BY <3>1, <3>2 DEF Meant, HintKeys
  <2>2. CASE k \notin Automatic(s)
    <3>1. PICK i \in DOMAIN s.params : k = KeyOf(s.params[i])
      BY <2>2 DEF RecordKeys, KeysOf
    <3>2. params[k] = Meaning(k, s.params[i].value)
      BY <1>6, <2>2, <3>1
    <3>3. s.params[i].value \in Value /\ Plain(k, s.params[i].value)
      BY <1>1, <3>1 DEF PlainPaths, Valid
    <3> QED BY <3>2, <3>3, MeaningMeant
  <2> QED BY <2>1, <2>2
<1>9. DOMAIN params = RecordKeys(s, hs)
  BY <1>3
<1> QED BY <1>4, <1>5, <1>6, <1>7, <1>8, <1>9

-----------------------------------------------------------------------------
(* What the server reports is what it holds. *)

LEMMA ReportedTexts ==
    ASSUME NEW m, IsFiniteSet(m), m \subseteq Texts \ {Blank}, NEW plain \in BOOLEAN
    PROVE  /\ Reported("mandatory", m, plain) \in Value
           /\ {Reported("mandatory", m, plain)[i].text :
                  i \in DOMAIN Reported("mandatory", m, plain)} = m
<1> DEFINE r == [i \in 1..Cardinality(m) |-> [text |-> SetToSeq(m)[i], plain |-> plain]]
<1>1. Reported("mandatory", m, plain) = r
  BY DEF Reported
<1>2. /\ Cardinality(m) \in Nat
      /\ \A i \in 1..Cardinality(m) : SetToSeq(m)[i] \in m
      /\ \A x \in m : \E i \in 1..Cardinality(m) : SetToSeq(m)[i] = x
  BY ListedOnce
<1>3. r \in [1..Cardinality(m) -> Entries]
  BY <1>2 DEF Entries
<1>4. {r[i].text : i \in DOMAIN r} = m
  BY <1>2
<1> HIDE DEF r
<1>5. r \in Value
  BY <1>2, <1>3 DEF Value
<1> QED BY <1>1, <1>4, <1>5

LEMMA ReportedMeans ==
    ASSUME NEW k, NEW m, Meant(k, m), NEW plain \in BOOLEAN
    PROVE  Meaning(k, Reported(k, m, plain)) = m
<1>1. CASE k = "mandatory"
  BY <1>1, ReportedTexts DEF Meant, Meaning
<1>2. CASE k = "no-default-alpn"
  BY <1>2 DEF Meant, Meaning
<1>3. CASE k = "dohpath"
  BY <1>3 DEF Meant, Meaning, Reported
<1>4. CASE k \notin {"mandatory", "no-default-alpn", "dohpath"}
  <2>1. /\ Reported(k, m, plain) = [i \in DOMAIN m |-> [text |-> m[i], plain |-> plain]]
        /\ m \in Seq(Texts \ {Blank})
    BY <1>4 DEF Meant, Reported
  <2>2. Meaning(k, Reported(k, m, plain)) = SplitTrim(Reported(k, m, plain))
    BY <1>4 DEF Meaning
  <2> QED BY <2>1, <2>2, SplitPlain
<1> QED BY <1>1, <1>2, <1>3, <1>4

\* A reported value compares equal to a saved one just if they mean the same.
LEMMA SameValue ==
    ASSUME NEW k, NEW m, Meant(k, m), NEW plain \in BOOLEAN,
           NEW v \in Value, Plain(k, v)
    PROVE  CanonicalValue(k, Reported(k, m, plain)) = CanonicalValue(k, v)
              <=> m = Meaning(k, v)
<1>1. CASE k = "mandatory"
  <2>1. IsFiniteSet(m) /\ m \subseteq Texts \ {Blank}
    BY <1>1 DEF Meant
  <2> DEFINE r == Reported("mandatory", m, plain)
  <2>2. r \in Value /\ {r[i].text : i \in DOMAIN r} = m
    BY <2>1, ReportedTexts
  <2> HIDE DEF r
  <2>3. ToSet(SplitTrim(r)) = m
    BY <2>1, <2>2, SplitTexts
  <2>4. ToSet(SplitTrim(v)) = Meaning(k, v)
    BY <1>1, SplitTexts DEF Meaning
  <2> QED BY <1>1, <2>3, <2>4 DEF CanonicalValue, r
<1>2. CASE k = "no-default-alpn"
  BY <1>2 DEF CanonicalValue, Meant, Meaning
<1>3. CASE k = "dohpath"
  <2>1. m \in Value /\ Plain(k, m) /\ Reported(k, m, plain) = m /\ Meaning(k, v) = v
    BY <1>3 DEF Meant, Reported, Meaning
  <2>2. /\ CanonicalValue(k, m) = [i \in DOMAIN m |-> m[i].text]
        /\ CanonicalValue(k, v) = [i \in DOMAIN v |-> v[i].text]
    BY <1>3 DEF CanonicalValue
  <2>3. ASSUME CanonicalValue(k, m) = CanonicalValue(k, v)
        PROVE  m = v
    <3>1. DOMAIN m = DOMAIN v /\ \A i \in DOMAIN m : m[i].text = v[i].text
      BY <2>2, <2>3
    <3>2. \A i \in DOMAIN m : m[i] \in Entries /\ v[i] \in Entries
      BY <2>1, <3>1 DEF Value
    <3>3. \A i \in DOMAIN m : m[i] = v[i]
      BY <1>3, <2>1, <3>1, <3>2 DEF Plain, Entries
    <3> QED BY <2>1, <3>1, <3>3 DEF Value
  <2> QED BY <2>1, <2>3
<1>4. CASE k \notin {"mandatory", "no-default-alpn", "dohpath"}
  <2>1. /\ Reported(k, m, plain) = [i \in DOMAIN m |-> [text |-> m[i], plain |-> plain]]
        /\ m \in Seq(Texts \ {Blank})
    BY <1>4 DEF Meant, Reported
  <2>2. /\ CanonicalValue(k, Reported(k, m, plain)) = SplitTrim(Reported(k, m, plain))
        /\ CanonicalValue(k, v) = SplitTrim(v)
        /\ Meaning(k, v) = SplitTrim(v)
    BY <1>4 DEF CanonicalValue, Meaning
  <2>3. SplitTrim(Reported(k, m, plain)) = m
    BY <2>1, SplitPlain
  <2> QED BY <2>2, <2>3
<1> QED BY <1>1, <1>2, <1>3, <1>4

\* The params of a record as they are read back.
LEMMA ParsedTidy ==
    ASSUME NEW r, IsFiniteSet(DOMAIN r.params), DOMAIN r.params \subseteq Keys,
           NEW plain
    PROVE  LET ps == Parsed(r, plain).params
           IN  /\ TidyList(ps)
               /\ KeysOf(ps) = DOMAIN r.params
               /\ \A i \in DOMAIN ps :
                     ps[i].value = Reported(KeyOf(ps[i]), r.params[KeyOf(ps[i])], plain)
<1> DEFINE D == DOMAIN r.params
           ks == SetToSeq(D)
           ps == [i \in DOMAIN ks |->
                    [key   |-> [name |-> ks[i], plain |-> TRUE],
                     value |-> Reported(ks[i], r.params[ks[i]], plain),
                     bar   |-> FALSE]]
<1>1. /\ Cardinality(D) \in Nat
      /\ ks \in [1..Cardinality(D) -> D]
      /\ \A i, j \in 1..Cardinality(D) : ks[i] = ks[j] => i = j
      /\ \A x \in D : \E i \in 1..Cardinality(D) : ks[i] = x
  BY ListedOnce
<1>2. Parsed(r, plain).params = ps
  BY DEF Parsed
<1> HIDE DEF ks
<1>3. DOMAIN ps = 1..Cardinality(D) /\ DOMAIN ks = 1..Cardinality(D)
  BY <1>1
<1>4. \A i \in DOMAIN ps :
         /\ KeyOf(ps[i]) = ks[i]
         /\ ps[i].value = Reported(ks[i], r.params[ks[i]], plain)
  BY DEF KeyOf
<1>5. \E S : ps \in Seq(S)
  <2>1. ps \in [1..Cardinality(D) -> {ps[i] : i \in DOMAIN ps}]
    BY <1>3
  <2>2. ps \in Seq({ps[i] : i \in DOMAIN ps})
    BY <1>1, <2>1
  <2> QED BY <2>2
<1> HIDE DEF ps
<1>6. TidyList(ps)
  BY <1>1, <1>3, <1>4, <1>5 DEF TidyList
<1>7. KeysOf(ps) = D
  BY <1>1, <1>3, <1>4 DEF KeysOf
<1> QED BY <1>2, <1>4, <1>6, <1>7

-----------------------------------------------------------------------------
(* A record of the plugin, read back. *)

\* Its params are those in the zone: the record is found by them.
LEMMA ParsedIdentifies ==
    ASSUME PlainPaths, NEW s \in Valid, NEW hs \in HintSets, NEW plain \in BOOLEAN
    PROVE  LET r == RecordOf(s, hs)
           IN  Stored(EncodeParams(Parsed(r, plain).params)) = r.params
<1> DEFINE r == RecordOf(s, hs)
           ps == Parsed(r, plain).params
           sent == Stored(EncodeParams(ps))
<1>1. /\ IsFiniteSet(DOMAIN r.params) /\ DOMAIN r.params \subseteq Keys
      /\ \A k \in DOMAIN r.params : Meant(k, r.params[k])
  BY RecordParams
<1>2. r.params = [k \in DOMAIN r.params |-> r.params[k]]
  BY DEF RecordOf, Rehinted
<1>3. sent = [k \in DOMAIN sent |-> sent[k]]
  BY DEF Stored
<1> HIDE DEF r
<1>4. /\ TidyList(ps) /\ KeysOf(ps) = DOMAIN r.params
      /\ \A i \in DOMAIN ps :
            ps[i].value = Reported(KeyOf(ps[i]), r.params[KeyOf(ps[i])], plain)
  BY <1>1, ParsedTidy
<1> HIDE DEF ps
<1>5. /\ DOMAIN sent = KeysOf(ps)
      /\ \A i \in DOMAIN ps :
            sent[KeyOf(ps[i])] = Meaning(KeyOf(ps[i]), ps[i].value)
  BY <1>4, StoredTidy
<1> HIDE DEF sent
<1>6. \A k \in DOMAIN r.params : sent[k] = r.params[k]
  <2> TAKE k \in DOMAIN r.params
  <2>1. PICK i \in DOMAIN ps : k = KeyOf(ps[i])
    BY <1>4 DEF KeysOf
  <2>2. sent[k] = Meaning(k, Reported(k, r.params[k], plain))
    BY <1>4, <1>5, <2>1
  <2> QED BY <1>1, <2>2, ReportedMeans
<1>7. sent = r.params
  BY <1>2, <1>3, <1>4, <1>5, <1>6
<1> QED BY <1>7 DEF sent, ps, r

\* It compares equal to the spec that is wanted just if it means the same.
LEMMA SameMeans ==
    ASSUME PlainPaths, NEW s \in Valid, NEW hs \in HintSets, NEW plain \in BOOLEAN,
           NEW t \in Valid
    PROVE  LET r == RecordOf(s, hs)
           IN  SameHTTPS(Parsed(r, plain), t)
                  <=> /\ r.priority = t.priority
                      /\ r.target = t.target.name
                      /\ r.auto = t.auto
                      /\ ParamsMean(r, t)
<1> DEFINE r == RecordOf(s, hs)
           actual == Parsed(r, plain)
           ps == actual.params
           qs == t.params
           Read(k) == CanonicalValue(k, Reported(k, r.params[k], plain))
           Asked(i) == CanonicalValue(KeyOf(qs[i]), qs[i].value)
<1>1. /\ IsFiniteSet(DOMAIN r.params) /\ DOMAIN r.params \subseteq Keys
      /\ \A k \in DOMAIN r.params : Meant(k, r.params[k])
  BY RecordParams
<1> HIDE DEF r
<1>2. /\ TidyList(ps) /\ KeysOf(ps) = DOMAIN r.params
      /\ \A i \in DOMAIN ps :
            ps[i].value = Reported(KeyOf(ps[i]), r.params[KeyOf(ps[i])], plain)
  BY <1>1, ParsedTidy
<1>3. /\ actual.priority = r.priority /\ actual.auto = r.auto
      /\ actual.target.name = r.target
  BY DEF Parsed
<1> HIDE DEF actual
<1>4. /\ TidyList(qs)
      /\ \A i \in DOMAIN qs : qs[i].value \in Value /\ Plain(KeyOf(qs[i]), qs[i].value)
  BY ValidTidy DEF PlainPaths, Valid
<1>5. /\ CanonicalParams(EffectiveParams(actual)) = Signed(ps, actual.auto)
      /\ CanonicalParams(EffectiveParams(t)) = Signed(qs, t.auto)
  BY <1>2, <1>4, SignedTidy
<1> HIDE DEF ps, qs
<1>6. Signed(ps, t.auto) = {<<k, Read(k)>> : k \in DOMAIN r.params \ t.auto}
  <2>1. \A i \in DOMAIN ps :
           CanonicalValue(KeyOf(ps[i]), ps[i].value) = Read(KeyOf(ps[i]))
    BY <1>2
  <2> HIDE DEF Read
  <2> QED BY <1>2, <2>1 DEF Signed, KeysOf
<1>7. Signed(qs, t.auto) =
         {<<KeyOf(qs[i]), Asked(i)>> : i \in {j \in DOMAIN qs : KeyOf(qs[j]) \notin t.auto}}
  BY DEF Signed
<1>8. \A i \in DOMAIN qs : KeyOf(qs[i]) \in DOMAIN r.params =>
         (Read(KeyOf(qs[i])) = Asked(i)
            <=> r.params[KeyOf(qs[i])] = Meaning(KeyOf(qs[i]), qs[i].value))
  BY <1>1, <1>4, SameValue
<1> HIDE DEF Read, Asked
<1>9. ParamsMean(r, t) <=>
         \A k \in Keys \ t.auto :
            /\ k \in DOMAIN r.params <=> \E i \in DOMAIN qs : KeyOf(qs[i]) = k
            /\ \A i \in DOMAIN qs :
                  KeyOf(qs[i]) = k => r.params[k] = Meaning(k, qs[i].value)
  BY DEF ParamsMean, KeyOf, qs
<1>10. \A i \in DOMAIN qs : KeyOf(qs[i]) \in Keys
  BY <1>4 DEF TidyList
<1>11. ASSUME Signed(ps, t.auto) = Signed(qs, t.auto), NEW k \in Keys \ t.auto
       PROVE  /\ k \in DOMAIN r.params <=> \E i \in DOMAIN qs : KeyOf(qs[i]) = k
              /\ \A i \in DOMAIN qs :
                    KeyOf(qs[i]) = k => r.params[k] = Meaning(k, qs[i].value)
  <2>1. ASSUME k \in DOMAIN r.params
        PROVE  \E i \in DOMAIN qs : KeyOf(qs[i]) = k
    <3>1. <<k, Read(k)>> \in Signed(qs, t.auto)
      BY <1>6, <1>11, <2>1
    <3> QED BY <1>7, <3>1
  <2>2. ASSUME NEW i \in DOMAIN qs, KeyOf(qs[i]) = k
        PROVE  k \in DOMAIN r.params /\ Read(k) = Asked(i)
    <3>1. <<k, Asked(i)>> \in Signed(ps, t.auto)
      BY <1>7, <1>11, <2>2
    <3> QED BY <1>6, <3>1
  <2> QED BY <1>8, <2>1, <2>2
<1>12. ASSUME ParamsMean(r, t)
       PROVE  Signed(ps, t.auto) = Signed(qs, t.auto)
  <2>1. ASSUME NEW k \in DOMAIN r.params \ t.auto
        PROVE  <<k, Read(k)>> \in Signed(qs, t.auto)
    <3>1. k \in Keys \ t.auto
      BY <1>1
    <3>2. PICK i \in DOMAIN qs : KeyOf(qs[i]) = k
      BY <1>9, <1>12, <3>1
    <3>3. r.params[k] = Meaning(k, qs[i].value)
      BY <1>9, <1>12, <3>1, <3>2
    <3>4. Read(k) = Asked(i)
      BY <1>8, <3>2, <3>3
    <3> QED BY <1>7, <3>2, <3>4
  <2>2. ASSUME NEW i \in DOMAIN qs, KeyOf(qs[i]) \notin t.auto
        PROVE  <<KeyOf(qs[i]), Asked(i)>> \in Signed(ps, t.auto)
    <3>1. KeyOf(qs[i]) \in Keys \ t.auto
      BY <1>10, <2>2
    <3>2. /\ KeyOf(qs[i]) \in DOMAIN r.params
          /\ r.params[KeyOf(qs[i])] = Meaning(KeyOf(qs[i]), qs[i].value)
      BY <1>9, <1>12, <3>1
    <3>3. Read(KeyOf(qs[i])) = Asked(i)
      BY <1>8, <3>2
    <3> QED BY <1>6, <2>2, <3>2, <3>3
  <2> QED BY <1>6, <1>7, <2>1, <2>2
<1>13. SameHTTPS(actual, t)
          <=> /\ r.priority = t.priority
              /\ r.target = t.target.name
              /\ r.auto = t.auto
              /\ Signed(ps, t.auto) = Signed(qs, t.auto)
  BY <1>3, <1>5 DEF SameHTTPS
<1>14. Signed(ps, t.auto) = Signed(qs, t.auto) <=> ParamsMean(r, t)
  BY <1>9, <1>11, <1>12
<1> QED BY <1>13, <1>14 DEF actual, r

-----------------------------------------------------------------------------
(* The invariant. *)

\* Whatever was saved or switched off since, the record is one the plugin wrote
\* for some valid spec, with the hints of this moment; and Arrives.
HttpsInv ==
    /\ hints \in HintSets
    /\ saved \in Valid \cup {Absent}
    /\ record # Absent => \E s \in Valid : record = RecordOf(s, hints)
    /\ Arrives

\* Hints that are resolved again leave no trace of those before.
LEMMA RehintedRecord ==
    ASSUME NEW s \in Valid, NEW hs, NEW now
    PROVE  [RecordOf(s, hs) EXCEPT !.params =
              Rehinted(RecordOf(s, hs).params, Automatic(s), now)] = RecordOf(s, now)
<1> DEFINE sent == Stored(EncodeParams(s.params))
<1>1. Rehinted(Rehinted(sent, Automatic(s), hs), Automatic(s), now)
         = Rehinted(sent, Automatic(s), now)
  <2> HIDE DEF sent
  <2> QED BY DEF Rehinted
<1> HIDE DEF sent
<1>2. \A hx : RecordOf(s, hx) =
         [priority |-> s.priority, target |-> s.target.name, auto |-> s.auto,
          params |-> Rehinted(sent, Automatic(s), hx)]
  BY DEF RecordOf, sent
<1> QED BY <1>1, <1>2

\* A record that was just written for s is as Arrives wants it.
LEMMA WrittenMeans ==
    ASSUME PlainPaths, NEW s \in Valid, NEW hs \in HintSets
    PROVE  LET r == RecordOf(s, hs)
           IN  /\ r.priority = s.priority /\ r.target = s.target.name
               /\ r.auto = s.auto
               /\ ParamsMean(r, s)
               /\ \A k \in Automatic(s) :
                     IF hs[k] = <<>> THEN k \notin DOMAIN r.params
                                     ELSE r.params[k] = hs[k]
<1> DEFINE r == RecordOf(s, hs)
<1>1. /\ DOMAIN r.params = RecordKeys(s, hs)
      /\ \A i \in DOMAIN s.params : KeyOf(s.params[i]) \notin Automatic(s) =>
            r.params[KeyOf(s.params[i])] = Meaning(KeyOf(s.params[i]), s.params[i].value)
      /\ \A k \in Automatic(s) : hs[k] # <<>> => r.params[k] = hs[k]
  BY RecordParams
<1>2. r.priority = s.priority /\ r.target = s.target.name /\ r.auto = s.auto
  BY DEF RecordOf
<1> HIDE DEF r
<1>3. ParamsMean(r, s)
  <2>1. Automatic(s) \subseteq s.auto
    BY DEF Automatic
  <2> QED BY <1>1, <2>1 DEF ParamsMean, RecordKeys, KeysOf, KeyOf
<1>4. \A k \in Automatic(s) : IF hs[k] = <<>> THEN k \notin DOMAIN r.params
                                              ELSE r.params[k] = hs[k]
  BY <1>1 DEF RecordKeys
<1> QED BY <1>2, <1>3, <1>4 DEF r

LEMMA HttpsInit == Init => HttpsInv
BY DEF Init, HttpsInv, Arrives, Valid

\* What is read of the record identifies it, and compares equal to what is saved
\* just if the record is as Arrives wants it.
LEMMA ReadBack ==
    ASSUME PlainPaths, HttpsInv, record # Absent, NEW plain \in BOOLEAN
    PROVE  /\ Identified(Parsed(record, plain))
           /\ saved # Absent =>
                 (SameHTTPS(Parsed(record, plain), saved)
                     <=> /\ record.priority = saved.priority
                         /\ record.target = saved.target.name
                         /\ record.auto = saved.auto
                         /\ ParamsMean(record, saved))
<1>1. PICK s \in Valid : record = RecordOf(s, hints)
  BY DEF HttpsInv
<1>2. hints \in HintSets /\ (saved # Absent => saved \in Valid)
  BY DEF HttpsInv
<1>3. Stored(EncodeParams(Parsed(record, plain).params)) = record.params
  BY <1>1, <1>2, ParsedIdentifies
<1>4. /\ Parsed(record, plain).priority = record.priority
      /\ Parsed(record, plain).target.name = record.target
  BY DEF Parsed
<1> QED BY <1>1, <1>2, <1>3, <1>4, SameMeans DEF Identified

\* The hints the record holds are those of the moment.
LEMMA HintsHeld ==
    ASSUME PlainPaths, HttpsInv, record # Absent
    PROVE  \A k \in Automatic(record) :
              IF hints[k] = <<>> THEN k \notin DOMAIN record.params
                                 ELSE record.params[k] = hints[k]
<1>1. PICK s \in Valid : record = RecordOf(s, hints)
  BY DEF HttpsInv
<1>2. hints \in HintSets
  BY DEF HttpsInv
<1>3. Automatic(record) = Automatic(s)
  BY <1>1 DEF RecordOf, Automatic
<1> QED BY <1>1, <1>2, <1>3, WrittenMeans

LEMMA HttpsNext ==
    ASSUME PlainPaths, HttpsInv, [Next]_vars
    PROVE  HttpsInv'
<1>1. \A s \in Valid : s # Absent /\ RecordOf(s, hints) # Absent
  BY AbsentAssumption DEF Valid, HttpsInv
<1>2. ASSUME NEW s \in Specs, SaveSpec(s)
      PROVE  HttpsInv'
  BY <1>2 DEF SaveSpec, HttpsInv, Arrives, Valid
<1>3. CASE SwitchOff
  BY <1>3 DEF SwitchOff, HttpsInv, Arrives
<1>4. ASSUME saved # Absent, Write(TRUE, RecordOf(saved, hints))
      PROVE  HttpsInv'
  <2>1. /\ saved \in Valid /\ saved' = saved /\ hints' = hints /\ hints \in HintSets
        /\ record' = RecordOf(saved, hints)
    BY <1>4 DEF Write, HttpsInv
  <2>2. Arrives'
    BY <1>1, <2>1, WrittenMeans DEF Arrives, ParamsMean
  <2> QED BY <2>1, <2>2 DEF HttpsInv
<1>5. CASE AddRecord
  BY <1>4, <1>5 DEF AddRecord
<1>6. ASSUME NEW plain \in BOOLEAN, UpdateRecord(plain)
      PROVE  HttpsInv'
  BY <1>4, <1>6, ReadBack DEF UpdateRecord
<1>7. ASSUME NEW plain \in BOOLEAN, DeleteRecord(plain)
      PROVE  HttpsInv'
  <2>1. Identified(Parsed(record, plain))
    BY <1>7, ReadBack DEF DeleteRecord
  <2>2. saved = Absent /\ saved' = Absent /\ record' = Absent /\ hints' = hints
    BY <1>7, <2>1 DEF DeleteRecord, Write
  <2> QED BY <2>2 DEF HttpsInv, Arrives
<1>8. ASSUME NEW plain \in BOOLEAN, LeaveRecord(plain)
      PROVE  HttpsInv'
  <2>1. /\ (saved = Absent) = (record = Absent)
        /\ record # Absent => SameHTTPS(Parsed(record, plain), saved)
        /\ UNCHANGED <<saved, record, hints>>
    BY <1>8 DEF LeaveRecord
  <2>2. Arrives'
    BY <2>1, ReadBack, HintsHeld DEF Arrives, ParamsMean, Automatic
  <2> QED BY <2>1, <2>2 DEF HttpsInv
<1>9. CASE Rehint
  <2>1. hints' \in HintSets /\ saved' = saved /\ fresh' = fresh
    BY <1>9 DEF Rehint
  <2>2. CASE record = Absent
    <3>1. record' = Absent
      BY <1>9, <2>2 DEF Rehint
    <3> QED BY <2>1, <2>2, <3>1 DEF HttpsInv, Arrives
  <2>3. CASE record # Absent
    <3>1. PICK s \in Valid : record = RecordOf(s, hints)
      BY <2>3 DEF HttpsInv
    <3>2. record.auto = s.auto /\ Automatic(record) = Automatic(s)
      BY <3>1 DEF RecordOf, Automatic
    <3>3. record' = RecordOf(s, hints')
      BY <1>9, <2>3, <3>1, <3>2, RehintedRecord DEF Rehint
    <3>4. record' # Absent
      BY <2>1, <3>3, AbsentAssumption DEF Valid
    <3>5. hints \in HintSets
      BY DEF HttpsInv
    <3>6. /\ record'.priority = record.priority /\ record'.target = record.target
          /\ record'.auto = record.auto
      BY <3>1, <3>3 DEF RecordOf
    <3>7. /\ \A k \in Keys \ s.auto : k \in DOMAIN record'.params <=> k \in DOMAIN record.params
          /\ \A k \in DOMAIN record.params \ s.auto : record'.params[k] = record.params[k]
      BY <3>1, <3>3 DEF RecordOf, Rehinted, Automatic
    <3>8. \A k \in Automatic(s) :
             IF hints'[k] = <<>> THEN k \notin DOMAIN record'.params
                                 ELSE record'.params[k] = hints'[k]
      BY <2>1, <3>3, WrittenMeans
    <3>9. Arrives'
      <4> SUFFICES ASSUME fresh' PROVE Arrives'
        BY DEF Arrives
      <4>1. /\ saved # Absent /\ record.priority = saved.priority
            /\ record.target = saved.target.name /\ record.auto = saved.auto
            /\ ParamsMean(record, saved)
        BY <2>1, <2>3 DEF HttpsInv, Arrives
      <4>2. ParamsMean(record', saved)
        BY <3>2, <3>7, <4>1 DEF ParamsMean
      <4>3. Automatic(saved) = Automatic(s)
        BY <3>2, <4>1 DEF Automatic
      <4> QED BY <2>1, <3>2, <3>4, <3>6, <3>8, <4>1, <4>2, <4>3 DEF Arrives, ParamsMean
    <3> QED BY <2>1, <3>3, <3>9 DEF HttpsInv
  <2> QED BY <2>2, <2>3
<1>10. CASE UNCHANGED vars
  BY <1>10 DEF vars, HttpsInv, Arrives, ParamsMean, Automatic
<1> QED BY <1>2, <1>3, <1>5, <1>6, <1>7, <1>8, <1>9, <1>10 DEF Next, Cycle

\* After a cycle the HTTPS record means what was saved, for any specs, any
\* number of params and entries and any spelling: no change of meaning passes
\* for one of spelling, and every update finds the record it is about.
THEOREM SavedArrives ==
    ASSUME PlainPaths
    PROVE  Spec => []Arrives
<1>1. HttpsInv => Arrives
  BY DEF HttpsInv
<1> QED BY <1>1, HttpsInit, HttpsNext, PTL DEF Spec

\* No cycle writes the record again that a cycle has left as it is wanted:
\* nothing the server reports makes the plugin rewrite it for ever.
THEOREM RecordSettles ==
    ASSUME PlainPaths
    PROVE  Spec => Settles
<1>1. ASSUME HttpsInv, [Next]_vars
      PROVE  [(fresh /\ fresh' /\ UNCHANGED hints) => ~wrote']_vars
  <2> SUFFICES ASSUME Next, fresh, fresh', hints' = hints
               PROVE  ~wrote'
    BY <1>1
  <2>1. /\ (record = Absent) = (saved = Absent)
        /\ saved # Absent =>
              /\ record.priority = saved.priority /\ record.target = saved.target.name
              /\ record.auto = saved.auto /\ ParamsMean(record, saved)
    BY <1>1 DEF HttpsInv, Arrives
  <2>2. ~AddRecord /\ \A plain \in BOOLEAN : ~DeleteRecord(plain)
    BY <2>1 DEF AddRecord, DeleteRecord
  <2>3. \A plain \in BOOLEAN : ~UpdateRecord(plain)
    BY <1>1, <2>1, ReadBack DEF UpdateRecord
  <2>4. PICK plain \in BOOLEAN : LeaveRecord(plain)
    BY <2>2, <2>3 DEF Next, SaveSpec, SwitchOff, Rehint, Cycle
  <2> QED BY <2>4 DEF LeaveRecord
<1> QED BY <1>1, HttpsInit, HttpsNext, PTL DEF Spec, Settles
=============================================================================
