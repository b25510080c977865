-------------------------- MODULE StableIPv6Proofs --------------------------
(***************************************************************************)
(* What holds of the detection of the IPv6 target for every file, every    *)
(* MAC address and every number of privacy addresses.                      *)
(***************************************************************************)
EXTENDS StableIPv6, FiniteSetTheorems, SequenceTheorems, TLAPS

Entries == Lines \cup {Malformed}

-----------------------------------------------------------------------------
(* The first index of a set of indexes. *)

LEMMA FirstExists ==
    ASSUME NEW S, S \subseteq Nat, S # {}
    PROVE  FirstOf(S) \in S /\ \A j \in S : FirstOf(S) <= j
<1> DEFINE T == {0..i : i \in S}
<1>1. T \subseteq FiniteSubsetsOf(Nat)
  <2> SUFFICES ASSUME NEW i \in S
               PROVE  0..i \in SUBSET Nat /\ IsFiniteSet(0..i)
    BY DEF FiniteSubsetsOf
  <2>1. i \in Nat /\ 0 \in Int /\ i \in Int
    OBVIOUS
  <2> QED BY <2>1, FS_Interval
<1>2. PICK x \in T : \A y \in T : ~(<<y, x>> \in StrictSubsetOrdering(Nat))
  <2>1. T # {}
    OBVIOUS
  <2> HIDE DEF T
  <2> QED BY <1>1, <2>1, FS_StrictSubsetOrderingWellFounded, WFMin, Zenon
<1>3. PICK i \in S : x = 0..i
  OBVIOUS
<1>4. \A j \in S : i <= j
  <2> TAKE j \in S
  <2>1. ~(<<0..j, 0..i>> \in StrictSubsetOrdering(Nat))
    BY <1>2, <1>3
  <2>2. ~(0..j \subseteq 0..i /\ 0..j # 0..i)
    BY <2>1 DEF StrictSubsetOrdering
  <2> QED BY <2>2
<1> QED BY <1>4 DEF FirstOf

-----------------------------------------------------------------------------
(* What is picked from two files that differ in lines that cannot be picked. *)

Usable(l) ==
    /\ l # Malformed
    /\ l.scope = "global" /\ ~IsLoopback(l) /\ ~IsLinkLocal(l)
    /\ l.flags \cap NotStableEnough = {}

Derived(l) == l.iid = EUI64FromMAC(MacOf[l.index])

Pickable(l) == Usable(l) /\ ("permanent" \in l.flags \/ Derived(l))

LEMMA Tiers ==
    ASSUME NEW f
    PROVE  /\ Permanent(f) = {i \in DOMAIN f : Usable(f[i]) /\ "permanent" \in f[i].flags}
           /\ FromMAC(f) = {i \in DOMAIN f : Usable(f[i]) /\ Derived(f[i])}
BY DEF Permanent, FromMAC, Candidates, Usable, Derived

\* m tells for each line of f where it stands in g.
Matches(f, g, m) ==
    /\ m \in [DOMAIN f -> DOMAIN g]
    /\ \A i, j \in DOMAIN f : i < j => m[i] < m[j]
    /\ \A i \in DOMAIN f :
          f[i] = g[m[i]] \/ (~Pickable(f[i]) /\ ~Pickable(g[m[i]]))
    /\ \A k \in DOMAIN g : Pickable(g[k]) => \E i \in DOMAIN f : k = m[i]

Image(m, S) == {m[i] : i \in S}

LEMMA FirstOfImage ==
    ASSUME NEW f \in Seq(Entries), NEW g \in Seq(Entries), NEW m, Matches(f, g, m),
           NEW S, S \subseteq DOMAIN f, S # {}
    PROVE  FirstOf(Image(m, S)) = m[FirstOf(S)]
<1>1. /\ DOMAIN f \subseteq Nat /\ DOMAIN g \subseteq Nat
      /\ m \in [DOMAIN f -> DOMAIN g]
      /\ \A i, j \in DOMAIN f : i < j => m[i] < m[j]
  BY DEF Matches
<1>2. FirstOf(S) \in S /\ \A j \in S : FirstOf(S) <= j
  BY <1>1, FirstExists
<1>3. Image(m, S) \subseteq Nat /\ Image(m, S) # {}
  BY <1>1 DEF Image
<1>4. /\ FirstOf(Image(m, S)) \in Image(m, S)
      /\ \A j \in Image(m, S) : FirstOf(Image(m, S)) <= j
  BY <1>3, FirstExists
<1>5. PICK k \in S : FirstOf(Image(m, S)) = m[k]
  BY <1>4 DEF Image
<1>6. m[FirstOf(S)] <= m[k]
  BY <1>1, <1>2
<1>7. m[k] <= m[FirstOf(S)]
  BY <1>2, <1>4, <1>5 DEF Image
<1>8. m[k] \in Nat /\ m[FirstOf(S)] \in Nat
  BY <1>1, <1>2
<1> QED BY <1>5, <1>6, <1>7, <1>8

LEMMA PreferULAImage ==
    ASSUME NEW f \in Seq(Entries), NEW g \in Seq(Entries), NEW m, Matches(f, g, m),
           NEW S, S \subseteq DOMAIN f, S # {}, \A i \in S : f[i] = g[m[i]]
    PROVE  /\ PreferULA(f, S) \in S
           /\ PreferULA(g, Image(m, S)) = m[PreferULA(f, S)]
<1> DEFINE U == {i \in S : IsULA(f[i])}
           V == {k \in Image(m, S) : IsULA(g[k])}
<1>1. V = Image(m, U)
  BY DEF Image
<1>2. U \subseteq DOMAIN f /\ U \subseteq S /\ (V = {} <=> U = {})
  BY <1>1 DEF Image
<1>3. U \subseteq Nat /\ S \subseteq Nat
  BY <1>2
<1>4. /\ PreferULA(f, S) = IF U # {} THEN FirstOf(U) ELSE FirstOf(S)
      /\ PreferULA(g, Image(m, S)) = IF V # {} THEN FirstOf(V) ELSE FirstOf(Image(m, S))
  BY DEF PreferULA
<1> HIDE DEF U, V
<1>5. CASE U = {}
  BY <1>2, <1>3, <1>4, <1>5, FirstOfImage, FirstExists
<1>6. CASE U # {}
  <2>1. FirstOf(Image(m, U)) = m[FirstOf(U)]
    BY <1>2, <1>6, FirstOfImage
  <2>2. FirstOf(U) \in U
    BY <1>3, <1>6, FirstExists
  <2> QED BY <1>1, <1>2, <1>4, <1>6, <2>1, <2>2
<1> QED BY <1>5, <1>6

LEMMA SamePick ==
    ASSUME NEW f \in Seq(Entries), NEW g \in Seq(Entries), NEW m, Matches(f, g, m)
    PROVE  PickStableIPv6(f) = PickStableIPv6(g)
<1>1. /\ m \in [DOMAIN f -> DOMAIN g]
      /\ \A i \in DOMAIN f :
            f[i] = g[m[i]] \/ (~Pickable(f[i]) /\ ~Pickable(g[m[i]]))
      /\ \A k \in DOMAIN g : Pickable(g[k]) => \E i \in DOMAIN f : k = m[i]
  BY DEF Matches
<1>2. \A i \in Permanent(f) \cup FromMAC(f) : i \in DOMAIN f /\ f[i] = g[m[i]]
  BY <1>1, Tiers DEF Pickable
<1>3. Permanent(g) = Image(m, Permanent(f))
  <2>1. ASSUME NEW k \in Permanent(g) PROVE k \in Image(m, Permanent(f))
    <3>1. k \in DOMAIN g /\ Pickable(g[k])
      BY Tiers DEF Pickable
    <3>2. PICK i \in DOMAIN f : k = m[i]
      BY <1>1, <3>1
    <3>3. f[i] = g[k]
      BY <1>1, <3>1, <3>2
    <3>4. i \in Permanent(f)
      BY <3>2, <3>3, Tiers
    <3> QED BY <3>2, <3>4 DEF Image
  <2>2. ASSUME NEW i \in Permanent(f) PROVE m[i] \in Permanent(g)
    <3>1. i \in DOMAIN f /\ f[i] = g[m[i]] /\ m[i] \in DOMAIN g
      BY <1>1, <1>2
    <3> QED BY <3>1, Tiers
  <2> QED BY <2>1, <2>2 DEF Image
<1>4. FromMAC(g) = Image(m, FromMAC(f))
  <2>1. ASSUME NEW k \in FromMAC(g) PROVE k \in Image(m, FromMAC(f))
    <3>1. k \in DOMAIN g /\ Pickable(g[k])
      BY Tiers DEF Pickable
    <3>2. PICK i \in DOMAIN f : k = m[i]
      BY <1>1, <3>1
    <3>3. f[i] = g[k]
      BY <1>1, <3>1, <3>2
    <3>4. i \in FromMAC(f)
      BY <3>2, <3>3, Tiers
    <3> QED BY <3>2, <3>4 DEF Image
  <2>2. ASSUME NEW i \in FromMAC(f) PROVE m[i] \in FromMAC(g)
    <3>1. i \in DOMAIN f /\ f[i] = g[m[i]] /\ m[i] \in DOMAIN g
      BY <1>1, <1>2
    <3> QED BY <3>1, Tiers
  <2> QED BY <2>1, <2>2 DEF Image
<1>5. CASE Permanent(f) # {}
  <2> DEFINE i == PreferULA(f, Permanent(f))
  <2>1. i \in Permanent(f) /\ PreferULA(g, Permanent(g)) = m[i]
    BY <1>2, <1>3, <1>5, PreferULAImage
  <2>2. Permanent(g) # {}
    BY <1>3, <1>5 DEF Image
  <2>3. f[i] = g[m[i]]
    BY <1>2, <2>1
  <2> QED BY <1>5, <2>1, <2>2, <2>3 DEF PickStableIPv6
<1>6. CASE Permanent(f) = {} /\ FromMAC(f) # {}
  <2> DEFINE i == PreferULA(f, FromMAC(f))
  <2>1. i \in FromMAC(f) /\ PreferULA(g, FromMAC(g)) = m[i]
    BY <1>2, <1>4, <1>6, PreferULAImage
  <2>2. Permanent(g) = {} /\ FromMAC(g) # {}
    BY <1>3, <1>4, <1>6 DEF Image
  <2>3. f[i] = g[m[i]]
    BY <1>2, <2>1
  <2> QED BY <1>6, <2>1, <2>2, <2>3 DEF PickStableIPv6
<1>7. CASE Permanent(f) = {} /\ FromMAC(f) = {}
  <2>1. Permanent(g) = {} /\ FromMAC(g) = {}
    BY <1>3, <1>4, <1>7 DEF Image
  <2> QED BY <1>7, <2>1 DEF PickStableIPv6
<1> QED BY <1>5, <1>6, <1>7

-----------------------------------------------------------------------------
(* Files as the kernel writes them. *)

FileOK(f) ==
    /\ f \in Seq(Entries)
    /\ \A i \in DOMAIN f :
          (f[i] # Malformed /\ f[i].privacy)
             => f[i].iid \in Tokens /\ "permanent" \notin f[i].flags

LEMMA PrivacyUnpickable ==
    ASSUME NEW f, FileOK(f), NEW i \in DOMAIN f, f[i] # Malformed, f[i].privacy
    PROVE  ~Pickable(f[i])
<1>1. f[i] \in Lines /\ f[i].iid \in Tokens /\ "permanent" \notin f[i].flags
  BY DEF FileOK, Entries
<1>2. f[i].index \in Indexes
  BY <1>1 DEF Lines
<1> QED BY <1>1, <1>2, TokensAssumption DEF Pickable, Derived

LEMMA ULAFirst ==
    ASSUME NEW f \in Seq(Entries), NEW S, S \subseteq DOMAIN f, S # {}
    PROVE  /\ PreferULA(f, S) \in S
           /\ (\E i \in S : IsULA(f[i])) => IsULA(f[PreferULA(f, S)])
<1> DEFINE U == {i \in S : IsULA(f[i])}
<1>1. U \subseteq Nat /\ S \subseteq Nat /\ U \subseteq S
  OBVIOUS
<1>2. PreferULA(f, S) = IF U # {} THEN FirstOf(U) ELSE FirstOf(S)
  BY DEF PreferULA
<1>3. CASE U # {}
  <2>1. FirstOf(U) \in U
    BY <1>1, <1>3, FirstExists
  <2> QED BY <1>2, <1>3, <2>1
<1>4. CASE U = {}
  <2>1. FirstOf(S) \in S
    BY <1>1, FirstExists
  <2> QED BY <1>2, <1>4, <2>1
<1> QED BY <1>3, <1>4

\* What is picked is a line that may be, and nothing only if there is none.
LEMMA Picked ==
    ASSUME NEW f \in Seq(Entries)
    PROVE  \/ \E i \in DOMAIN f : /\ Pickable(f[i])
                                  /\ PickStableIPv6(f) = AddressOf(f[i])
           \/ /\ PickStableIPv6(f) = NoAddress
              /\ \A i \in DOMAIN f : ~Pickable(f[i])
<1>1. Permanent(f) \subseteq DOMAIN f /\ FromMAC(f) \subseteq DOMAIN f
  BY Tiers
<1>2. CASE Permanent(f) # {}
  <2>1. PreferULA(f, Permanent(f)) \in Permanent(f)
    BY <1>1, <1>2, ULAFirst
  <2> QED BY <1>2, <2>1, Tiers DEF PickStableIPv6, Pickable
<1>3. CASE Permanent(f) = {} /\ FromMAC(f) # {}
  <2>1. PreferULA(f, FromMAC(f)) \in FromMAC(f)
    BY <1>1, <1>3, ULAFirst
  <2> QED BY <1>3, <2>1, Tiers DEF PickStableIPv6, Pickable
<1>4. CASE Permanent(f) = {} /\ FromMAC(f) = {}
  BY <1>4, Tiers DEF PickStableIPv6, Pickable
<1> QED BY <1>2, <1>3, <1>4

LEMMA Inserted ==
    ASSUME NEW S, NEW s \in Seq(S), NEW i \in 1..(Len(s) + 1), NEW e \in S
    PROVE  /\ InsertAt(s, i, e) \in Seq(S)
           /\ Len(InsertAt(s, i, e)) = Len(s) + 1
           /\ \A k \in 1..(Len(s) + 1) :
                 InsertAt(s, i, e)[k] =
                    IF k < i THEN s[k] ELSE IF k = i THEN e ELSE s[k - 1]
<1> DEFINE a == SubSeq(s, 1, i - 1)
           b == SubSeq(s, i, Len(s))
<1>1. /\ Len(s) \in Nat /\ i \in Nat /\ i - 1 \in Int /\ 1 \in Int
      /\ \A k \in 1..Len(s) : s[k] \in S
  OBVIOUS
<1>2. \A k \in 1..(i - 1) : s[k] \in S
  BY <1>1
<1>3. \A k \in i..Len(s) : s[k] \in S
  BY <1>1
<1>4. /\ a \in Seq(S) /\ Len(a) = i - 1
      /\ \A k \in 1..(i - 1) : a[k] = s[k]
  BY <1>1, <1>2, SubSeqProperties, SMTT(30)
<1>5. /\ b \in Seq(S) /\ Len(b) = Len(s) - i + 1
      /\ \A k \in 1..(Len(s) - i + 1) : b[k] = s[i + k - 1]
  BY <1>1, <1>3, SubSeqProperties, SMTT(30)
<1> HIDE DEF a, b
<1>6. /\ a \o <<e>> \in Seq(S) /\ Len(a \o <<e>>) = i
      /\ \A k \in 1..i : (a \o <<e>>)[k] = IF k < i THEN s[k] ELSE e
  <2>1. <<e>> \in Seq(S) /\ Len(<<e>>) = 1 /\ <<e>>[1] = e
    OBVIOUS
  <2> QED BY <1>1, <1>4, <2>1, ConcatProperties, SMTT(30)
<1>7. InsertAt(s, i, e) = (a \o <<e>>) \o b
  BY DEF InsertAt, a, b
<1> DEFINE c == a \o <<e>>
<1> HIDE DEF c
<1>8. /\ c \in Seq(S) /\ Len(c) = i
      /\ \A k \in 1..i : c[k] = IF k < i THEN s[k] ELSE e
  BY <1>6 DEF c
<1> DEFINE d == c \o b
<1>9. /\ d \in Seq(S) /\ Len(d) = Len(c) + Len(b)
      /\ \A k \in 1..(Len(c) + Len(b)) :
            d[k] = IF k <= Len(c) THEN c[k] ELSE b[k - Len(c)]
  BY <1>5, <1>8, ConcatProperties
<1>10. d = InsertAt(s, i, e)
  BY <1>7 DEF c
<1> HIDE DEF d
<1>11. Len(d) = Len(s) + 1
  BY <1>1, <1>5, <1>8, <1>9
<1>12. ASSUME NEW k \in 1..(Len(s) + 1)
       PROVE  d[k] = IF k < i THEN s[k] ELSE IF k = i THEN e ELSE s[k - 1]
  <2>1. CASE k <= i
    BY <1>1, <1>5, <1>8, <1>9, <2>1
  <2>2. CASE k > i
    <3>1. d[k] = b[k - i] /\ k - i \in 1..(Len(s) - i + 1)
      BY <1>1, <1>5, <1>8, <1>9, <2>2
    <3>2. b[k - i] = s[i + (k - i) - 1]
      BY <1>5, <3>1
    <3>3. i + (k - i) - 1 = k - 1
      BY <1>1
    <3> QED BY <1>1, <2>2, <3>1, <3>2, <3>3
  <2> QED BY <1>1, <2>1, <2>2
<1> QED BY <1>9, <1>10, <1>11, <1>12

LEMMA Without ==
    ASSUME NEW S, NEW s \in Seq(S), NEW i \in 1..Len(s)
    PROVE  /\ RemoveAt(s, i) \in Seq(S)
           /\ Len(RemoveAt(s, i)) = Len(s) - 1
           /\ \A k \in 1..(Len(s) - 1) :
                 RemoveAt(s, i)[k] = IF k < i THEN s[k] ELSE s[k + 1]
<1> DEFINE a == SubSeq(s, 1, i - 1)
           b == SubSeq(s, i + 1, Len(s))
<1>1. /\ Len(s) \in Nat /\ i \in Nat /\ i - 1 \in Int /\ 1 \in Int /\ i + 1 \in Int
      /\ \A k \in 1..Len(s) : s[k] \in S
  OBVIOUS
<1>2. \A k \in 1..(i - 1) : s[k] \in S
  BY <1>1
<1>3. \A k \in (i + 1)..Len(s) : s[k] \in S
  BY <1>1
<1>4. /\ a \in Seq(S) /\ Len(a) = i - 1
      /\ \A k \in 1..(i - 1) : a[k] = s[k]
  BY <1>1, <1>2, SubSeqProperties, SMTT(30)
<1>5. /\ b \in Seq(S) /\ Len(b) = Len(s) - i
      /\ \A k \in 1..(Len(s) - i) : b[k] = s[i + k]
  BY <1>1, <1>3, SubSeqProperties, SMTT(30)
<1> HIDE DEF a, b
<1>6. RemoveAt(s, i) = a \o b
  BY DEF RemoveAt, a, b
<1> DEFINE d == a \o b
<1>7. /\ d \in Seq(S) /\ Len(d) = Len(a) + Len(b)
      /\ \A k \in 1..(Len(a) + Len(b)) :
            d[k] = IF k <= Len(a) THEN a[k] ELSE b[k - Len(a)]
  BY <1>4, <1>5, ConcatProperties
<1> HIDE DEF d
<1>8. Len(d) = Len(s) - 1
  BY <1>1, <1>4, <1>5, <1>7
<1>9. ASSUME NEW k \in 1..(Len(s) - 1)
      PROVE  d[k] = IF k < i THEN s[k] ELSE s[k + 1]
  <2>1. CASE k < i
    <3>1. k <= Len(a) /\ k \in 1..(Len(a) + Len(b)) /\ k \in 1..(i - 1)
      BY <1>1, <1>4, <1>5, <2>1
    <3>2. d[k] = a[k]
      BY <1>7, <3>1
    <3>3. a[k] = s[k]
      BY <1>4, <3>1
    <3> QED BY <2>1, <3>2, <3>3
  <2>2. CASE k >= i
    <3>0. ~(k <= Len(a)) /\ k \in 1..(Len(a) + Len(b))
      BY <1>1, <1>4, <1>5, <2>2
    <3>1. d[k] = b[k - (i - 1)] /\ k - (i - 1) \in 1..(Len(s) - i)
      <4>1. d[k] = b[k - Len(a)]
        BY <1>7, <3>0
      <4>2. k - Len(a) = k - (i - 1)
        BY <1>4
      <4>3. k - (i - 1) \in 1..(Len(s) - i)
        BY <1>1, <2>2
      <4> QED BY <4>1, <4>2, <4>3
    <3>2. b[k - (i - 1)] = s[i + (k - (i - 1))]
      BY <1>5, <3>1
    <3>3. i + (k - (i - 1)) = k + 1
      BY <1>1
    <3> QED BY <1>1, <2>2, <3>1, <3>2, <3>3
  <2> QED BY <1>1, <2>1, <2>2
<1> QED BY <1>6, <1>7, <1>8, <1>9 DEF d

-----------------------------------------------------------------------------
(* What the kernel does to the file. *)

\* The target is the address of a line that could be picked again.
LanOK ==
    lan \notin {NotRun, NoAddress} =>
        \E i \in DOMAIN file : Pickable(file[i]) /\ AddressOf(file[i]) = lan

DetectInv == FileOK(file) /\ LanOK

\* What Mint writes into the file.
Minted(l) ==
    /\ l \in Lines /\ l.privacy /\ l.iid \in Tokens /\ "permanent" \notin l.flags

LEMMA MintMatches ==
    ASSUME NEW f, FileOK(f), NEW i \in 1..(Len(f) + 1), NEW l, Minted(l)
    PROVE  /\ FileOK(InsertAt(f, i, l))
           /\ Matches(f, InsertAt(f, i, l),
                      [k \in DOMAIN f |-> IF k < i THEN k ELSE k + 1])
<1> DEFINE g == InsertAt(f, i, l)
           m == [k \in DOMAIN f |-> IF k < i THEN k ELSE k + 1]
<1>1. /\ f \in Seq(Entries) /\ Len(f) \in Nat /\ i \in Nat
      /\ DOMAIN f = 1..Len(f) /\ l \in Entries /\ l # Malformed
  BY TextsAssumption DEF FileOK, Minted, Entries
<1>2. /\ g \in Seq(Entries) /\ Len(g) = Len(f) + 1
      /\ \A k \in 1..(Len(f) + 1) :
            g[k] = IF k < i THEN f[k] ELSE IF k = i THEN l ELSE f[k - 1]
  BY <1>1, Inserted
<1> HIDE DEF g
<1>3. DOMAIN g = 1..(Len(f) + 1)
  BY <1>2
<1>4. ASSUME NEW k \in DOMAIN g
      PROVE  g[k] = l \/ \E j \in DOMAIN f : g[k] = f[j] /\ k = m[j]
  <2>1. CASE k < i
    BY <1>1, <1>2, <1>3, <2>1
  <2>2. CASE k = i
    BY <1>1, <1>2, <1>3, <2>2
  <2>3. CASE k > i
    <3>1. k - 1 \in DOMAIN f /\ g[k] = f[k - 1]
      BY <1>1, <1>2, <1>3, <2>3
    <3>2. m[k - 1] = k
      BY <1>1, <1>3, <2>3, <3>1
    <3> QED BY <3>1, <3>2
  <2> QED BY <1>1, <1>3, <2>1, <2>2, <2>3
<1>5. FileOK(g)
  <2> SUFFICES ASSUME NEW k \in DOMAIN g, g[k] # Malformed, g[k].privacy
               PROVE  g[k].iid \in Tokens /\ "permanent" \notin g[k].flags
    BY <1>2 DEF FileOK
  <2> QED BY <1>4 DEF FileOK, Minted
<1>6. ASSUME NEW k \in DOMAIN g, g[k] = l PROVE ~Pickable(g[k])
  BY <1>1, <1>5, <1>6, PrivacyUnpickable DEF Minted
<1>7. m \in [DOMAIN f -> DOMAIN g] /\ \A j \in DOMAIN f : f[j] = g[m[j]]
  <2> SUFFICES ASSUME NEW j \in DOMAIN f
               PROVE  m[j] \in DOMAIN g /\ f[j] = g[m[j]]
    OBVIOUS
  <2>1. CASE j < i
    BY <1>1, <1>2, <1>3, <2>1
  <2>2. CASE j >= i
    <3>1. m[j] = j + 1 /\ j + 1 \in 1..(Len(f) + 1) /\ (j + 1) - 1 = j
      BY <1>1, <2>2
    <3> QED BY <1>1, <1>2, <1>3, <2>2, <3>1
  <2> QED BY <1>1, <2>1, <2>2
<1>8. \A j, k \in DOMAIN f : j < k => m[j] < m[k]
  BY <1>1
<1>9. Matches(f, g, m)
  <2> HIDE DEF m
  <2> QED BY <1>4, <1>6, <1>7, <1>8 DEF Matches
<1> QED BY <1>5, <1>9 DEF g

LEMMA ExpireMatches ==
    ASSUME NEW f, FileOK(f), NEW i \in DOMAIN f, ~Pickable(f[i])
    PROVE  /\ FileOK(RemoveAt(f, i))
           /\ Matches(RemoveAt(f, i), f,
                      [k \in DOMAIN RemoveAt(f, i) |-> IF k < i THEN k ELSE k + 1])
<1> DEFINE g == RemoveAt(f, i)
           m == [k \in DOMAIN g |-> IF k < i THEN k ELSE k + 1]
<1>1. /\ f \in Seq(Entries) /\ Len(f) \in Nat /\ i \in 1..Len(f)
      /\ DOMAIN f = 1..Len(f)
  BY DEF FileOK
<1>2. /\ g \in Seq(Entries) /\ Len(g) = Len(f) - 1
      /\ \A k \in 1..(Len(f) - 1) : g[k] = IF k < i THEN f[k] ELSE f[k + 1]
  BY <1>1, Without
<1> HIDE DEF g
<1>3. DOMAIN g = 1..(Len(f) - 1)
  BY <1>1, <1>2
<1>4. ASSUME NEW k \in DOMAIN g
      PROVE  m[k] \in DOMAIN f /\ g[k] = f[m[k]]
  <2>1. CASE k < i
    BY <1>1, <1>2, <1>3, <2>1
  <2>2. CASE k >= i
    <3>1. m[k] = k + 1 /\ k + 1 \in 1..Len(f)
      BY <1>1, <1>3, <2>2
    <3> QED BY <1>1, <1>2, <1>3, <2>2, <3>1
  <2> QED BY <1>1, <1>3, <2>1, <2>2
<1>5. FileOK(g)
  BY <1>2, <1>4 DEF FileOK
<1>6. ASSUME NEW j \in DOMAIN f, j # i PROVE \E k \in DOMAIN g : j = m[k]
  <2>1. CASE j < i
    <3>1. j \in DOMAIN g /\ m[j] = j
      BY <1>1, <1>3, <2>1
    <3> QED BY <3>1
  <2>2. CASE j > i
    <3>1. j - 1 \in DOMAIN g /\ m[j - 1] = j
      BY <1>1, <1>3, <2>2
    <3> QED BY <3>1
  <2> QED BY <1>1, <1>6, <2>1, <2>2
<1>7. \A j, k \in DOMAIN g : j < k => m[j] < m[k]
  BY <1>1, <1>3
<1>8. Matches(g, f, m)
  <2>1. m \in [DOMAIN g -> DOMAIN f]
    BY <1>4
  <2> HIDE DEF m
  <2> QED BY <1>4, <1>6, <1>7, <2>1 DEF Matches
<1> QED BY <1>5, <1>8 DEF g

LEMMA DeprecateMatches ==
    ASSUME NEW f, FileOK(f), NEW i \in DOMAIN f, f[i] # Malformed, f[i].privacy,
           NEW g, g = [f EXCEPT ![i].flags = @ \cup {"deprecated"}]
    PROVE  FileOK(g) /\ Matches(f, g, [k \in DOMAIN f |-> k])
<1>1. /\ f \in Seq(Entries) /\ f[i] \in Lines /\ f[i].iid \in Tokens
      /\ "permanent" \notin f[i].flags
  BY DEF FileOK, Entries
<1> DEFINE l == [f[i] EXCEPT !.flags = @ \cup {"deprecated"}]
<1>2. /\ l \in Lines /\ l.privacy /\ l.iid \in Tokens
      /\ "permanent" \notin l.flags
  BY <1>1 DEF Lines, Flags
<1>3. g = [f EXCEPT ![i] = l]
  OBVIOUS
<1> HIDE DEF l
<1>4. l \in Entries
  BY <1>2 DEF Entries
<1>5. g \in Seq(Entries) /\ DOMAIN g = DOMAIN f
  <2>1. i \in 1..Len(f) /\ DOMAIN f = 1..Len(f)
    BY <1>1
  <2>2. [f EXCEPT ![i] = l] \in Seq(Entries) /\ Len([f EXCEPT ![i] = l]) = Len(f)
    BY <1>1, <1>4, <2>1, ExceptSeq
  <2> QED BY <1>3, <2>1, <2>2
<1>6. \A k \in DOMAIN f : g[k] = IF k = i THEN l ELSE f[k]
  BY <1>1, <1>3
<1>7. FileOK(g)
  BY <1>2, <1>5, <1>6 DEF FileOK
<1>8. g[i] # Malformed /\ g[i].privacy /\ i \in DOMAIN g
  BY <1>2, <1>5, <1>6, TextsAssumption
<1>9. ~Pickable(f[i]) /\ ~Pickable(g[i])
  BY <1>7, <1>8, PrivacyUnpickable
<1>10. DOMAIN f \subseteq Nat
  BY <1>1
<1> QED BY <1>5, <1>6, <1>7, <1>9, <1>10 DEF Matches

LEMMA LineMinted ==
    ASSUME DetectInv, NEW i \in 1..(Len(file) + 1), MintedAt(i)
    PROVE  \E l : Minted(l) /\ Mint(i, l)
<1>1. PICK p \in {l.prefix : l \in {file[j] : j \in DOMAIN file} \ {Malformed}},
           t \in Tokens, n \in Indexes,
           fs \in {{}, {"temporary"}, {"temporary", "tentative"}} :
         Mint(i, [prefix |-> p, iid |-> t, index |-> n, scope |-> "global",
                  flags |-> fs, privacy |-> TRUE])
  BY DEF MintedAt
<1> DEFINE l == [prefix |-> p, iid |-> t, index |-> n, scope |-> "global",
                 flags |-> fs, privacy |-> TRUE]
<1>2. PICK j \in DOMAIN file : file[j] # Malformed /\ p = file[j].prefix
  OBVIOUS
<1>3. p \in Bytes \X Bytes
  BY <1>2 DEF DetectInv, FileOK, Entries, Lines
<1>4. t \in Ids
  BY TokensAssumption
<1>5. fs \in SUBSET Flags /\ "permanent" \notin fs /\ "global" \in Scopes
  BY DEF Flags, Scopes
<1>6. Minted(l)
  BY <1>3, <1>4, <1>5 DEF Minted, Lines
<1> QED BY <1>1, <1>6

LEMMA StaysPickable ==
    ASSUME NEW f, NEW g, NEW m, Matches(f, g, m) \/ Matches(g, f, m),
           NEW i \in DOMAIN f, Pickable(f[i])
    PROVE  \E k \in DOMAIN g : g[k] = f[i]
<1>1. CASE Matches(f, g, m)
  BY <1>1 DEF Matches
<1>2. CASE Matches(g, f, m)
  BY <1>2 DEF Matches
<1> QED BY <1>1, <1>2

\* A file before and after a step of the kernel.
Rotated(f, g) ==
    /\ FileOK(f) /\ FileOK(g)
    /\ \E m : Matches(f, g, m) \/ Matches(g, f, m)

LEMMA StepRotates ==
    ASSUME DetectInv, [DetectNext]_detectVars
    PROVE  \/ FirstRun
           \/ UNCHANGED <<file, lan>>
           \/ UNCHANGED lan /\ Rotated(file, file')
<1>1. ASSUME NEW i \in 1..(Len(file) + 1), MintedAt(i)
      PROVE  UNCHANGED lan /\ Rotated(file, file')
  <2>1. PICK l : Minted(l) /\ Mint(i, l)
    BY <1>1, LineMinted
  <2>2. file' = InsertAt(file, i, l) /\ UNCHANGED lan /\ FileOK(file)
    BY <2>1 DEF Mint, DetectInv
  <2> QED BY <2>1, <2>2, MintMatches DEF Rotated
<1>2. ASSUME NEW i \in DOMAIN file, Deprecate(i)
      PROVE  UNCHANGED lan /\ Rotated(file, file')
  <2>1. /\ file' = [file EXCEPT ![i].flags = @ \cup {"deprecated"}]
        /\ file[i] # Malformed /\ file[i].privacy
        /\ UNCHANGED lan /\ FileOK(file)
    BY <1>2 DEF Deprecate, DetectInv
  <2> QED BY <2>1, DeprecateMatches DEF Rotated
<1>3. ASSUME NEW i \in DOMAIN file, Expire(i)
      PROVE  UNCHANGED lan /\ Rotated(file, file')
  <2>1. /\ file' = RemoveAt(file, i) /\ file[i] # Malformed /\ file[i].privacy
        /\ UNCHANGED lan /\ FileOK(file)
    BY <1>3 DEF Expire, DetectInv
  <2>2. ~Pickable(file[i])
    BY <2>1, PrivacyUnpickable
  <2> QED BY <2>1, <2>2, ExpireMatches DEF Rotated
<1> QED BY <1>1, <1>2, <1>3 DEF DetectNext, detectVars

LEMMA DetectInvHolds == DetectSpec => []DetectInv
<1>1. DetectInit => DetectInv
  BY InitFilesAssumption DEF DetectInit, DetectInv, FileOK, LanOK, Entries
<1>2. ASSUME DetectInv, [DetectNext]_detectVars PROVE DetectInv'
  <2>1. CASE UNCHANGED <<file, lan>>
    BY <1>2, <2>1 DEF DetectInv, LanOK
  <2>2. CASE FirstRun
    <3>1. file \in Seq(Entries) /\ FileOK(file)
      BY <1>2 DEF DetectInv, FileOK
    <3>2. lan' = PickStableIPv6(file) /\ file' = file
      BY <2>2 DEF FirstRun
    <3> QED BY <3>1, <3>2, Picked DEF DetectInv, LanOK
  <2>3. CASE UNCHANGED lan /\ Rotated(file, file')
    <3>1. FileOK(file')
      BY <2>3 DEF Rotated
    <3>2. \A i \in DOMAIN file :
             Pickable(file[i]) => \E k \in DOMAIN file' : file'[k] = file[i]
      BY <2>3, StaysPickable DEF Rotated
    <3>3. LanOK'
      BY <1>2, <2>3, <3>2 DEF DetectInv, LanOK
    <3> QED BY <3>1, <3>3 DEF DetectInv
  <2> QED BY <1>2, <2>1, <2>2, <2>3, StepRotates
<1> QED BY <1>1, <1>2, PTL DEF DetectSpec

\* The detected target is an address that the host still has, for every file,
\* every MAC address and whatever privacy addresses come and go: pickStableIPv6
\* never takes one, flagged or not.
THEOREM DetectedTargetLasts == DetectSpec => []TargetLasts
<1>1. DetectInv => TargetLasts
  BY DEF DetectInv, LanOK, TargetLasts, Pickable, Usable
<1> QED BY <1>1, DetectInvHolds, PTL

\* The same address is picked before and after any change of the privacy
\* addresses in /proc/net/if_inet6.
THEOREM PickUnmoved == DetectSpec => RotationHarmless
<1>1. ASSUME DetectInv, [DetectNext]_detectVars
      PROVE  [lan' = lan => PickStableIPv6(file') = PickStableIPv6(file)]_detectVars
  <2> SUFFICES ASSUME lan' = lan
               PROVE  PickStableIPv6(file') = PickStableIPv6(file)
    OBVIOUS
  <2>1. CASE Rotated(file, file')
    <3>1. file \in Seq(Entries) /\ file' \in Seq(Entries)
      BY <2>1 DEF Rotated, FileOK
    <3> QED BY <2>1, <3>1, SamePick DEF Rotated
  <2>2. CASE FirstRun \/ UNCHANGED file
    BY <2>2 DEF FirstRun
  <2> QED BY <1>1, <2>1, <2>2, StepRotates
<1> QED BY <1>1, DetectInvHolds, PTL DEF DetectSpec, RotationHarmless

LEMMA PickIsBest ==
    ASSUME DetectInv
    PROVE  PicksTheBest
<1>1. file \in Seq(Entries) /\ FileOK(file)
  BY DEF DetectInv, FileOK
<1>2. ASSUME NEW i \in DOMAIN file PROVE Eligible(file[i]) <=> Pickable(file[i])
  <2>1. file[i] = Malformed \/ file[i].flags \in SUBSET Flags
    BY <1>1 DEF Entries, Lines
  <2>2. file[i].flags \in SUBSET Flags
          => (file[i].flags \cap NotStableEnough = {}
                <=> file[i].flags \subseteq {"permanent"})
    BY DEF Flags, NotStableEnough
  <2>3. file[i] # Malformed /\ file[i].privacy => ~Pickable(file[i])
    BY <1>1, PrivacyUnpickable
  <2> QED BY <2>1, <2>2, <2>3 DEF Eligible, Pickable, Usable, Derived
<1> DEFINE usable == {file[i] : i \in {j \in DOMAIN file : Eligible(file[j])}}
<1>3. CASE usable = {}
  <2>1. \A i \in DOMAIN file : ~Pickable(file[i])
    BY <1>2, <1>3
  <2> QED BY <1>1, <1>3, <2>1, Picked DEF PicksTheBest
<1>4. CASE usable # {}
  <2> DEFINE S == IF Permanent(file) # {} THEN Permanent(file) ELSE FromMAC(file)
             i == PreferULA(file, S)
             l == file[i]
  <2>1. \E k \in DOMAIN file : Pickable(file[k])
    BY <1>2, <1>4
  <2>2. S \subseteq DOMAIN file /\ S # {}
    BY <2>1, Tiers DEF Pickable
  <2>3. i \in S /\ ((\E k \in S : IsULA(file[k])) => IsULA(l))
    BY <1>1, <2>2, ULAFirst
  <2>4. i \in DOMAIN file /\ Pickable(l)
    BY <2>2, <2>3, Tiers DEF Pickable
  <2>5. PickStableIPv6(file) = AddressOf(l)
    BY <2>2 DEF PickStableIPv6
  <2>6. ASSUME NEW k \in DOMAIN file, Pickable(file[k])
        PROVE  Rank(file[k]) <= Rank(l)
    <3>1. "permanent" \in file[k].flags => "permanent" \in l.flags
      BY <2>3, <2>6, Tiers DEF Pickable
    <3>2. ("permanent" \in file[k].flags <=> "permanent" \in l.flags) => k \in S
      BY <2>3, <2>6, Tiers DEF Pickable
    <3>3. k \in S => (IsULA(file[k]) => IsULA(l))
      BY <2>3
    <3> HIDE DEF l, S, i
    <3> QED BY <3>1, <3>2, <3>3 DEF Rank
  <2> HIDE DEF l, i, S
  <2>7. l \in usable
    BY <1>2, <2>4 DEF l
  <2> QED BY <1>2, <1>4, <2>5, <2>6, <2>7 DEF PicksTheBest
<1> QED BY <1>3, <1>4

\* For every file: an eligible address is picked if there is one, a permanent one
\* before a MAC-derived one and a ULA before another of its kind.
THEOREM BestIsPicked == DetectSpec => []PicksTheBest
<1>1. DetectInv => PicksTheBest
  BY PickIsBest
<1> QED BY <1>1, DetectInvHolds, PTL
=============================================================================
