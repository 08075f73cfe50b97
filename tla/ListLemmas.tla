----------------------------- MODULE ListLemmas ------------------------------
(***************************************************************************)
(* Facts about sequences without repetition, which model the LRU list: the *)
(* effect of removing an element and of pushing one at the front.          *)
(***************************************************************************)
EXTENDS Integers, SequencesExt, SequenceTheorems, TLAPS

\* Taking the node of a key out of the LRU list removes that key only and
\* keeps the order of the others.
LEMMA RemoveFromList ==
  ASSUME NEW S, NEW s \in Seq(S), IsInjective(s),
         NEW k, NEW i \in 1 .. Len(s), s[i] = k
  PROVE  /\ RemoveAt(s, i) \in Seq(S)
         /\ Len(RemoveAt(s, i)) = Len(s) - 1
         /\ \A j \in 1 .. i - 1 : RemoveAt(s, i)[j] = s[j]
         /\ \A j \in i .. Len(s) - 1 : RemoveAt(s, i)[j] = s[j + 1]
         /\ IsInjective(RemoveAt(s, i))
         /\ ToSet(RemoveAt(s, i)) = ToSet(s) \ {k}
  <1> DEFINE r == RemoveAt(s, i)
  <1>1. i \in 1 .. Len(s) /\ s[i] = k
    OBVIOUS
  <1>2. /\ r \in Seq(S)
        /\ Len(r) = Len(s) - 1
        /\ \A j \in 1 .. i - 1 : r[j] = s[j]
        /\ \A j \in i .. Len(s) - 1 : r[j] = s[j + 1]
    <2> DEFINE p == SubSeq(s, 1, i - 1)
               q == SubSeq(s, i + 1, Len(s))
    <2>1. /\ p \in Seq(S) /\ Len(p) = i - 1
          /\ \A j \in 1 .. i - 1 : p[j] = s[j]
      BY <1>1
    <2>2. /\ q \in Seq(S) /\ Len(q) = Len(s) - i
          /\ \A j \in 1 .. Len(s) - i : q[j] = s[j + i]
      BY <1>1
    <2>3. r = p \o q
      BY DEF RemoveAt
    <2> HIDE DEF p, q, r
    <2>4. /\ r \in Seq(S)
          /\ Len(r) = Len(p) + Len(q)
          /\ \A j \in 1 .. Len(p) + Len(q) :
               r[j] = IF j <= Len(p) THEN p[j] ELSE q[j - Len(p)]
      BY <2>1, <2>2, <2>3, ConcatProperties
    <2>5. /\ r \in Seq(S)
          /\ Len(r) = Len(s) - 1
          /\ \A j \in 1 .. Len(s) - 1 :
               r[j] = IF j <= i - 1 THEN p[j] ELSE q[j - (i - 1)]
      <3>1. Len(p) = i - 1 /\ Len(p) + Len(q) = Len(s) - 1
        BY <2>1, <2>2
      <3>. QED  BY ONLY <2>4, <3>1
    <2>6. ASSUME NEW j \in 1 .. i - 1 PROVE r[j] = s[j]
      <3>1. j \in 1 .. Len(s) - 1 /\ j <= i - 1
        OBVIOUS
      <3>. QED  BY <2>1, <2>5, <3>1
    <2>7. ASSUME NEW j \in i .. Len(s) - 1 PROVE r[j] = s[j + 1]
      <3>1. j \in 1 .. Len(s) - 1 /\ ~(j <= i - 1)
        OBVIOUS
      <3>2. r[j] = q[j - (i - 1)]
        BY <2>5, <3>1
      <3>3. j - (i - 1) \in 1 .. Len(s) - i
        OBVIOUS
      <3>4. q[j - (i - 1)] = s[(j - (i - 1)) + i]
        BY <2>2, <3>3
      <3>5. (j - (i - 1)) + i = j + 1
        OBVIOUS
      <3>. QED  BY <3>2, <3>4, <3>5
    <2>. QED  BY <2>5, <2>6, <2>7
  <1>3. \A x, y \in 1 .. Len(s) : s[x] = s[y] => x = y
    BY DEF IsInjective
  <1>4. IsInjective(r)
    <2> HIDE DEF r
    <2> SUFFICES ASSUME NEW x \in 1 .. Len(s) - 1, NEW y \in 1 .. Len(s) - 1,
                        r[x] = r[y]
                 PROVE  x = y
      BY <1>2 DEF IsInjective
    <2>1. CASE x < i /\ y < i
      BY <1>2, <1>3, <2>1
    <2>2. CASE x < i /\ y >= i
      <3>1. s[x] = s[y + 1] /\ y + 1 \in 1 .. Len(s)
        BY <1>1, <1>2, <2>2
      <3>. QED  BY <1>1, <1>3, <2>2, <3>1
    <2>3. CASE x >= i /\ y < i
      <3>1. s[x + 1] = s[y] /\ x + 1 \in 1 .. Len(s)
        BY <1>1, <1>2, <2>3
      <3>. QED  BY <1>1, <1>3, <2>3, <3>1
    <2>4. CASE x >= i /\ y >= i
      <3>1. s[x + 1] = s[y + 1] /\ x + 1 \in 1 .. Len(s) /\ y + 1 \in 1 .. Len(s)
        BY <1>1, <1>2, <2>4
      <3>2. x + 1 = y + 1
        BY <1>3, <3>1
      <3>. QED  BY <3>2
    <2>. QED  BY <1>1, <2>1, <2>2, <2>3, <2>4
  <1>5. ToSet(r) = ToSet(s) \ {k}
    <2> HIDE DEF r
    <2>1. ASSUME NEW j \in 1 .. Len(s) - 1 PROVE r[j] \in ToSet(s) \ {k}
      <3>1. CASE j < i
        <4>1. r[j] = s[j] /\ j \in 1 .. Len(s) /\ j # i
          BY <1>1, <1>2, <3>1
        <4>. QED  BY <1>1, <1>3, <4>1 DEF ToSet
      <3>2. CASE j >= i
        <4>1. r[j] = s[j + 1] /\ j + 1 \in 1 .. Len(s) /\ j + 1 # i
          BY <1>1, <1>2, <3>2
        <4>. QED  BY <1>1, <1>3, <4>1 DEF ToSet
      <3>. QED  BY <1>1, <3>1, <3>2
    <2>2. ASSUME NEW x \in ToSet(s) \ {k} PROVE \E j \in DOMAIN r : r[j] = x
      <3>1. PICK j \in 1 .. Len(s) : s[j] = x
        BY DEF ToSet
      <3>2. CASE j < i
        BY <1>1, <1>2, <3>1, <3>2
      <3>3. CASE j > i
        <4>1. j - 1 \in 1 .. Len(s) - 1 /\ ~(j - 1 < i)
          BY <1>1, <3>3
        <4>2. r[j - 1] = s[(j - 1) + 1]
          BY <1>2, <4>1
        <4>3. (j - 1) + 1 = j
          OBVIOUS
        <4>. QED  BY <1>2, <3>1, <4>1, <4>2, <4>3
      <3>. QED  BY <1>1, <3>1, <3>2, <3>3
    <2>3. ToSet(r) = {r[j] : j \in DOMAIN r} /\ DOMAIN r = 1 .. Len(s) - 1
      BY <1>2 DEF ToSet
    <2>. QED  BY <2>1, <2>2, <2>3
  <1>. QED  BY <1>1, <1>2, <1>4, <1>5

\* Pushing a new key at the front of the LRU list.
LEMMA PushFront ==
  ASSUME NEW S, NEW s \in Seq(S), IsInjective(s), NEW k \in S, k \notin ToSet(s)
  PROVE  /\ <<k>> \o s \in Seq(S)
         /\ Len(<<k>> \o s) = Len(s) + 1
         /\ (<<k>> \o s)[1] = k
         /\ \A j \in 1 .. Len(s) : (<<k>> \o s)[j + 1] = s[j]
         /\ IsInjective(<<k>> \o s)
         /\ ToSet(<<k>> \o s) = ToSet(s) \union {k}
  <1> DEFINE r == <<k>> \o s
  <1>1. /\ r \in Seq(S)
        /\ Len(r) = Len(s) + 1
        /\ r[1] = k
        /\ \A j \in 1 .. Len(s) : r[j + 1] = s[j]
        /\ \A j \in 2 .. Len(s) + 1 : r[j] = s[j - 1]
    OBVIOUS
  <1> HIDE DEF r
  <1>2. IsInjective(r)
    <2>1. \A j \in 1 .. Len(s) : s[j] # k
      BY DEF ToSet
    <2>2. \A j \in 2 .. Len(s) + 1 : j - 1 \in 1 .. Len(s)
      OBVIOUS
    <2>3. ASSUME NEW x \in DOMAIN r, NEW y \in DOMAIN r, r[x] = r[y]
          PROVE  x = y
      <3>1. CASE x = 1 \/ y = 1
        <4>1. \A j \in 2 .. Len(s) + 1 : r[j] # k
          BY <1>1, <2>1, <2>2
        <4>2. x \in 1 .. Len(s) + 1 /\ y \in 1 .. Len(s) + 1
          BY <1>1
        <4>. QED  BY <1>1, <2>3, <3>1, <4>1, <4>2
      <3>2. CASE x # 1 /\ y # 1
        <4>1. s[x - 1] = s[y - 1] /\ x - 1 \in DOMAIN s /\ y - 1 \in DOMAIN s
          BY <1>1, <2>3, <3>2
        <4>. QED  BY <1>1, <3>2, <4>1 DEF IsInjective
      <3>. QED  BY <3>1, <3>2
    <2>. QED  BY <2>3 DEF IsInjective
  <1>3. ToSet(r) = ToSet(s) \union {k}
    <2>1. ASSUME NEW j \in DOMAIN r PROVE r[j] \in ToSet(s) \union {k}
      <3>1. CASE j = 1
        BY <1>1, <3>1
      <3>2. CASE j # 1
        <4>1. r[j] = s[j - 1] /\ j - 1 \in DOMAIN s
          BY <1>1, <3>2
        <4>. QED  BY <4>1 DEF ToSet
      <3>. QED  BY <3>1, <3>2
    <2>2. ASSUME NEW x \in ToSet(s) PROVE \E j \in DOMAIN r : r[j] = x
      <3>1. PICK j \in 1 .. Len(s) : s[j] = x
        BY DEF ToSet
      <3>2. j + 1 \in DOMAIN r /\ r[j + 1] = x
        BY <1>1, <3>1
      <3>. QED  BY <3>2
    <2>3. 1 \in DOMAIN r /\ r[1] = k
      BY <1>1
    <2>4. ToSet(r) = {r[j] : j \in DOMAIN r}
      BY DEF ToSet
    <2>. QED  BY <2>1, <2>2, <2>3, <2>4
  <1>. QED  BY <1>1, <1>2, <1>3 DEF r
==============================================================================
