------------------------ MODULE LotAttribution_proofs ------------------------
(***************************************************************************)
(* The load port and the lot file of every event, for any number of load   *)
(* ports, modules, batches, faults and refused bands, and for any part of  *)
(* the MG's script that keeps the removal of the carrier and, with a step, *)
(* the start of its wafer.                                                 *)
(*                                                                         *)
(* The argument for LotAttribution has two parts.                          *)
(*                                                                         *)
(* Base holds always: a module holds one wafer; every owed entry is of an  *)
(* event older than the tool's next one, so no two are of the same event;  *)
(* the shelves of the writer (buffer and pre-lot rows) have the rows of    *)
(* the entries that are held and of no other, those of one lot to a shelf, *)
(* and the file that was written last was such a shelf.                    *)
(*                                                                         *)
(* InOrder holds while no event has overtaken an older one: only the last  *)
(* entry is still to be published, rows are read in the order of their     *)
(* events, so a held row never follows one that is still to be read; a     *)
(* port that the tracker knows, or that an owed event will tell it, has a  *)
(* carrier on it, or the row of its carrier's removal is still to be read; *)
(* and when the start of a step is due, or still to be published, its      *)
(* module is bound to its port, or the entry that will bind it is owed,    *)
(* with nothing after it that would bind the module to another port.       *)
(***************************************************************************)
EXTENDS LotAttribution, SequenceTheorems, FiniteSetTheorems, WellFoundedInduction,
        TLAPS

(***************************************************************************)
(* What Keep keeps.                                                        *)
(***************************************************************************)
(* A set of natural numbers has a smallest one.                             *)
LEMMA Least ==
    ASSUME NEW T \in SUBSET Nat, T # {}
    PROVE  \E x \in T : \A y \in T : x <= y
<1> DEFINE R == {ss \in Nat \X Nat : ss[1] < ss[2]}
<1>1. IsWellFoundedOn(R, Nat)
  BY NatLessThanWellFounded DEF OpToRel
<1>2. PICK x \in T : \A y \in T : ~(<<y, x>> \in R)
  <2> HIDE DEF R
  <2> QED BY <1>1, WFMin
<1>3. \A y \in T : ~(y < x)
  BY <1>2
<1> QED BY <1>3

(* What a filter has kept after each position.                              *)
Kept(s, I, n, F) ==
    F = [i \in 0 .. n |->
            IF i = 0 THEN <<>>
            ELSE IF i \in I THEN Append(F[i - 1], s[i])
            ELSE F[i - 1]]

Longer(s, I, n, q) == IF n + 1 \in I THEN Append(q, s[n + 1]) ELSE q

\* A filter can be run up to every position.
LEMMA KeptUpTo ==
    ASSUME NEW X, NEW s \in Seq(X), NEW I, NEW n \in 0 .. Len(s)
    PROVE  \E F : Kept(s, I, n, F)
<1> DEFINE Good(m) == \E F : Kept(s, I, m, F)
           Bad == {m \in 0 .. Len(s) : ~Good(m)}
<1>1. Good(0)
  <2>1. [i \in 0 .. 0 |-> <<>>] = [i \in 0 .. 0 |->
           IF i = 0 THEN <<>>
           ELSE IF i \in I THEN Append([j \in 0 .. 0 |-> <<>>][i - 1], s[i])
           ELSE [j \in 0 .. 0 |-> <<>>][i - 1]]
    OBVIOUS
  <2> QED BY <2>1 DEF Kept
<1>2. ASSUME NEW m \in Nat, Good(m) PROVE Good(m + 1)
  <2>1. PICK F : F = [i \in 0 .. m |->
                        IF i = 0 THEN <<>>
                        ELSE IF i \in I THEN Append(F[i - 1], s[i])
                        ELSE F[i - 1]]
    BY <1>2 DEF Kept
  <2> DEFINE G == [i \in 0 .. m + 1 |->
                     IF i <= m THEN F[i]
                     ELSE IF m + 1 \in I THEN Append(F[m], s[m + 1])
                     ELSE F[m]]
  <2>2. \A i \in 0 .. m : G[i] = F[i]
    OBVIOUS
  <2>3. \A i \in 0 .. m : F[i] = IF i = 0 THEN <<>>
                        ELSE IF i \in I THEN Append(F[i - 1], s[i])
                        ELSE F[i - 1]
    BY <2>1
  <2>4. \A i \in 0 .. m + 1 : G[i] = IF i = 0 THEN <<>>
                        ELSE IF i \in I THEN Append(G[i - 1], s[i])
                        ELSE G[i - 1]
    <3> TAKE i \in 0 .. m + 1
    <3>1. CASE i = 0
      BY <3>1, <2>2, <2>3
    <3>2. CASE i \in 1 .. m
      <4>1. i \in 0 .. m /\ i - 1 \in 0 .. m /\ i # 0
        BY <3>2
      <4> HIDE DEF G
      <4> QED BY <4>1, <2>2, <2>3
    <3>3. CASE i = m + 1
      <4>1. G[i] = IF i \in I THEN Append(F[m], s[i]) ELSE F[m]
        BY <3>3
      <4>2. G[i - 1] = F[m] /\ i # 0
        BY <3>3, <2>2
      <4> HIDE DEF G
      <4> QED BY <4>1, <4>2
    <3> QED BY <3>1, <3>2, <3>3
  <2>5. G = [i \in 0 .. m + 1 |-> G[i]]
    OBVIOUS
  <2> HIDE DEF G
  <2>6. G = [i \in 0 .. m + 1 |-> IF i = 0 THEN <<>>
                        ELSE IF i \in I THEN Append(G[i - 1], s[i])
                        ELSE G[i - 1]]
    BY <2>4, <2>5
  <2> QED BY <2>6 DEF Kept
<1> HIDE DEF Good
<1>3. ASSUME Bad # {} PROVE FALSE
  <2>1. Bad \in SUBSET Nat /\ Len(s) \in Nat
    OBVIOUS
  <2>2. PICK x \in Bad : \A y \in Bad : x <= y
    BY <1>3, <2>1, Least
  <2>3. x # 0 /\ x \in 0 .. Len(s) /\ ~Good(x)
    BY <2>2, <1>1
  <2>4. x - 1 \in Nat /\ x - 1 \in 0 .. Len(s) /\ ~(x <= x - 1)
    BY <2>3
  <2>5. x - 1 \notin Bad
    BY <2>2, <2>4
  <2>6. Good(x - 1)
    BY <2>4, <2>5
  <2>7. Good((x - 1) + 1)
    BY <2>4, <2>6, <1>2
  <2> QED BY <2>3, <2>7
<1>4. Good(n)
  BY <1>3
<1> QED BY <1>4 DEF Good

\* Keep is what the filter has kept at the end.
LEMMA KeepIs ==
    ASSUME NEW X, NEW s \in Seq(X), NEW I
    PROVE  \E F : Kept(s, I, Len(s), F) /\ Keep(s, I) = F[Len(s)]
<1>1. Len(s) \in 0 .. Len(s)
  BY LenProperties
<1>2. \E F : Kept(s, I, Len(s), F)
  BY <1>1, KeptUpTo
<1> DEFINE F0 == CHOOSE F : Kept(s, I, Len(s), F)
<1>3. Kept(s, I, Len(s), F0)
  BY <1>2
<1>4. Keep(s, I) = F0[Len(s)]
  BY DEF Keep, Kept
<1> QED BY <1>3, <1>4

(* k is the place in s of each element that is kept of its first n.         *)
Places(s, I, n, q, k) ==
    /\ k \in [1 .. Len(q) -> 1 .. n]
    /\ \A i \in 1 .. Len(q) : k[i] \in I /\ q[i] = s[k[i]]
    /\ \A i, j \in 1 .. Len(q) : i < j => k[i] < k[j]
    /\ \A m \in 1 .. n : m \in I => \E i \in 1 .. Len(q) : k[i] = m

\* One position more: the element is added at its place, or left out.
LEMMA PlacesStep ==
    ASSUME NEW X, NEW s \in Seq(X), NEW I, NEW n \in Nat, n + 1 <= Len(s),
           NEW q \in Seq(X), NEW k, Places(s, I, n, q, k)
    PROVE  /\ Longer(s, I, n, q) \in Seq(X)
           /\ \E h : Places(s, I, n + 1, Longer(s, I, n, q), h)
<1>0. Len(q) \in Nat /\ Len(s) \in Nat /\ s[n + 1] \in X
  BY LenProperties, ElementOfSeq
<1>1. CASE n + 1 \notin I
  <2>1. Places(s, I, n + 1, q, k)
    BY <1>0, <1>1 DEF Places
  <2> QED BY <1>1, <2>1 DEF Longer
<1>2. CASE n + 1 \in I
  <2> DEFINE r == Append(q, s[n + 1])
             h == [i \in 1 .. Len(q) + 1 |-> IF i <= Len(q) THEN k[i] ELSE n + 1]
  <2>1. /\ r \in Seq(X) /\ Len(r) = Len(q) + 1
        /\ \A i \in 1 .. Len(q) : r[i] = q[i]
        /\ r[Len(q) + 1] = s[n + 1]
    BY <1>0, AppendProperties
  <2>2. /\ k \in [1 .. Len(q) -> 1 .. n]
        /\ \A i \in 1 .. Len(q) : k[i] \in I /\ q[i] = s[k[i]]
        /\ \A i, j \in 1 .. Len(q) : i < j => k[i] < k[j]
        /\ \A m \in 1 .. n : m \in I => \E i \in 1 .. Len(q) : k[i] = m
    BY DEF Places
  <2>3. \A i \in 1 .. Len(q) : h[i] = k[i] /\ k[i] \in 1 .. n
    <3> TAKE i \in 1 .. Len(q)
    <3>1. i \in 1 .. Len(q) + 1 /\ i <= Len(q)
      BY <1>0
    <3>2. h[i] = k[i]
      BY <3>1
    <3>3. k[i] \in 1 .. n
      BY <2>2
    <3> QED BY <3>2, <3>3
  <2>4. h[Len(q) + 1] = n + 1 /\ Len(q) + 1 \in 1 .. Len(q) + 1
    BY <1>0
  <2>5. h \in [1 .. Len(q) + 1 -> 1 .. n + 1]
    BY <1>0, <2>2
  <2> HIDE DEF r, h
  <2>6. \A i \in 1 .. Len(r) : h[i] \in I /\ r[i] = s[h[i]]
    <3> TAKE i \in 1 .. Len(r)
    <3>1. i \in 1 .. Len(q) \/ i = Len(q) + 1
      BY <1>0, <2>1
    <3> QED BY <3>1, <1>2, <2>1, <2>2, <2>3, <2>4
  <2>7. \A i, j \in 1 .. Len(r) : i < j => h[i] < h[j]
    <3> TAKE i, j \in 1 .. Len(r)
    <3> HAVE i < j
    <3>1. i \in 1 .. Len(q) /\ (j \in 1 .. Len(q) \/ j = Len(q) + 1)
      BY <1>0, <2>1
    <3>2. CASE j \in 1 .. Len(q)
      BY <3>1, <3>2, <2>2, <2>3
    <3>3. CASE j = Len(q) + 1
      BY <3>1, <3>3, <2>3, <2>4
    <3> QED BY <3>1, <3>2, <3>3
  <2>8. \A m \in 1 .. n + 1 : m \in I => \E i \in 1 .. Len(r) : h[i] = m
    <3> TAKE m \in 1 .. n + 1
    <3> HAVE m \in I
    <3>1. CASE m = n + 1
      BY <3>1, <2>1, <2>4
    <3>2. CASE m \in 1 .. n
      <4>1. PICK i \in 1 .. Len(q) : k[i] = m
        BY <3>2, <2>2
      <4>2. h[i] = m /\ i \in 1 .. Len(r)
        BY <4>1, <2>3, <2>1, <1>0
      <4> QED BY <4>2
    <3> QED BY <3>1, <3>2
  <2>9. Places(s, I, n + 1, r, h)
    BY <2>1, <2>5, <2>6, <2>7, <2>8 DEF Places
  <2> QED BY <1>2, <2>1, <2>9 DEF r, Longer
<1> QED BY <1>1, <1>2

(* What is kept is kept in its order, and nothing else is left out.         *)
LEMMA KeepPlaces ==
    ASSUME NEW X, NEW s \in Seq(X), NEW I
    PROVE  /\ Keep(s, I) \in Seq(X)
           /\ \E k : Places(s, I, Len(s), Keep(s, I), k)
<1>0. Len(s) \in Nat
  BY LenProperties
<1>1. PICK F : Kept(s, I, Len(s), F) /\ Keep(s, I) = F[Len(s)]
  BY KeepIs
<1>2. /\ F[0] = <<>>
      /\ \A n \in Nat : n + 1 <= Len(s) =>
            F[n + 1] = IF n + 1 \in I THEN Append(F[n], s[n + 1]) ELSE F[n]
  <2>1. \A i \in 0 .. Len(s) : F[i] = IF i = 0 THEN <<>>
                        ELSE IF i \in I THEN Append(F[i - 1], s[i])
                        ELSE F[i - 1]
    BY <1>1 DEF Kept
  <2>2. F[0] = <<>>
    BY <2>1, <1>0
  <2>3. ASSUME NEW n \in Nat, n + 1 <= Len(s)
        PROVE  F[n + 1] = IF n + 1 \in I THEN Append(F[n], s[n + 1]) ELSE F[n]
    <3>1. n + 1 \in 0 .. Len(s) /\ n + 1 # 0 /\ (n + 1) - 1 = n
      BY <2>3, <1>0
    <3> QED BY <2>1, <3>1
  <2> QED BY <2>2, <2>3
<1> DEFINE Fine(n) == F[n] \in Seq(X) /\ \E k : Places(s, I, n, F[n], k)
           Bad == {n \in 0 .. Len(s) : ~Fine(n)}
<1>3. Fine(0)
  <2>1. F[0] = <<>> /\ Len(<<>>) = 0 /\ <<>> \in Seq(X)
    BY <1>2
  <2>2. Places(s, I, 0, <<>>, [i \in 1 .. 0 |-> i])
    BY DEF Places
  <2> QED BY <2>1, <2>2
<1>4. ASSUME NEW n \in Nat, n + 1 <= Len(s), Fine(n) PROVE Fine(n + 1)
  <2>1. PICK k : Places(s, I, n, F[n], k)
    BY <1>4
  <2>2. F[n] \in Seq(X)
    BY <1>4
  <2>3. F[n + 1] = Longer(s, I, n, F[n]) /\ n + 1 <= Len(s)
    BY <1>2, <1>4 DEF Longer
  <2> QED BY <2>1, <2>2, <2>3, PlacesStep
<1> HIDE DEF Fine
<1>5. ASSUME Bad # {} PROVE FALSE
  <2>1. Bad \in SUBSET Nat
    BY <1>0
  <2>2. PICK x \in Bad : \A y \in Bad : x <= y
    BY <1>5, <2>1, Least
  <2>3. x # 0 /\ x \in 0 .. Len(s) /\ ~Fine(x)
    BY <2>2, <1>3
  <2>4. x - 1 \in Nat /\ x - 1 \in 0 .. Len(s) /\ ~(x <= x - 1) /\ (x - 1) + 1 <= Len(s)
    BY <2>3, <1>0
  <2>5. x - 1 \notin Bad
    BY <2>2, <2>4
  <2>6. Fine(x - 1)
    BY <2>4, <2>5
  <2>7. Fine((x - 1) + 1)
    BY <2>4, <2>6, <1>4
  <2> QED BY <2>3, <2>7
<1>6. Fine(Len(s))
  BY <1>5, <1>0
<1> QED BY <1>1, <1>6 DEF Fine

----------------------------------------------------------------------------
(* The job tracker.                                                         *)

IsSeq(d) == \E X : d \in Seq(X)
Within(e, d) == \A i \in DOMAIN e : \E j \in DOMAIN d : e[i] = d[j]
DictPorts(d) == {d[i].port : i \in DOMAIN d}

\* Keep adds nothing to a dictionary, and keeps its order.
LEMMA KeepWithin ==
    ASSUME NEW d, IsSeq(d), NEW I
    PROVE  /\ IsSeq(Keep(d, I))
           /\ \A i \in DOMAIN Keep(d, I) :
                 \E j \in DOMAIN d : j \in I /\ Keep(d, I)[i] = d[j]
<1>1. PICK X : d \in Seq(X)
  BY DEF IsSeq
<1>2. Keep(d, I) \in Seq(X)
  BY <1>1, KeepPlaces
<1>3. PICK k : Places(d, I, Len(d), Keep(d, I), k)
  BY <1>1, KeepPlaces
<1>4. DOMAIN Keep(d, I) = 1 .. Len(Keep(d, I)) /\ DOMAIN d = 1 .. Len(d)
  BY <1>1, <1>2, LenProperties
<1>5. \A i \in 1 .. Len(Keep(d, I)) :
         k[i] \in 1 .. Len(d) /\ k[i] \in I /\ Keep(d, I)[i] = d[k[i]]
  BY <1>3 DEF Places
<1> QED BY <1>2, <1>4, <1>5 DEF IsSeq

\* What Append does, for a sequence of anything.
LEMMA AppendIs ==
    ASSUME NEW d, IsSeq(d), NEW e
    PROVE  /\ IsSeq(Append(d, e)) /\ Len(d) \in Nat
           /\ DOMAIN d = 1 .. Len(d) /\ Len(Append(d, e)) = Len(d) + 1
           /\ DOMAIN Append(d, e) = 1 .. Len(d) + 1
           /\ \A i \in 1 .. Len(d) : Append(d, e)[i] = d[i]
           /\ Append(d, e)[Len(d) + 1] = e
<1>1. PICK X : d \in Seq(X)
  BY DEF IsSeq
<1>2. d \in Seq(X \cup {e}) /\ e \in X \cup {e}
  BY <1>1, SeqMonotonic
<1>3. Append(d, e) \in Seq(X \cup {e}) /\ Len(Append(d, e)) = Len(d) + 1
  BY <1>2, AppendProperties
<1>4. /\ \A i \in 1 .. Len(d) : Append(d, e)[i] = d[i]
      /\ Append(d, e)[Len(d) + 1] = e
  BY <1>2, AppendProperties
<1>5. DOMAIN Append(d, e) = 1 .. Len(d) + 1 /\ DOMAIN d = 1 .. Len(d) /\ Len(d) \in Nat
  BY <1>2, <1>3, LenProperties
<1> QED BY <1>3, <1>4, <1>5 DEF IsSeq

\* Append adds its element only.
LEMMA AppendOnly ==
    ASSUME NEW d, IsSeq(d), NEW e
    PROVE  \A i \in DOMAIN Append(d, e) :
              Append(d, e)[i] = e \/ \E j \in DOMAIN d : Append(d, e)[i] = d[j]
<1> SUFFICES ASSUME NEW i \in DOMAIN Append(d, e)
             PROVE  Append(d, e)[i] = e \/ \E j \in DOMAIN d : Append(d, e)[i] = d[j]
  OBVIOUS
<1>1. i \in 1 .. Len(d) \/ i = Len(d) + 1
  BY AppendIs
<1> QED BY <1>1, AppendIs

\* The oldest entry is dropped, and nothing is added.
LEMMA TailOnly ==
    ASSUME NEW d, IsSeq(d), Len(d) # 0
    PROVE  /\ IsSeq(Tail(d))
           /\ \A i \in DOMAIN Tail(d) : \E j \in DOMAIN d : Tail(d)[i] = d[j]
<1>1. PICK X : d \in Seq(X)
  BY DEF IsSeq
<1>2. d # <<>> /\ Len(d) \in Nat /\ DOMAIN d = 1 .. Len(d)
  BY <1>1, LenProperties
<1>3. /\ Tail(d) \in Seq(X) /\ Len(Tail(d)) = Len(d) - 1
      /\ \A i \in 1 .. Len(Tail(d)) : Tail(d)[i] = d[i + 1]
  BY <1>1, <1>2, HeadTailProperties
<1>4. DOMAIN Tail(d) = 1 .. Len(Tail(d))
  BY <1>3, LenProperties
<1>5. \A i \in DOMAIN Tail(d) : i + 1 \in DOMAIN d
  BY <1>2, <1>3, <1>4
<1> QED BY <1>3, <1>4, <1>5 DEF IsSeq

\* A dictionary without one key.
LEMMA WithoutKeyIs ==
    ASSUME NEW d, IsSeq(d), NEW key
    PROVE  /\ IsSeq(WithoutKey(d, key)) /\ Within(WithoutKey(d, key), d)
           /\ \A i \in DOMAIN WithoutKey(d, key) : WithoutKey(d, key)[i].key # key
<1>1. PICK I : I = {i \in DOMAIN d : d[i].key # key}
  OBVIOUS
<1>2. WithoutKey(d, key) = Keep(d, I)
  BY <1>1 DEF WithoutKey
<1>3. /\ IsSeq(Keep(d, I))
      /\ \A i \in DOMAIN Keep(d, I) :
            \E j \in DOMAIN d : j \in I /\ Keep(d, I)[i] = d[j]
  BY KeepWithin
<1>4. \A j \in I : d[j].key # key
  BY <1>1
<1> QED BY <1>2, <1>3, <1>4 DEF Within

\* A dictionary without the entries of one port.
LEMMA WithoutPortIs ==
    ASSUME NEW d, IsSeq(d), NEW lp
    PROVE  /\ IsSeq(WithoutPort(d, lp)) /\ Within(WithoutPort(d, lp), d)
           /\ DictPorts(WithoutPort(d, lp)) \subseteq DictPorts(d) \ {lp}
<1>1. /\ IsSeq(WithoutPort(d, lp)) /\ Within(WithoutPort(d, lp), d)
      /\ \A i \in DOMAIN WithoutPort(d, lp) : \E j \in DOMAIN d :
            d[j].port # lp /\ WithoutPort(d, lp)[i] = d[j]
  <2>1. PICK I : I = {i \in DOMAIN d : d[i].port # lp}
    OBVIOUS
  <2>2. WithoutPort(d, lp) = Keep(d, I)
    BY <2>1 DEF WithoutPort
  <2>3. /\ IsSeq(Keep(d, I))
        /\ \A i \in DOMAIN Keep(d, I) :
              \E j \in DOMAIN d : j \in I /\ Keep(d, I)[i] = d[j]
    BY KeepWithin
  <2>4. \A j \in I : d[j].port # lp
    BY <2>1
  <2> QED BY <2>2, <2>3, <2>4 DEF Within
<1> QED BY <1>1 DEF DictPorts

\* The history of ports without one port.
LEMMA WithoutLpIs ==
    ASSUME NEW d, IsSeq(d), NEW lp
    PROVE  /\ IsSeq(WithoutLp(d, lp))
           /\ \A i \in DOMAIN WithoutLp(d, lp) : \E j \in DOMAIN d :
                 d[j] # lp /\ WithoutLp(d, lp)[i] = d[j]
BY KeepWithin DEF WithoutLp

\* _bounded_put can add no port but the one it is given.
LEMMA BoundedPutIs ==
    ASSUME NEW d, IsSeq(d), NEW key, NEW lp, NEW cap \in Nat
    PROVE  /\ IsSeq(BoundedPut(d, key, lp, cap))
           /\ DictPorts(BoundedPut(d, key, lp, cap)) \subseteq DictPorts(d) \cup {lp}
<1> DEFINE new == [key |-> key, port |-> lp]
           longer == Append(WithoutKey(d, key), new)
<1>1. /\ IsSeq(longer) /\ Len(longer) \in Nat /\ Len(longer) # 0
      /\ \A i \in DOMAIN longer : longer[i] = new \/ \E j \in DOMAIN d : longer[i] = d[j]
  <2>1. IsSeq(WithoutKey(d, key)) /\ Within(WithoutKey(d, key), d)
    BY WithoutKeyIs
  <2>2. IsSeq(longer) /\ Len(longer) = Len(WithoutKey(d, key)) + 1 /\ Len(WithoutKey(d, key)) \in Nat
    BY <2>1, AppendIs
  <2>3. \A i \in DOMAIN longer :
           longer[i] = new \/ \E j \in DOMAIN WithoutKey(d, key) : longer[i] = WithoutKey(d, key)[j]
    BY <2>1, AppendOnly
  <2> QED BY <2>1, <2>2, <2>3 DEF Within
<1>2. BoundedPut(d, key, lp, cap) = IF Len(longer) > cap THEN Tail(longer) ELSE longer
  BY DEF BoundedPut
<1>3. new.port = lp
  OBVIOUS
<1> HIDE DEF new, longer
<1>4. /\ IsSeq(BoundedPut(d, key, lp, cap))
      /\ \A i \in DOMAIN BoundedPut(d, key, lp, cap) :
            \/ BoundedPut(d, key, lp, cap)[i] = new
            \/ \E j \in DOMAIN d : BoundedPut(d, key, lp, cap)[i] = d[j]
  <2>1. CASE Len(longer) > cap
    <3>1. IsSeq(Tail(longer)) /\ Within(Tail(longer), longer)
      BY <1>1, TailOnly DEF Within
    <3> QED BY <3>1, <1>1, <1>2, <2>1 DEF Within
  <2>2. CASE ~(Len(longer) > cap)
    BY <2>2, <1>1, <1>2
  <2> QED BY <2>1, <2>2
<1> QED BY <1>3, <1>4 DEF DictPorts

IsTracker(t) ==
    /\ t = [lpHistory  |-> t.lpHistory, ctrlJobs |-> t.ctrlJobs,
            waferPorts |-> t.waferPorts, lotPorts |-> t.lotPorts,
            chamberPorts |-> t.chamberPorts]
    /\ IsSeq(t.lpHistory) /\ IsSeq(t.ctrlJobs) /\ IsSeq(t.waferPorts)
    /\ IsSeq(t.lotPorts) /\ IsSeq(t.chamberPorts)

\* The ports that a tracker knows, dictionary by dictionary.
LEMMA KnownIs ==
    ASSUME NEW t
    PROVE  PortsKnown(t) = {t.lpHistory[i] : i \in DOMAIN t.lpHistory}
                \cup DictPorts(t.ctrlJobs) \cup DictPorts(t.waferPorts)
                \cup DictPorts(t.lotPorts) \cup DictPorts(t.chamberPorts)
BY DEF PortsKnown, DictPorts

\* The sizes of the dictionaries are numbers.
LEMMA CapsAreNat == MaxWafers \in Nat /\ MaxLots \in Nat /\ MaxJobs \in Nat
BY CapsAssumption

\* Fewer entries name fewer ports.
LEMMA WithinPorts ==
    ASSUME NEW e, NEW d, Within(e, d)
    PROVE  DictPorts(e) \subseteq DictPorts(d)
BY DEF Within, DictPorts

\* activate adds the port, and leaves the chambers alone.
LEMMA ActivateIs ==
    ASSUME NEW t, IsTracker(t), NEW lp
    PROVE  /\ IsTracker(Activate(t, lp))
           /\ PortsKnown(Activate(t, lp)) \subseteq PortsKnown(t) \cup {lp}
           /\ Activate(t, lp).chamberPorts = t.chamberPorts
<1>1. CASE \E i \in DOMAIN t.lpHistory : t.lpHistory[i] = lp
  BY <1>1 DEF Activate
<1>2. CASE ~ \E i \in DOMAIN t.lpHistory : t.lpHistory[i] = lp
  <2>1. PICK h : h = Append(t.lpHistory, lp)
    OBVIOUS
  <2>2. IsSeq(h) /\ {h[i] : i \in DOMAIN h} \subseteq {t.lpHistory[i] : i \in DOMAIN t.lpHistory} \cup {lp}
    <3>1. IsSeq(t.lpHistory)
      BY DEF IsTracker
    <3>2. IsSeq(Append(t.lpHistory, lp))
      BY <3>1, AppendIs
    <3>3. \A i \in DOMAIN h : h[i] = lp \/ \E j \in DOMAIN t.lpHistory : h[i] = t.lpHistory[j]
      BY <2>1, <3>1, AppendOnly
    <3> QED BY <2>1, <3>2, <3>3
  <2>3. Activate(t, lp) = [lpHistory |-> h, ctrlJobs |-> t.ctrlJobs,
            waferPorts |-> t.waferPorts, lotPorts |-> t.lotPorts,
            chamberPorts |-> t.chamberPorts]
    BY <1>2, <2>1 DEF Activate, IsTracker
  <2>4. IsTracker(Activate(t, lp))
    BY <2>2, <2>3 DEF IsTracker
  <2>5. PortsKnown(Activate(t, lp)) \subseteq PortsKnown(t) \cup {lp}
    BY <2>2, <2>3, KnownIs
  <2> QED BY <2>3, <2>4, <2>5
<1> QED BY <1>1, <1>2

\* deactivate forgets the port everywhere.
LEMMA DeactivateIs ==
    ASSUME NEW t, IsTracker(t), NEW lp
    PROVE  /\ IsTracker(Deactivate(t, lp))
           /\ PortsKnown(Deactivate(t, lp)) \subseteq PortsKnown(t) \ {lp}
           /\ Within(Deactivate(t, lp).chamberPorts, t.chamberPorts)
<1>1. IsSeq(t.lpHistory) /\ IsSeq(t.ctrlJobs) /\ IsSeq(t.waferPorts)
      /\ IsSeq(t.lotPorts) /\ IsSeq(t.chamberPorts)
  BY DEF IsTracker
<1>2. PICK h, j, w, l, c :
        /\ h = WithoutLp(t.lpHistory, lp) /\ j = WithoutPort(t.ctrlJobs, lp)
        /\ w = WithoutPort(t.waferPorts, lp) /\ l = WithoutPort(t.lotPorts, lp)
        /\ c = WithoutPort(t.chamberPorts, lp)
  OBVIOUS
<1>3. Deactivate(t, lp) = [lpHistory |-> h, ctrlJobs |-> j, waferPorts |-> w,
                           lotPorts |-> l, chamberPorts |-> c]
  BY <1>2 DEF Deactivate
<1>4. /\ IsSeq(j) /\ DictPorts(j) \subseteq DictPorts(t.ctrlJobs) \ {lp}
      /\ IsSeq(w) /\ DictPorts(w) \subseteq DictPorts(t.waferPorts) \ {lp}
      /\ IsSeq(l) /\ DictPorts(l) \subseteq DictPorts(t.lotPorts) \ {lp}
      /\ IsSeq(c) /\ DictPorts(c) \subseteq DictPorts(t.chamberPorts) \ {lp}
      /\ Within(c, t.chamberPorts)
  BY <1>1, <1>2, WithoutPortIs
<1>5. IsSeq(h) /\ {h[i] : i \in DOMAIN h} \subseteq {t.lpHistory[i] : i \in DOMAIN t.lpHistory} \ {lp}
  BY <1>1, <1>2, WithoutLpIs
<1>6. IsTracker(Deactivate(t, lp))
  BY <1>3, <1>4, <1>5 DEF IsTracker
<1>7. PICK d : d = Deactivate(t, lp)
  OBVIOUS
<1>8. /\ d.lpHistory = h /\ d.ctrlJobs = j /\ d.waferPorts = w /\ d.lotPorts = l
      /\ d.chamberPorts = c
  BY <1>3, <1>7
<1>9. PortsKnown(d) \subseteq PortsKnown(t) \ {lp}
  BY <1>4, <1>5, <1>8, KnownIs
<1> QED BY <1>4, <1>6, <1>7, <1>8, <1>9

\* note_resolution can add the port that was resolved, and no chamber.
LEMMA ResolutionIs ==
    ASSUME NEW t, IsTracker(t), NEW data, NEW lp
    PROVE  /\ IsTracker(NoteResolution(t, data, lp))
           /\ PortsKnown(NoteResolution(t, data, lp)) \subseteq PortsKnown(t) \cup {lp}
           /\ NoteResolution(t, data, lp).chamberPorts = t.chamberPorts
           /\ data.wafer = "" /\ data.lot = "" => NoteResolution(t, data, lp) = t
<1>1. PICK w, l :
        /\ w = (IF data.wafer = "" THEN t.waferPorts
                ELSE BoundedPut(t.waferPorts, data.wafer, lp, MaxWafers))
        /\ l = (IF data.lot = "" THEN t.lotPorts
                ELSE BoundedPut(t.lotPorts, data.lot, lp, MaxLots))
  OBVIOUS
<1>2. PICK n : n = NoteResolution(t, data, lp)
  OBVIOUS
<1>3. n = [lpHistory |-> t.lpHistory, ctrlJobs |-> t.ctrlJobs, waferPorts |-> w,
           lotPorts |-> l, chamberPorts |-> t.chamberPorts]
  BY <1>1, <1>2 DEF NoteResolution, IsTracker
<1>4. /\ IsSeq(t.waferPorts) /\ IsSeq(t.lotPorts)
      /\ IsSeq(t.lpHistory) /\ IsSeq(t.ctrlJobs) /\ IsSeq(t.chamberPorts)
  BY DEF IsTracker
<1>5. IsSeq(w) /\ DictPorts(w) \subseteq DictPorts(t.waferPorts) \cup {lp}
  BY <1>1, <1>4, BoundedPutIs, CapsAreNat
<1>6. IsSeq(l) /\ DictPorts(l) \subseteq DictPorts(t.lotPorts) \cup {lp}
  BY <1>1, <1>4, BoundedPutIs, CapsAreNat
<1>7. IsTracker(n)
  BY <1>3, <1>4, <1>5, <1>6 DEF IsTracker
<1>8. /\ n.lpHistory = t.lpHistory /\ n.ctrlJobs = t.ctrlJobs /\ n.waferPorts = w
      /\ n.lotPorts = l /\ n.chamberPorts = t.chamberPorts
  BY <1>3
<1>9. PortsKnown(n) \subseteq PortsKnown(t) \cup {lp}
  BY <1>5, <1>6, <1>8, KnownIs
<1>10. data.wafer = "" /\ data.lot = "" => n = t
  BY <1>1, <1>3 DEF IsTracker
<1> QED BY <1>2, <1>7, <1>8, <1>9, <1>10

\* The active port is one the tracker knows.
LEMMA ActiveIs ==
    ASSUME NEW t, IsTracker(t)
    PROVE  ActiveLp(t) \in PortsKnown(t) \cup {""}
<1>1. CASE Len(t.lpHistory) = 1
  <2>1. DOMAIN t.lpHistory = 1 .. 1
    BY <1>1, LenProperties DEF IsTracker, IsSeq
  <2>2. t.lpHistory[1] \in {t.lpHistory[i] : i \in DOMAIN t.lpHistory}
    BY <2>1
  <2>3. t.lpHistory[1] \in PortsKnown(t)
    BY <2>2, KnownIs
  <2> QED BY <1>1, <2>3 DEF ActiveLp
<1>2. CASE Len(t.lpHistory) # 1
  BY <1>2 DEF ActiveLp
<1> QED BY <1>1, <1>2

(* A job that starts is bound to the port it is reported from, or to the    *)
(* one active port.                                                         *)
LEMMA TransitionIs ==
    ASSUME NEW t, IsTracker(t), NEW tr, NEW lp, NEW job
    PROVE  /\ IsTracker(ApplyTransition(t, tr, lp, job))
           /\ PortsKnown(ApplyTransition(t, tr, lp, job))
                 \subseteq PortsKnown(t) \cup ({lp} \ {""})
           /\ Within(ApplyTransition(t, tr, lp, job).chamberPorts, t.chamberPorts)
           /\ tr = "lp_deactivate_from_payload" /\ lp # "" =>
                 PortsKnown(ApplyTransition(t, tr, lp, job)) \subseteq PortsKnown(t) \ {lp}
<1>1. PICK n, jobPort : /\ n = ApplyTransition(t, tr, lp, job)
                        /\ jobPort = IF lp # "" THEN lp ELSE ActiveLp(t)
  OBVIOUS
<1>2. Within(t.chamberPorts, t.chamberPorts)
  BY DEF Within
<1>3. CASE tr = "lp_activate_from_payload" /\ lp # ""
  <2>1. n = Activate(t, lp)
    BY <1>1, <1>3 DEF ApplyTransition
  <2>2. /\ IsTracker(n) /\ n.chamberPorts = t.chamberPorts
        /\ PortsKnown(n) \subseteq PortsKnown(t) \cup {lp}
    BY <2>1, ActivateIs
  <2>3. lp \in {lp} \ {""} /\ tr # "lp_deactivate_from_payload"
    BY <1>3
  <2> QED BY <1>1, <1>2, <2>2, <2>3
<1>4. CASE tr = "lp_deactivate_from_payload" /\ lp # ""
  <2>1. n = Deactivate(t, lp)
    BY <1>1, <1>4 DEF ApplyTransition
  <2> QED BY <1>1, <1>4, <2>1, DeactivateIs
<1>5. CASE tr = "ctrl_job_start" /\ job # "" /\ jobPort # ""
  <2>1. PICK j : j = BoundedPut(t.ctrlJobs, job, jobPort, MaxJobs)
    OBVIOUS
  <2>2. n = [t EXCEPT !.ctrlJobs = j]
    BY <1>1, <1>5, <2>1 DEF ApplyTransition
  <2>3. n = [lpHistory |-> t.lpHistory, ctrlJobs |-> j, waferPorts |-> t.waferPorts,
             lotPorts |-> t.lotPorts, chamberPorts |-> t.chamberPorts]
    BY <2>2 DEF IsTracker
  <2>4. IsSeq(j) /\ DictPorts(j) \subseteq DictPorts(t.ctrlJobs) \cup {jobPort}
    BY <2>1, BoundedPutIs, CapsAreNat DEF IsTracker
  <2>5. IsTracker(n)
    BY <2>3, <2>4 DEF IsTracker
  <2>6. jobPort \in PortsKnown(t) \cup ({lp} \ {""})
    BY <1>1, <1>5, ActiveIs
  <2>7. /\ n.lpHistory = t.lpHistory /\ n.ctrlJobs = j /\ n.waferPorts = t.waferPorts
        /\ n.lotPorts = t.lotPorts /\ n.chamberPorts = t.chamberPorts
    BY <2>3
  <2>8. PortsKnown(n) \subseteq PortsKnown(t) \cup ({lp} \ {""})
    BY <2>4, <2>6, <2>7, KnownIs
  <2> QED BY <1>1, <1>2, <1>5, <2>5, <2>7, <2>8
<1>6. CASE tr = "ctrl_job_end" /\ job # ""
  <2>1. PICK j : j = WithoutKey(t.ctrlJobs, job)
    OBVIOUS
  <2>2. n = [t EXCEPT !.ctrlJobs = j]
    BY <1>1, <1>6, <2>1 DEF ApplyTransition
  <2>3. n = [lpHistory |-> t.lpHistory, ctrlJobs |-> j, waferPorts |-> t.waferPorts,
             lotPorts |-> t.lotPorts, chamberPorts |-> t.chamberPorts]
    BY <2>2 DEF IsTracker
  <2>4. IsSeq(j) /\ DictPorts(j) \subseteq DictPorts(t.ctrlJobs)
    BY <2>1, WithoutKeyIs, WithinPorts DEF IsTracker
  <2>5. IsTracker(n)
    BY <2>3, <2>4 DEF IsTracker
  <2>7. /\ n.lpHistory = t.lpHistory /\ n.ctrlJobs = j /\ n.waferPorts = t.waferPorts
        /\ n.lotPorts = t.lotPorts /\ n.chamberPorts = t.chamberPorts
    BY <2>3
  <2>8. PortsKnown(n) \subseteq PortsKnown(t)
    BY <2>4, <2>7, KnownIs
  <2> QED BY <1>1, <1>2, <1>6, <2>5, <2>7, <2>8
<1>7. CASE /\ ~(tr = "lp_activate_from_payload" /\ lp # "")
           /\ ~(tr = "lp_deactivate_from_payload" /\ lp # "")
           /\ ~(tr = "ctrl_job_start" /\ job # "" /\ jobPort # "")
           /\ ~(tr = "ctrl_job_end" /\ job # "")
  <2>1. n = t
    BY <1>1, <1>7 DEF ApplyTransition
  <2> QED BY <1>1, <1>2, <1>7, <2>1
<1> QED BY <1>3, <1>4, <1>5, <1>6, <1>7

(* What the tracker learns of a chamber from a report that names it and a   *)
(* port, and from any other.                                                *)
Learns(n, t, ch, lp) ==
    \A i \in DOMAIN n.chamberPorts :
       \/ n.chamberPorts[i].key = ch /\ n.chamberPorts[i].port = lp
       \/ /\ n.chamberPorts[i].key # ch
          /\ \E j \in DOMAIN t.chamberPorts : n.chamberPorts[i] = t.chamberPorts[j]

\* note_chamber binds the chamber to the port.
LEMMA ChamberIs ==
    ASSUME NEW t, IsTracker(t), NEW ch, NEW lp
    PROVE  /\ IsTracker(NoteChamber(t, ch, lp))
           /\ PortsKnown(NoteChamber(t, ch, lp)) \subseteq PortsKnown(t) \cup {lp}
           /\ Learns(NoteChamber(t, ch, lp), t, ch, lp)
<1>1. PICK n, w, new, c :
        /\ n = NoteChamber(t, ch, lp) /\ w = WithoutKey(t.chamberPorts, ch)
        /\ new = [key |-> ch, port |-> lp] /\ c = Append(w, new)
  OBVIOUS
<1>2. n = [lpHistory |-> t.lpHistory, ctrlJobs |-> t.ctrlJobs, waferPorts |-> t.waferPorts,
           lotPorts |-> t.lotPorts, chamberPorts |-> c]
  BY <1>1 DEF NoteChamber, IsTracker
<1>3. /\ IsSeq(w) /\ Within(w, t.chamberPorts)
      /\ \A i \in DOMAIN w : w[i].key # ch
  BY <1>1, WithoutKeyIs DEF IsTracker
<1>4. IsSeq(c) /\ \A i \in DOMAIN c : c[i] = new \/ \E j \in DOMAIN w : c[i] = w[j]
  BY <1>1, <1>3, AppendIs, AppendOnly
<1>5. new.key = ch /\ new.port = lp
  BY <1>1
<1>6. \A i \in DOMAIN c :
         \/ c[i].key = ch /\ c[i].port = lp
         \/ c[i].key # ch /\ \E j \in DOMAIN t.chamberPorts : c[i] = t.chamberPorts[j]
  BY <1>3, <1>4, <1>5 DEF Within
<1>7. DictPorts(c) \subseteq DictPorts(t.chamberPorts) \cup {lp}
  BY <1>3, <1>4, <1>5 DEF DictPorts, Within
<1>8. IsTracker(n)
  BY <1>2, <1>4 DEF IsTracker
<1>9. /\ n.lpHistory = t.lpHistory /\ n.ctrlJobs = t.ctrlJobs /\ n.waferPorts = t.waferPorts
      /\ n.lotPorts = t.lotPorts /\ n.chamberPorts = c
  BY <1>2
<1>10. PortsKnown(n) \subseteq PortsKnown(t) \cup {lp}
  BY <1>7, <1>9, KnownIs
<1>11. Learns(n, t, ch, lp)
  BY <1>6, <1>9 DEF Learns
<1> QED BY <1>1, <1>8, <1>10, <1>11

\* note_event: the port it can add, the chamber it binds, the port it forgets.
LEMMA EventIs ==
    ASSUME NEW t, IsTracker(t), NEW tr, NEW ch, NEW data, NEW lp
    PROVE  /\ IsTracker(NoteEvent(t, tr, ch, data, lp))
           /\ PortsKnown(NoteEvent(t, tr, ch, data, lp))
                 \subseteq PortsKnown(t) \cup ({lp} \ {""})
           /\ IF lp # "" /\ ch # "NA" THEN Learns(NoteEvent(t, tr, ch, data, lp), t, ch, lp)
              ELSE Within(NoteEvent(t, tr, ch, data, lp).chamberPorts, t.chamberPorts)
           /\ /\ tr = "lp_deactivate_from_payload" /\ lp # "" /\ ch = "NA"
              /\ data.wafer = "" /\ data.lot = ""
              => PortsKnown(NoteEvent(t, tr, ch, data, lp)) \subseteq PortsKnown(t) \ {lp}
<1>1. PICK n, m, b : /\ n = NoteEvent(t, tr, ch, data, lp)
                     /\ m = ApplyTransition(t, tr, lp, data.job)
                     /\ b = NoteResolution(m, data, lp)
  OBVIOUS
<1>2. n = IF lp = "" THEN m ELSE IF ch = "NA" THEN b ELSE NoteChamber(b, ch, lp)
  BY <1>1 DEF NoteEvent
<1>3. /\ IsTracker(m) /\ PortsKnown(m) \subseteq PortsKnown(t) \cup ({lp} \ {""})
      /\ Within(m.chamberPorts, t.chamberPorts)
      /\ tr = "lp_deactivate_from_payload" /\ lp # "" => PortsKnown(m) \subseteq PortsKnown(t) \ {lp}
  BY <1>1, TransitionIs
<1>4. /\ IsTracker(b) /\ PortsKnown(b) \subseteq PortsKnown(m) \cup {lp}
      /\ b.chamberPorts = m.chamberPorts
      /\ data.wafer = "" /\ data.lot = "" => b = m
  BY <1>1, <1>3, ResolutionIs
<1>5. CASE lp = ""
  BY <1>1, <1>2, <1>3, <1>5
<1>6. CASE lp # "" /\ ch = "NA"
  BY <1>1, <1>2, <1>3, <1>4, <1>6
<1>7. CASE lp # "" /\ ch # "NA"
  <2>1. n = NoteChamber(b, ch, lp)
    BY <1>2, <1>7
  <2>2. IsTracker(n) /\ PortsKnown(n) \subseteq PortsKnown(b) \cup {lp}
    BY <1>4, <2>1, ChamberIs
  <2>3. Learns(n, b, ch, lp)
    BY <1>4, <2>1, ChamberIs
  <2>4. Learns(n, t, ch, lp)
    <3>1. \A j \in DOMAIN b.chamberPorts :
             \E l \in DOMAIN t.chamberPorts : b.chamberPorts[j] = t.chamberPorts[l]
      BY <1>3, <1>4 DEF Within
    <3> QED BY <2>3, <3>1 DEF Learns
  <2> QED BY <1>1, <1>3, <1>4, <1>7, <2>2, <2>4
<1> QED BY <1>5, <1>6, <1>7

\* A port that is looked up is one the tracker knows.
LEMMA LookupIs ==
    ASSUME NEW t, IsTracker(t), NEW data, NEW ch, data.port = ""
    PROVE  LookupLp(t, data, ch) \in PortsKnown(t) \cup {""}
<1>1. \A d, key : HasKey(d, key) => PortFor(d, key) \in DictPorts(d)
  BY DEF HasKey, PortFor, DictPorts
<1>2. ActiveLp(t) \in PortsKnown(t) \cup {""}
  BY ActiveIs
<1> QED BY <1>1, <1>2, KnownIs DEF LookupLp

About(k, ev)      == Profiles[k][ev.name]
States(k, ev)     == About(k, ev).namesPort \/ "port" \in About(k, ev).layout
Rowed(k, ev)      == About(k, ev).type \in CsvEventTypes
Named(k, ev)      == "lot" \in About(k, ev).layout
Unloads(k, ev)    == About(k, ev).transition = "lp_deactivate_from_payload"
Teaches(k, ev, m) == About(k, ev).namesModule /\ States(k, ev) /\ ev.pm = m

Kinds == {"mg", "davinci"}
Names(k) == DOMAIN Profiles[k]

MgNames == {"portCasPlaced", "portCasMapped", "cassetteMapped",
            "processRecipeSelected", "processingStartedPort",
            "pmWaferStarted", "pmStepStarted", "pmStepFinished",
            "pmWaferFinished", "portReadyToUnload", "ProcessingCompleted",
            "portCasRemoved"}

DavinciNames == {"MaterialReceived", "CarrierIDRead", "CarrierClamped",
                 "CtrlJobExecuting", "NeedsProcessing", "PmProcessingStarted",
                 "PmProcessingFinished", "InProcess2Processed",
                 "CtrlJobCompleted", "CarrierDeparted", "MaterialRemoved"}

\* The names of the two profiles.
LEMMA NamesAre ==
    /\ DOMAIN MgTypes = MgNames /\ DOMAIN DavinciTypes = DavinciNames
    /\ Names("mg") = MgNames /\ Names("davinci") = DavinciNames
<1>1. DOMAIN MgTypes = MgNames /\ DOMAIN DavinciTypes = DavinciNames
  BY DEF MgTypes, DavinciTypes, MgNames, DavinciNames
<1>2. /\ DOMAIN Profiles["mg"] = DOMAIN MgTypes
      /\ DOMAIN Profiles["davinci"] = DOMAIN DavinciTypes
  BY DEF Profiles
<1> QED BY <1>1, <1>2 DEF Names

(* What the profile of the MG says of an event, read off its tables.        *)
LEMMA MgAbout ==
    ASSUME NEW ev, ev.name \in MgNames
    PROVE  /\ About("mg", ev).type = MgTypes[ev.name]
           /\ About("mg", ev).layout = MgReport(ev.name)
           /\ About("mg", ev).namesPort <=> ev.name \in MgNamesPort
           /\ About("mg", ev).namesModule <=> ev.name \in MgNamesModule
           /\ About("mg", ev).chamberEvent <=> ev.name \in MgChamberEvents
           /\ About("mg", ev).transition = MgTransition(ev.name)
           /\ About("mg", ev).closes <=> MgTypes[ev.name] = "unloaded"
BY NamesAre DEF About, Profiles

\* What the DaVinci profile says of an event.
LEMMA DavinciAbout ==
    ASSUME NEW ev, ev.name \in DavinciNames
    PROVE  /\ About("davinci", ev).type = DavinciTypes[ev.name]
           /\ About("davinci", ev).layout = DavinciReport(ev.name)
           /\ About("davinci", ev).namesPort <=> ev.name \in DavinciNamesPort
           /\ ~About("davinci", ev).namesModule
           /\ About("davinci", ev).chamberEvent <=> ev.name \in DavinciChamberEvents
           /\ About("davinci", ev).transition = DavinciTransition(ev.name)
           /\ About("davinci", ev).closes <=> DavinciTypes[ev.name] = "unloaded"
BY NamesAre DEF About, Profiles

(* The tables, row by row.                                                  *)
LEMMA MgTable ==
    ASSUME NEW n \in MgNames
    PROVE  /\ MgTypes[n] \in CsvEventTypes <=> n \notin {"processRecipeSelected", "pmStepStarted", "pmStepFinished"}
           /\ n \in MgNamesPort \/ "port" \in MgReport(n) <=> n # "pmStepStarted"
           /\ "lot" \in MgReport(n) <=> n \in {"pmWaferStarted", "pmWaferFinished", "pmStepFinished", "ProcessingCompleted"}
           /\ "wafer" \in MgReport(n) => "lot" \in MgReport(n)
           /\ "job" \notin MgReport(n)
           /\ n \in MgChamberEvents <=> n = "pmStepStarted"
           /\ MgTransition(n) = "lp_deactivate_from_payload" <=> n = "portCasRemoved"
           /\ MgTypes[n] = "unloaded" <=> n = "portCasRemoved"
           /\ "port" \in MgReport("pmStepStarted") <=> FALSE
           /\ MgTransition("pmStepStarted") = ""
<1>1. CASE n = "portCasPlaced"
  BY <1>1 DEF MgTypes, MgReport, MgNamesPort, MgNamesModule, MgChamberEvents, MgTransition, CsvEventTypes
<1>2. CASE n = "portCasMapped"
  BY <1>2 DEF MgTypes, MgReport, MgNamesPort, MgNamesModule, MgChamberEvents, MgTransition, CsvEventTypes
<1>3. CASE n = "cassetteMapped"
  BY <1>3 DEF MgTypes, MgReport, MgNamesPort, MgNamesModule, MgChamberEvents, MgTransition, CsvEventTypes
<1>4. CASE n = "processRecipeSelected"
  BY <1>4 DEF MgTypes, MgReport, MgNamesPort, MgNamesModule, MgChamberEvents, MgTransition, CsvEventTypes
<1>5. CASE n = "processingStartedPort"
  BY <1>5 DEF MgTypes, MgReport, MgNamesPort, MgNamesModule, MgChamberEvents, MgTransition, CsvEventTypes
<1>6. CASE n = "pmWaferStarted"
  BY <1>6 DEF MgTypes, MgReport, MgNamesPort, MgNamesModule, MgChamberEvents, MgTransition, CsvEventTypes
<1>7. CASE n = "pmStepStarted"
  BY <1>7 DEF MgTypes, MgReport, MgNamesPort, MgNamesModule, MgChamberEvents, MgTransition, CsvEventTypes
<1>8. CASE n = "pmStepFinished"
  BY <1>8 DEF MgTypes, MgReport, MgNamesPort, MgNamesModule, MgChamberEvents, MgTransition, CsvEventTypes
<1>9. CASE n = "pmWaferFinished"
  BY <1>9 DEF MgTypes, MgReport, MgNamesPort, MgNamesModule, MgChamberEvents, MgTransition, CsvEventTypes
<1>10. CASE n = "portReadyToUnload"
  BY <1>10 DEF MgTypes, MgReport, MgNamesPort, MgNamesModule, MgChamberEvents, MgTransition, CsvEventTypes
<1>11. CASE n = "ProcessingCompleted"
  BY <1>11 DEF MgTypes, MgReport, MgNamesPort, MgNamesModule, MgChamberEvents, MgTransition, CsvEventTypes
<1>12. CASE n = "portCasRemoved"
  BY <1>12 DEF MgTypes, MgReport, MgNamesPort, MgNamesModule, MgChamberEvents, MgTransition, CsvEventTypes
<1> QED BY <1>1, <1>2, <1>3, <1>4, <1>5, <1>6, <1>7, <1>8, <1>9, <1>10, <1>11, <1>12 DEF MgNames

\* The lines of the DaVinci tables that the proofs need.
LEMMA DavinciTable ==
    ASSUME NEW n \in DavinciNames
    PROVE  /\ DavinciTypes[n] \in CsvEventTypes
           /\ "wafer" \in DavinciReport(n) => "lot" \in DavinciReport(n)
           /\ /\ DavinciTransition(n) = "lp_deactivate_from_payload"
              => /\ "lot" \notin DavinciReport(n)
                 /\ n \in DavinciNamesPort \/ "port" \in DavinciReport(n)
           /\ DavinciTypes[n] = "unloaded" => DavinciTransition(n) = "lp_deactivate_from_payload"
           /\ n \in {"CarrierDeparted", "MaterialRemoved"} => DavinciTransition(n) = "lp_deactivate_from_payload"
<1>1. CASE n \in {"MaterialReceived", "CarrierIDRead", "CarrierClamped"}
  BY <1>1 DEF DavinciTypes, DavinciReport, DavinciNamesPort, DavinciTransition, CsvEventTypes
<1>2. CASE n \in {"CtrlJobExecuting", "CtrlJobCompleted"}
  BY <1>2 DEF DavinciTypes, DavinciReport, DavinciNamesPort, DavinciTransition, CsvEventTypes
<1>3. CASE n \in {"NeedsProcessing", "PmProcessingStarted", "PmProcessingFinished", "InProcess2Processed"}
  BY <1>3 DEF DavinciTypes, DavinciReport, DavinciNamesPort, DavinciTransition, CsvEventTypes
<1>4. CASE n = "CarrierDeparted"
  BY <1>4 DEF DavinciTypes, DavinciReport, DavinciNamesPort, DavinciTransition, CsvEventTypes
<1>5. CASE n = "MaterialRemoved"
  BY <1>5 DEF DavinciTypes, DavinciReport, DavinciNamesPort, DavinciTransition, CsvEventTypes
<1> QED BY <1>1, <1>2, <1>3, <1>4, <1>5 DEF DavinciNames

IsEvent(k, ev) == ev.name \in Names(k) /\ ev.port # "" /\ ev.lot # ""

(* What both profiles have in common.                                       *)
LEMMA ProfileIs ==
    ASSUME NEW k \in Kinds, NEW ev, IsEvent(k, ev)
    PROVE  /\ "wafer" \in About(k, ev).layout => Named(k, ev)
           /\ Unloads(k, ev) => States(k, ev) /\ ~Named(k, ev) /\ ~About(k, ev).namesModule
           /\ About(k, ev).closes => Unloads(k, ev)
           /\ Teaches(k, ev, ev.pm) /\ Rowed(k, ev) => Named(k, ev)
           /\ k = "mg" /\ Rowed(k, ev) => States(k, ev)
           /\ Unloads(k, ev) => Rowed(k, ev)
<1>1. CASE k = "mg"
  <2>1. ev.name \in MgNames
    BY <1>1, NamesAre DEF IsEvent
  <2>2. ev.name \in MgNamesModule => ev.name \in {"pmWaferStarted", "pmStepStarted", "pmStepFinished", "pmWaferFinished"}
    BY DEF MgNamesModule
  <2>3. PICK a : a = About("mg", ev)
    OBVIOUS
  <2>4. /\ a.type = MgTypes[ev.name] /\ a.layout = MgReport(ev.name)
        /\ a.namesPort <=> ev.name \in MgNamesPort
        /\ a.namesModule <=> ev.name \in MgNamesModule
        /\ a.transition = MgTransition(ev.name)
        /\ a.closes <=> MgTypes[ev.name] = "unloaded"
    BY <2>1, <2>3, MgAbout
  <2>5. /\ MgTypes[ev.name] \in CsvEventTypes <=> ev.name \notin {"processRecipeSelected", "pmStepStarted", "pmStepFinished"}
        /\ ev.name \in MgNamesPort \/ "port" \in MgReport(ev.name) <=> ev.name # "pmStepStarted"
        /\ "lot" \in MgReport(ev.name) <=> ev.name \in {"pmWaferStarted", "pmWaferFinished", "pmStepFinished", "ProcessingCompleted"}
        /\ "wafer" \in MgReport(ev.name) => "lot" \in MgReport(ev.name)
        /\ MgTransition(ev.name) = "lp_deactivate_from_payload" <=> ev.name = "portCasRemoved"
        /\ MgTypes[ev.name] = "unloaded" <=> ev.name = "portCasRemoved"
    BY <2>1, MgTable
  <2>6. ev.name = "portCasRemoved" => ev.name \notin MgNamesModule
    BY <2>2
  <2>7. States("mg", ev) <=> ev.name # "pmStepStarted"
    BY <2>3, <2>4, <2>5 DEF States
  <2>8. Named("mg", ev) <=> ev.name \in {"pmWaferStarted", "pmWaferFinished", "pmStepFinished", "ProcessingCompleted"}
    BY <2>3, <2>4, <2>5 DEF Named
  <2>9. Unloads("mg", ev) <=> ev.name = "portCasRemoved"
    BY <2>3, <2>4, <2>5 DEF Unloads
  <2>10. Rowed("mg", ev) <=> ev.name \notin {"processRecipeSelected", "pmStepStarted", "pmStepFinished"}
    BY <2>3, <2>4, <2>5 DEF Rowed
  <2>11. Teaches("mg", ev, ev.pm) => ev.name \in MgNamesModule /\ ev.name # "pmStepStarted"
    BY <2>3, <2>4, <2>7 DEF Teaches
  <2>12. "wafer" \in a.layout => Named("mg", ev)
    BY <2>4, <2>5, <2>8
  <2>13. Unloads("mg", ev) => States("mg", ev) /\ ~Named("mg", ev) /\ ~a.namesModule
    BY <2>4, <2>6, <2>7, <2>8, <2>9
  <2>14. a.closes => Unloads("mg", ev)
    BY <2>4, <2>5, <2>9
  <2>15. Teaches("mg", ev, ev.pm) /\ Rowed("mg", ev) => Named("mg", ev)
    BY <2>2, <2>8, <2>11, <2>10
  <2>16. Rowed("mg", ev) => States("mg", ev)
    BY <2>7, <2>10
  <2>17. Unloads("mg", ev) => Rowed("mg", ev)
    BY <2>9, <2>10
  <2> QED BY <1>1, <2>3, <2>12, <2>13, <2>14, <2>15, <2>16, <2>17
<1>2. CASE k = "davinci"
  <2>1. ev.name \in DavinciNames
    BY <1>2, NamesAre DEF IsEvent
  <2>3. PICK a : a = About("davinci", ev)
    OBVIOUS
  <2>4. /\ a.type = DavinciTypes[ev.name] /\ a.layout = DavinciReport(ev.name)
        /\ a.namesPort <=> ev.name \in DavinciNamesPort
        /\ ~a.namesModule
        /\ a.transition = DavinciTransition(ev.name)
        /\ a.closes <=> DavinciTypes[ev.name] = "unloaded"
    BY <2>1, <2>3, DavinciAbout
  <2>5. /\ "wafer" \in DavinciReport(ev.name) => "lot" \in DavinciReport(ev.name)
        /\ /\ DavinciTransition(ev.name) = "lp_deactivate_from_payload"
           => /\ "lot" \notin DavinciReport(ev.name)
              /\ ev.name \in DavinciNamesPort \/ "port" \in DavinciReport(ev.name)
        /\ DavinciTypes[ev.name] = "unloaded" => DavinciTransition(ev.name) = "lp_deactivate_from_payload"
    BY <2>1, DavinciTable
  <2>6. "wafer" \in a.layout => Named("davinci", ev)
    BY <2>3, <2>4, <2>5 DEF Named
  <2>7. Unloads("davinci", ev) => States("davinci", ev) /\ ~Named("davinci", ev) /\ ~a.namesModule
    BY <2>3, <2>4, <2>5 DEF Unloads, States, Named
  <2>8. a.closes => Unloads("davinci", ev)
    BY <2>3, <2>4, <2>5 DEF Unloads
  <2>9. ~Teaches("davinci", ev, ev.pm)
    BY <2>3, <2>4 DEF Teaches
  <2>10. Rowed("davinci", ev)
    BY <2>1, <2>3, <2>4, DavinciTable DEF Rowed
  <2> QED BY <1>2, <2>3, <2>6, <2>7, <2>8, <2>9, <2>10
<1> QED BY <1>1, <1>2 DEF Kinds

(* The reports the tracker's proof needs by name.                           *)
LEMMA StepIs ==
    ASSUME NEW ev, IsEvent("mg", ev), ev.name = "pmStepStarted"
    PROVE  /\ ~States("mg", ev) /\ ~Rowed("mg", ev) /\ ~Named("mg", ev)
           /\ About("mg", ev).namesModule /\ About("mg", ev).transition = ""
           /\ "job" \notin About("mg", ev).layout
<1>1. ev.name \in MgNames
  BY NamesAre DEF IsEvent
<1>2. PICK a : a = About("mg", ev)
  OBVIOUS
<1>3. /\ a.type = MgTypes["pmStepStarted"] /\ a.layout = MgReport("pmStepStarted")
      /\ a.namesPort <=> "pmStepStarted" \in MgNamesPort
      /\ a.namesModule <=> "pmStepStarted" \in MgNamesModule
      /\ a.transition = MgTransition("pmStepStarted")
  BY <1>1, <1>2, MgAbout
<1>4. MgReport("pmStepStarted") = {} /\ "pmStepStarted" \notin MgNamesPort /\ "pmStepStarted" \in MgNamesModule
  BY DEF MgReport, MgNamesPort, MgNamesModule
<1>5. MgTypes["pmStepStarted"] \notin CsvEventTypes /\ MgTransition("pmStepStarted") = ""
  BY DEF MgTypes, CsvEventTypes, MgTransition
<1> QED BY <1>2, <1>3, <1>4, <1>5 DEF States, Rowed, Named

\* A wafer start states its port and its module, and names its lot.
LEMMA WaferStartIs ==
    ASSUME NEW ev, IsEvent("mg", ev), ev.name = "pmWaferStarted"
    PROVE  /\ Teaches("mg", ev, ev.pm) /\ Rowed("mg", ev) /\ Named("mg", ev)
           /\ ~About("mg", ev).closes
<1>1. ev.name \in MgNames
  BY NamesAre DEF IsEvent
<1>2. PICK a : a = About("mg", ev)
  OBVIOUS
<1>3. /\ a.type = MgTypes["pmWaferStarted"] /\ a.layout = MgReport("pmWaferStarted")
      /\ a.namesModule <=> "pmWaferStarted" \in MgNamesModule
      /\ a.closes <=> MgTypes["pmWaferStarted"] = "unloaded"
  BY <1>1, <1>2, MgAbout
<1>4. MgReport("pmWaferStarted") = {"wafer", "lot", "port"} /\ "pmWaferStarted" \in MgNamesModule
  BY DEF MgReport, MgNamesModule
<1>5. MgTypes["pmWaferStarted"] \in CsvEventTypes /\ MgTypes["pmWaferStarted"] # "unloaded"
  BY DEF MgTypes, CsvEventTypes
<1> QED BY <1>2, <1>3, <1>4, <1>5 DEF States, Rowed, Named, Teaches

(* The only event of a chamber that states no port is a step's start.       *)
LEMMA ChamberEventIs ==
    ASSUME NEW ev, IsEvent("mg", ev), About("mg", ev).chamberEvent
    PROVE  ev.name = "pmStepStarted"
<1>1. ev.name \in MgNames
  BY NamesAre DEF IsEvent
<1>2. ev.name \in MgChamberEvents
  BY <1>1, MgAbout
<1> QED BY <1>1, <1>2, MgTable

\* The last event of each script unloads the carrier.
LEMMA LastUnloads ==
    /\ \A ev : IsEvent("mg", ev) /\ ev.name = "portCasRemoved" => Unloads("mg", ev)
    /\ \A ev : IsEvent("davinci", ev) /\ ev.name = "MaterialRemoved" => Unloads("davinci", ev)
<1>1. ASSUME NEW ev, IsEvent("mg", ev), ev.name = "portCasRemoved" PROVE Unloads("mg", ev)
  BY <1>1, NamesAre, MgAbout, MgTable DEF Unloads, IsEvent
<1>2. ASSUME NEW ev, IsEvent("davinci", ev), ev.name = "MaterialRemoved" PROVE Unloads("davinci", ev)
  BY <1>2, NamesAre, DavinciAbout, DavinciTable DEF Unloads, IsEvent
<1> QED BY <1>1, <1>2

\* The port of a report, if it has one.
LEMMA StatedIs ==
    ASSUME NEW k, NEW ev, IsEvent(k, ev)
    PROVE  StatedPort(About(k, ev), Decode(About(k, ev), ev), ev)
              = IF States(k, ev) THEN ev.port ELSE ""
<1>1. Decode(About(k, ev), ev).port = IF "port" \in About(k, ev).layout THEN ev.port ELSE ""
  BY DEF Decode
<1> QED BY <1>1 DEF StatedPort, States, IsEvent

(* What the tracker is after an event, before the event is attributed.      *)
LEMMA NotedIs ==
    ASSUME NEW k \in Kinds, NEW t, IsTracker(t), NEW ev, IsEvent(k, ev)
    PROVE  LET n == Noted(About(k, ev), t, ev) IN
           /\ IsTracker(n)
           /\ PortsKnown(n) \subseteq PortsKnown(t) \cup (IF States(k, ev) THEN {ev.port} ELSE {})
           /\ Unloads(k, ev) => PortsKnown(n) \subseteq PortsKnown(t) \ {ev.port}
           /\ IF States(k, ev) /\ About(k, ev).namesModule /\ ev.pm # "NA"
              THEN Learns(n, t, ev.pm, ev.port)
              ELSE Within(n.chamberPorts, t.chamberPorts)
<1>1. PICK n, data, lp, ch, tr :
        /\ n = Noted(About(k, ev), t, ev) /\ data = Decode(About(k, ev), ev)
        /\ lp = StatedPort(About(k, ev), data, ev)
        /\ ch = StatedChamber(About(k, ev), ev) /\ tr = About(k, ev).transition
  OBVIOUS
<1>2. n = NoteEvent(t, tr, ch, data, lp)
  BY <1>1 DEF Noted
<1>3. lp = IF States(k, ev) THEN ev.port ELSE ""
  BY <1>1, StatedIs
<1>4. /\ IsTracker(n) /\ PortsKnown(n) \subseteq PortsKnown(t) \cup ({lp} \ {""})
      /\ IF lp # "" /\ ch # "NA" THEN Learns(n, t, ch, lp)
         ELSE Within(n.chamberPorts, t.chamberPorts)
      /\ /\ tr = "lp_deactivate_from_payload" /\ lp # "" /\ ch = "NA"
         /\ data.wafer = "" /\ data.lot = ""
         => PortsKnown(n) \subseteq PortsKnown(t) \ {lp}
  BY <1>2, EventIs
<1>5. ev.port # ""
  BY DEF IsEvent
<1>6. ch = IF About(k, ev).namesModule THEN ev.pm ELSE "NA"
  BY <1>1 DEF StatedChamber
<1>7. {lp} \ {""} = IF States(k, ev) THEN {ev.port} ELSE {}
  BY <1>3, <1>5
<1>8. ASSUME Unloads(k, ev) PROVE PortsKnown(n) \subseteq PortsKnown(t) \ {ev.port}
  <2>1. States(k, ev) /\ ~Named(k, ev) /\ ~About(k, ev).namesModule /\ "wafer" \notin About(k, ev).layout
    BY <1>8, ProfileIs
  <2>2. data.wafer = "" /\ data.lot = ""
    BY <1>1, <2>1 DEF Decode, Named
  <2>3. ch = "NA" /\ lp = ev.port /\ tr = "lp_deactivate_from_payload"
    BY <1>1, <1>3, <1>6, <1>8, <2>1 DEF Unloads
  <2> QED BY <1>4, <1>5, <2>2, <2>3
<1>9. IF States(k, ev) /\ About(k, ev).namesModule /\ ev.pm # "NA"
      THEN Learns(n, t, ev.pm, ev.port)
      ELSE Within(n.chamberPorts, t.chamberPorts)
  BY <1>3, <1>4, <1>5, <1>6
<1> QED BY <1>1, <1>4, <1>7, <1>8, <1>9

(* What the mapper makes of an event.                                       *)
TracksPorts(k, ev, n, t) ==
    /\ IsTracker(n)
    /\ PortsKnown(n) \subseteq PortsKnown(t) \cup (IF States(k, ev) THEN {ev.port} ELSE {})
    /\ Unloads(k, ev) => PortsKnown(n) \subseteq PortsKnown(t) \ {ev.port}

TracksChambers(k, ev, n, t) ==
    IF States(k, ev) /\ About(k, ev).namesModule /\ ev.pm # "NA"
    THEN Learns(n, t, ev.pm, ev.port)
    ELSE Within(n.chamberPorts, t.chamberPorts)

RowOf(k, ev, row, t) ==
    /\ row.type = About(k, ev).type /\ (row.closes <=> About(k, ev).closes) /\ row.of = ev
    /\ row.lot = IF Named(k, ev) THEN ev.lot ELSE ""
    /\ IF States(k, ev) THEN row.port = ev.port ELSE row.port \in PortsKnown(t) \cup {""}
    /\ k = "mg" /\ ~States(k, ev) /\ row.port # "" =>
          ev.pm = "NA" \/ \E x \in DOMAIN t.chamberPorts :
                             t.chamberPorts[x].key = ev.pm /\ t.chamberPorts[x].port = row.port

\* What the mapper does to the tracker, and the row it makes.
LEMMA MappedIs ==
    ASSUME NEW k \in Kinds, NEW t, IsTracker(t), NEW ev, IsEvent(k, ev)
    PROVE  /\ TracksPorts(k, ev, Mapped(k, t, ev).tracker, t)
           /\ TracksChambers(k, ev, Mapped(k, t, ev).tracker, t)
           /\ RowOf(k, ev, Mapped(k, t, ev).row, t)
<1>1. PICK a, data, n, lp, port :
        /\ a = About(k, ev) /\ data = Decode(a, ev) /\ n = Noted(a, t, ev)
        /\ lp = StatedPort(a, data, ev) /\ port = AttributedPort(a, t, ev)
  OBVIOUS
<1>2. /\ IsTracker(n)
      /\ PortsKnown(n) \subseteq PortsKnown(t) \cup (IF States(k, ev) THEN {ev.port} ELSE {})
      /\ Unloads(k, ev) => PortsKnown(n) \subseteq PortsKnown(t) \ {ev.port}
      /\ IF States(k, ev) /\ a.namesModule /\ ev.pm # "NA"
         THEN Learns(n, t, ev.pm, ev.port)
         ELSE Within(n.chamberPorts, t.chamberPorts)
  BY <1>1, NotedIs
<1>3. lp = IF States(k, ev) THEN ev.port ELSE ""
  BY <1>1, StatedIs
<1>4. port = IF lp # "" \/ ~a.chamberEvent THEN lp
             ELSE LookupLp(n, data, StatedChamber(a, ev))
  BY <1>1 DEF AttributedPort
<1>5. /\ Mapped(k, t, ev).tracker = IF port = "" THEN n ELSE NoteResolution(n, data, port)
      /\ Mapped(k, t, ev).row = [type |-> a.type, port |-> port, lot |-> data.lot,
                                 closes |-> a.closes, of |-> ev]
  BY <1>1 DEF Mapped, About
<1>6. ev.port # "" /\ ev.lot # ""
  BY DEF IsEvent
<1>7. /\ data.port = (IF "port" \in a.layout THEN ev.port ELSE "")
      /\ data.lot = (IF "lot" \in a.layout THEN ev.lot ELSE "")
      /\ "wafer" \notin a.layout => data.wafer = ""
      /\ "job" \notin a.layout => data.job = ""
  BY <1>1 DEF Decode
<1>8. IF States(k, ev) THEN port = ev.port ELSE port \in PortsKnown(t) \cup {""}
  <2>1. CASE States(k, ev)
    BY <2>1, <1>3, <1>4, <1>6
  <2>2. CASE ~States(k, ev)
    <3>1. lp = "" /\ data.port = "" /\ PortsKnown(n) \subseteq PortsKnown(t)
      BY <2>2, <1>1, <1>2, <1>3, <1>7 DEF States
    <3>2. LookupLp(n, data, StatedChamber(a, ev)) \in PortsKnown(n) \cup {""}
      BY <1>2, <3>1, LookupIs
    <3> QED BY <2>2, <1>4, <3>1, <3>2
  <2> QED BY <2>1, <2>2
<1>9. PICK m : m = Mapped(k, t, ev).tracker
  OBVIOUS
<1>10. TracksPorts(k, ev, m, t) /\ TracksChambers(k, ev, m, t)
  <2>1. CASE port = ""
    BY <2>1, <1>1, <1>2, <1>5, <1>9 DEF TracksPorts, TracksChambers
  <2>2. CASE port # ""
    <3>1. m = NoteResolution(n, data, port)
      BY <2>2, <1>5, <1>9
    <3>2. /\ IsTracker(m) /\ PortsKnown(m) \subseteq PortsKnown(n) \cup {port}
          /\ m.chamberPorts = n.chamberPorts
          /\ data.wafer = "" /\ data.lot = "" => m = n
      BY <1>2, <3>1, ResolutionIs
    <3>3. PortsKnown(m) \subseteq PortsKnown(t) \cup (IF States(k, ev) THEN {ev.port} ELSE {})
      BY <2>2, <1>2, <1>8, <3>2
    <3>4. ASSUME Unloads(k, ev) PROVE m = n
      <4>1. ~Named(k, ev) /\ "wafer" \notin a.layout
        BY <1>1, <3>4, ProfileIs
      <4> QED BY <1>1, <1>7, <3>2, <4>1 DEF Named
    <3>5. TracksPorts(k, ev, m, t)
      BY <1>2, <3>2, <3>3, <3>4 DEF TracksPorts
    <3>6. TracksChambers(k, ev, m, t)
      <4>1. \A lp1, ch1 : Learns(n, t, ch1, lp1) => Learns(m, t, ch1, lp1)
        BY <3>2 DEF Learns
      <4>2. IF States(k, ev) /\ About(k, ev).namesModule /\ ev.pm # "NA"
            THEN Learns(n, t, ev.pm, ev.port)
            ELSE Within(n.chamberPorts, t.chamberPorts)
        BY <1>1, <1>2
      <4>3. CASE States(k, ev) /\ About(k, ev).namesModule /\ ev.pm # "NA"
        BY <4>1, <4>2, <4>3 DEF TracksChambers
      <4>4. CASE ~(States(k, ev) /\ About(k, ev).namesModule /\ ev.pm # "NA")
        BY <3>2, <4>2, <4>4 DEF TracksChambers
      <4> QED BY <4>3, <4>4
    <3> QED BY <3>5, <3>6
  <2> QED BY <2>1, <2>2
<1>11. PICK row : row = Mapped(k, t, ev).row
  OBVIOUS
<1>12. /\ row.type = a.type /\ row.port = port /\ row.lot = data.lot
       /\ row.closes = a.closes /\ row.of = ev
  <2>1. row = [type |-> a.type, port |-> port, lot |-> data.lot,
               closes |-> a.closes, of |-> ev]
    BY <1>5, <1>11
  <2> QED BY <2>1
<1>13. ASSUME k = "mg", ~States(k, ev), port # "", ev.pm # "NA"
       PROVE  \E x \in DOMAIN t.chamberPorts :
                 t.chamberPorts[x].key = ev.pm /\ t.chamberPorts[x].port = port
  <2>1. lp = "" /\ a.chamberEvent
    BY <1>3, <1>4, <1>13
  <2>2. ev.name = "pmStepStarted"
    BY <1>1, <1>13, <2>1, ChamberEventIs
  <2>3. ~Named("mg", ev) /\ a.namesModule /\ "job" \notin a.layout /\ "wafer" \notin a.layout
    BY <1>1, <1>13, <2>2, StepIs, ProfileIs
  <2>4. data.port = "" /\ data.job = "" /\ data.wafer = "" /\ data.lot = ""
    BY <1>1, <1>7, <1>13, <2>3 DEF Named, States
  <2>5. StatedChamber(a, ev) = ev.pm
    BY <2>3 DEF StatedChamber
  <2>6. port = LookupLp(n, data, ev.pm)
    BY <1>4, <2>1, <2>5
  <2>7. HasKey(n.chamberPorts, ev.pm) /\ port = PortFor(n.chamberPorts, ev.pm)
    BY <1>13, <2>4, <2>6 DEF LookupLp
  <2>8. PICK x \in DOMAIN n.chamberPorts : n.chamberPorts[x].key = ev.pm /\ n.chamberPorts[x].port = port
    BY <2>7 DEF HasKey, PortFor
  <2>9. Within(n.chamberPorts, t.chamberPorts)
    BY <1>2, <1>13
  <2> QED BY <2>8, <2>9 DEF Within
<1>14. RowOf(k, ev, row, t)
  <2>1. row.lot = IF Named(k, ev) THEN ev.lot ELSE ""
    BY <1>1, <1>7, <1>12 DEF Named
  <2> QED BY <1>1, <1>8, <1>12, <1>13, <2>1 DEF RowOf
<1> QED BY <1>9, <1>10, <1>11, <1>14

(***************************************************************************)
(* The writer.  A row that is appended finds the buffer (old) and the      *)
(* pre-lot rows (pre) of its key, and leaves b and q and the file f.       *)
(***************************************************************************)
Stay(old, pre, fl, row, key, b, q, f) ==
    /\ row.type \notin CsvEventTypes
    /\ b = old /\ q = pre /\ f = fl

Wait(old, pre, fl, row, key, b, q, f) ==
    /\ row.type \in CsvEventTypes /\ row.lot = "" /\ old.rows = <<>>
    /\ b = old /\ q = Append(pre, CsvRow(row)) /\ f = fl

Added(old, pre, row) ==
    [lot  |-> IF old.lot # "" THEN old.lot ELSE row.lot,
     rows |-> Append(IF old.rows # <<>> THEN old.rows ELSE pre,
                     CsvRow(row))]

Grow(old, pre, fl, row, key, b, q, f) ==
    /\ row.type \in CsvEventTypes /\ (row.lot # "" \/ old.rows # <<>>)
    /\ ~row.closes
    /\ old.lot = "" \/ row.lot \in {"", old.lot}
    /\ b = Added(old, pre, row) /\ q = <<>> /\ f = fl

Swap(old, pre, fl, row, key, b, q, f) ==
    /\ row.type \in CsvEventTypes
    /\ ~row.closes /\ old.lot # "" /\ row.lot \notin {"", old.lot}
    /\ b = Added(NoBuffer, pre, row) /\ q = <<>>
    /\ f = [key |-> key, lot |-> old.lot, rows |-> old.rows, why |-> "lot_changed"]

Close(old, pre, fl, row, key, b, q, f) ==
    /\ row.type \in CsvEventTypes /\ old.rows # <<>>
    /\ row.closes /\ row.lot = ""
    /\ b = NoBuffer /\ q = <<>>
    /\ f = [key |-> key, lot |-> Added(old, pre, row).lot,
            rows |-> Added(old, pre, row).rows, why |-> "carrier_unloaded"]

Appended(old, pre, fl, row, key, b, q, f) ==
    \/ Stay(old, pre, fl, row, key, b, q, f)
    \/ Wait(old, pre, fl, row, key, b, q, f)
    \/ Grow(old, pre, fl, row, key, b, q, f)
    \/ Swap(old, pre, fl, row, key, b, q, f)
    \/ Close(old, pre, fl, row, key, b, q, f)

IsWriter(w) ==
    /\ w = [buffers |-> w.buffers, preLot |-> w.preLot, file |-> w.file]
    /\ w.buffers = [k \in Keys |-> w.buffers[k]]
    /\ \A k \in Keys : w.buffers[k] = [lot |-> w.buffers[k].lot, rows |-> w.buffers[k].rows]
    /\ w.preLot = [k \in Keys |-> w.preLot[k]]

KeyOf(row) == IF row.port = "" THEN "NA" ELSE row.port

\* The writer after key's buffer became b and its pre-lot rows q.
Put(w, key, b, q, f) ==
    [buffers |-> [w.buffers EXCEPT ![key] = b],
     preLot  |-> [w.preLot EXCEPT ![key] = q],
     file    |-> f]

\* Put changes one key and the file.
LEMMA PutIs ==
    ASSUME NEW w, IsWriter(w), NEW key \in Keys, NEW b, NEW q, NEW f
    PROVE  /\ Put(w, key, b, q, f).buffers[key] = b
           /\ Put(w, key, b, q, f).preLot[key] = q
           /\ Put(w, key, b, q, f).file = f
           /\ \A k \in Keys \ {key} :
                 /\ Put(w, key, b, q, f).buffers[k] = w.buffers[k]
                 /\ Put(w, key, b, q, f).preLot[k] = w.preLot[k]
BY DEF Put, IsWriter

\* Putting back what is there changes nothing.
LEMMA PutSame ==
    ASSUME NEW w, IsWriter(w), NEW key \in Keys
    PROVE  Put(w, key, w.buffers[key], w.preLot[key], w.file) = w
BY DEF Put, IsWriter

\* AddRow in terms of Put.
LEMMA AddRowIs ==
    ASSUME NEW w, IsWriter(w), NEW key \in Keys, NEW row
    PROVE  AddRow(w, key, row)
              = Put(w, key, Added(w.buffers[key], w.preLot[key], row), <<>>, w.file)
<1>1. PICK kept, lot :
        /\ kept = (IF HasBuffer(w, key) THEN w.buffers[key].rows ELSE w.preLot[key])
        /\ lot = (IF w.buffers[key].lot # "" THEN w.buffers[key].lot ELSE row.lot)
  OBVIOUS
<1>2. AddRow(w, key, row) = Put(w, key, [lot |-> lot, rows |-> Append(kept, CsvRow(row))], <<>>, w.file)
  BY <1>1 DEF AddRow, Put
<1>3. [lot |-> lot, rows |-> Append(kept, CsvRow(row))] = Added(w.buffers[key], w.preLot[key], row)
  BY <1>1 DEF Added, HasBuffer
<1> QED BY <1>2, <1>3

\* Write in terms of Put.
LEMMA WriteIs ==
    ASSUME NEW w, IsWriter(w), NEW key \in Keys, NEW why
    PROVE  Write(w, key, why)
              = Put(w, key, NoBuffer, w.preLot[key],
                    [key |-> key, lot |-> w.buffers[key].lot,
                     rows |-> w.buffers[key].rows, why |-> why])
BY DEF Write, IsWriter, Put

\* Put keeps the writer a writer.
LEMMA PutWriter ==
    ASSUME NEW w, IsWriter(w), NEW key \in Keys, NEW b, NEW q, NEW f,
           b = [lot |-> b.lot, rows |-> b.rows]
    PROVE  IsWriter(Put(w, key, b, q, f))
<1>1. PICK v : v = Put(w, key, b, q, f)
  OBVIOUS
<1>2. /\ v.buffers = [w.buffers EXCEPT ![key] = b]
      /\ v.preLot = [w.preLot EXCEPT ![key] = q] /\ v.file = f
      /\ v = [buffers |-> v.buffers, preLot |-> v.preLot, file |-> v.file]
  BY <1>1 DEF Put
<1>3. v.buffers = [k \in Keys |-> v.buffers[k]] /\ v.preLot = [k \in Keys |-> v.preLot[k]]
  BY <1>2 DEF IsWriter
<1>4. \A k \in Keys : v.buffers[k] = [lot |-> v.buffers[k].lot, rows |-> v.buffers[k].rows]
  <2> TAKE k \in Keys
  <2>1. CASE k = key
    BY <2>1, <1>2 DEF IsWriter
  <2>2. CASE k # key
    <3>1. v.buffers[k] = w.buffers[k]
      BY <2>2, <1>2 DEF IsWriter
    <3> QED BY <3>1 DEF IsWriter
  <2> QED BY <2>1, <2>2
<1>5. IsWriter(v)
  BY <1>2, <1>3, <1>4 DEF IsWriter
<1> QED BY <1>1, <1>5

\* The later of two Puts counts.
LEMMA PutTwice ==
    ASSUME NEW w, IsWriter(w), NEW key \in Keys, NEW b, NEW q, NEW f,
           NEW b2, NEW q2, NEW f2
    PROVE  Put(Put(w, key, b, q, f), key, b2, q2, f2) = Put(w, key, b2, q2, f2)
<1>1. PICK v : v = Put(w, key, b, q, f)
  OBVIOUS
<1>2. v.buffers = [w.buffers EXCEPT ![key] = b] /\ v.preLot = [w.preLot EXCEPT ![key] = q]
  BY <1>1 DEF Put
<1>6. Put(v, key, b2, q2, f2) = Put(w, key, b2, q2, f2)
  <2>1. [v.buffers EXCEPT ![key] = b2] = [w.buffers EXCEPT ![key] = b2]
    BY <1>2 DEF IsWriter
  <2>2. [v.preLot EXCEPT ![key] = q2] = [w.preLot EXCEPT ![key] = q2]
    BY <1>2 DEF IsWriter
  <2> QED BY <2>1, <2>2 DEF Put
<1> QED BY <1>1, <1>6

\* The report of a removal names no lot.
ClosesUnnamed(row) == row.closes => row.lot = ""

\* The five outcomes of _append_locked.
LEMMA AppendRowIs ==
    ASSUME NEW w, IsWriter(w), NEW row, KeyOf(row) \in Keys, ClosesUnnamed(row)
    PROVE  \E b, q, f :
              /\ AppendRow(w, row) = Put(w, KeyOf(row), b, q, f)
              /\ Appended(w.buffers[KeyOf(row)], w.preLot[KeyOf(row)], w.file,
                          row, KeyOf(row), b, q, f)
<1>1. PICK key, old, pre :
        key = KeyOf(row) /\ old = w.buffers[key] /\ pre = w.preLot[key]
  OBVIOUS
<1>2. key \in Keys /\ old = [lot |-> old.lot, rows |-> old.rows]
  BY <1>1 DEF IsWriter
<1>0. key \in Keys
  BY <1>2
<1>3. PICK changed : changed \in BOOLEAN /\ (changed <=> old.lot # "" /\ row.lot # "" /\ old.lot # row.lot)
  OBVIOUS
<1>4. PICK v : v = IF changed THEN Write(w, key, "lot_changed") ELSE w
  OBVIOUS
<1>5. AppendRow(w, row) =
        CASE row.type \notin CsvEventTypes -> w
          [] row.type \in CsvEventTypes /\ row.lot = "" /\ ~HasBuffer(w, key) ->
               AddPreLot(w, key, row)
          [] OTHER -> IF row.closes THEN Write(AddRow(v, key, row), key, "carrier_unloaded")
                      ELSE AddRow(v, key, row)
  BY <1>1, <1>3, <1>4 DEF AppendRow, KeyOf
<1>6. HasBuffer(w, key) <=> old.rows # <<>>
  BY <1>1 DEF HasBuffer
<1> SUFFICES \E b, q, f : /\ AppendRow(w, row) = Put(w, key, b, q, f)
                          /\ Appended(old, pre, w.file, row, key, b, q, f)
  BY <1>1
<1>7. CASE row.type \notin CsvEventTypes
  <2>1. AppendRow(w, row) = w
    BY <1>5, <1>7
  <2>2. w = Put(w, key, old, pre, w.file)
    BY <1>1, <1>2, PutSame
  <2>3. Stay(old, pre, w.file, row, key, old, pre, w.file)
    BY <1>7 DEF Stay
  <2> QED BY <2>1, <2>2, <2>3 DEF Appended
<1>8. CASE row.type \in CsvEventTypes /\ row.lot = "" /\ old.rows = <<>>
  <2>1. AppendRow(w, row) = AddPreLot(w, key, row)
    BY <1>5, <1>6, <1>8
  <2>2. AddPreLot(w, key, row) = Put(w, key, old, Append(pre, CsvRow(row)), w.file)
    <3>1. [w.buffers EXCEPT ![key] = old] = w.buffers
      BY <1>1, <1>2 DEF IsWriter
    <3> QED BY <1>1, <3>1 DEF AddPreLot, Put
  <2>3. Wait(old, pre, w.file, row, key, old, Append(pre, CsvRow(row)), w.file)
    BY <1>1, <1>8 DEF Wait
  <2> QED BY <2>1, <2>2, <2>3 DEF Appended
<1>9. CASE row.type \in CsvEventTypes /\ (row.lot # "" \/ old.rows # <<>>)
  <2>1. AppendRow(w, row) = IF row.closes THEN Write(AddRow(v, key, row), key, "carrier_unloaded")
                            ELSE AddRow(v, key, row)
    BY <1>5, <1>6, <1>9
  <2>2. CASE changed
    <3>1. PICK f : f = [key |-> key, lot |-> old.lot, rows |-> old.rows, why |-> "lot_changed"]
      OBVIOUS
    <3>2. v = Put(w, key, NoBuffer, pre, f)
      BY <1>1, <1>2, <1>4, <2>2, <3>1, WriteIs
    <3>3. NoBuffer = [lot |-> NoBuffer.lot, rows |-> NoBuffer.rows]
      BY DEF NoBuffer
    <3>4. IsWriter(v) /\ v.buffers[key] = NoBuffer /\ v.preLot[key] = pre /\ v.file = f
      <4>1. IsWriter(v)
        BY <1>2, <3>2, <3>3, PutWriter
      <4>2. /\ Put(w, key, NoBuffer, pre, f).buffers[key] = NoBuffer
            /\ Put(w, key, NoBuffer, pre, f).preLot[key] = pre
            /\ Put(w, key, NoBuffer, pre, f).file = f
        BY <1>0, PutIs
      <4> QED BY <3>2, <4>1, <4>2
    <3>5. AddRow(v, key, row) = Put(v, key, Added(NoBuffer, pre, row), <<>>, f)
      BY <1>2, <3>4, AddRowIs
    <3>6. Put(v, key, Added(NoBuffer, pre, row), <<>>, f)
            = Put(w, key, Added(NoBuffer, pre, row), <<>>, f)
      BY <1>0, <3>2, PutTwice
    <3>7. ~row.closes
      BY <1>3, <2>2 DEF ClosesUnnamed
    <3>8. Swap(old, pre, w.file, row, key, Added(NoBuffer, pre, row), <<>>, f)
      BY <1>3, <1>9, <2>2, <3>1, <3>7 DEF Swap
    <3> QED BY <2>1, <3>5, <3>6, <3>7, <3>8 DEF Appended
  <2>3. CASE ~changed
    <3>1. v = w
      BY <1>4, <2>3
    <3>2. PICK b : b = Added(old, pre, row)
      OBVIOUS
    <3>3. AddRow(v, key, row) = Put(w, key, b, <<>>, w.file)
      BY <1>1, <1>2, <3>1, <3>2, AddRowIs
    <3>4. old.lot = "" \/ row.lot \in {"", old.lot}
      BY <1>3, <2>3
    <3>5. CASE ~row.closes
      <4>1. Grow(old, pre, w.file, row, key, b, <<>>, w.file)
        BY <1>9, <3>2, <3>4, <3>5 DEF Grow
      <4> QED BY <2>1, <3>3, <3>5, <4>1 DEF Appended
    <3>6. CASE row.closes
      <4>1. b = [lot |-> b.lot, rows |-> b.rows]
        BY <3>2 DEF Added
      <4>2. PICK u : u = Put(w, key, b, <<>>, w.file)
        OBVIOUS
      <4>3. IsWriter(u) /\ u.buffers[key] = b /\ u.preLot[key] = <<>>
        <5>1. IsWriter(u)
          BY <1>2, <4>1, <4>2, PutWriter
        <5>2. /\ Put(w, key, b, <<>>, w.file).buffers[key] = b
              /\ Put(w, key, b, <<>>, w.file).preLot[key] = <<>>
          BY <1>0, PutIs
        <5> QED BY <4>2, <5>1, <5>2
      <4>4. PICK f : f = [key |-> key, lot |-> b.lot, rows |-> b.rows, why |-> "carrier_unloaded"]
        OBVIOUS
      <4>5. Write(u, key, "carrier_unloaded") = Put(u, key, NoBuffer, <<>>, f)
        BY <1>2, <4>3, <4>4, WriteIs
      <4>6. Put(u, key, NoBuffer, <<>>, f) = Put(w, key, NoBuffer, <<>>, f)
        BY <1>0, <4>2, PutTwice
      <4>7. AppendRow(w, row) = Put(w, key, NoBuffer, <<>>, f)
        BY <2>1, <3>3, <3>6, <4>2, <4>5, <4>6
      <4>8. Close(old, pre, w.file, row, key, NoBuffer, <<>>, f)
        BY <1>9, <3>2, <3>6, <4>4 DEF Close, ClosesUnnamed
      <4> QED BY <4>7, <4>8 DEF Appended
    <3> QED BY <3>5, <3>6
  <2> QED BY <1>3, <2>2, <2>3
<1> QED BY <1>7, <1>8, <1>9

Evs(rows) == {rows[i].of : i \in DOMAIN rows}
Here(b, q) == Evs(b.rows) \cup Evs(q)

\* The events of one row more.
LEMMA EvsAppend ==
    ASSUME NEW s, IsSeq(s), NEW r
    PROVE  Evs(Append(s, r)) = Evs(s) \cup {r.of}
<1>1. /\ DOMAIN s = 1 .. Len(s) /\ DOMAIN Append(s, r) = 1 .. Len(s) + 1 /\ Len(s) \in Nat
      /\ \A i \in 1 .. Len(s) : Append(s, r)[i] = s[i]
      /\ Append(s, r)[Len(s) + 1] = r
  BY AppendIs
<1>2. ASSUME NEW e \in Evs(Append(s, r)) PROVE e \in Evs(s) \cup {r.of}
  <2>1. PICK i \in 1 .. Len(s) + 1 : e = Append(s, r)[i].of
    BY <1>1, <1>2 DEF Evs
  <2>2. i \in 1 .. Len(s) \/ i = Len(s) + 1
    BY <1>1
  <2> QED BY <1>1, <2>1, <2>2 DEF Evs
<1>3. ASSUME NEW e \in Evs(s) PROVE e \in Evs(Append(s, r))
  <2>1. PICK i \in 1 .. Len(s) : e = s[i].of
    BY <1>1, <1>3 DEF Evs
  <2>2. i \in 1 .. Len(s) + 1 /\ e = Append(s, r)[i].of
    BY <1>1, <2>1
  <2> QED BY <1>1, <2>2 DEF Evs
<1>4. r.of \in Evs(Append(s, r))
  <2>1. Len(s) + 1 \in 1 .. Len(s) + 1
    BY <1>1
  <2> QED BY <1>1, <2>1 DEF Evs
<1> QED BY <1>2, <1>3, <1>4

\* No rows are of no events, and no others are.
LEMMA EvsEmpty == Evs(<<>>) = {} /\ \A s : IsSeq(s) /\ s # <<>> => Evs(s) # {}
<1>1. Evs(<<>>) = {}
  BY DEF Evs
<1>2. ASSUME NEW s, IsSeq(s), s # <<>> PROVE Evs(s) # {}
  <2>1. 1 \in DOMAIN s
    BY <1>2, EmptySeq, LenProperties DEF IsSeq
  <2> QED BY <2>1 DEF Evs
<1> QED BY <1>1, <1>2

\* The empty sequence is one.
LEMMA EmptyIsSeq == IsSeq(<<>>)
<1>1. <<>> \in Seq({})
  OBVIOUS
<1> QED BY <1>1 DEF IsSeq

\* What the file keeps of a row.
LEMMA RowFields ==
    ASSUME NEW row
    PROVE  CsvRow(row).lot = row.lot /\ CsvRow(row).of = row.of
BY DEF CsvRow

Adds(q, s, row) ==
    \A i \in DOMAIN q : \/ q[i].of = row.of /\ q[i].lot = row.lot
                        \/ \E j \in DOMAIN s : q[i] = s[j]

\* A row that is appended to rows of its key.
LEMMA RowAppended ==
    ASSUME NEW s, IsSeq(s), NEW row, NEW q, q = Append(s, CsvRow(row))
    PROVE  /\ IsSeq(q) /\ q # <<>> /\ Evs(q) = Evs(s) \cup {row.of}
           /\ Adds(q, s, row)
<1>1. PICK r : r = CsvRow(row)
  OBVIOUS
<1>2. r.of = row.of /\ r.lot = row.lot
  BY <1>1, RowFields
<1>3. q = Append(s, r)
  BY <1>1
<1>4. IsSeq(q) /\ Len(q) = Len(s) + 1 /\ Len(s) \in Nat
  BY <1>3, AppendIs
<1>5. q # <<>>
  BY <1>4
<1>6. Evs(q) = Evs(s) \cup {row.of}
  BY <1>2, <1>3, EvsAppend
<1>7. \A i \in DOMAIN q : q[i] = r \/ \E j \in DOMAIN s : q[i] = s[j]
  BY <1>3, AppendOnly
<1>8. Adds(q, s, row)
  BY <1>2, <1>7 DEF Adds
<1> QED BY <1>4, <1>5, <1>6, <1>8

Belongs(key, row) == key \in {"NA", row.of.port}
SameLot(old, row) == old.lot = "" \/ row.lot \in {"", old.lot}
NoRows(f) == f.rows = <<>>

(* A shelf is what the writer has of a key.                                 *)
ShelfOK(b, q, k) ==
    /\ IsSeq(b.rows) /\ IsSeq(q)
    /\ \A i \in DOMAIN b.rows : k \in {"NA", b.rows[i].of.port} /\ b.rows[i].lot \in {"", b.lot}
    /\ \A i \in DOMAIN q : k \in {"NA", q[i].of.port} /\ q[i].lot = ""
    /\ b.rows = <<>> => b.lot = ""
    /\ b.rows # <<>> => q = <<>>

FileOK(f) ==
    /\ IsSeq(f.rows)
    /\ \A i \in DOMAIN f.rows :
          f.key \in {"NA", f.rows[i].of.port} /\ f.rows[i].lot \in {"", f.lot}

\* A shelf stays in order when a row of its own lot is added.
LEMMA AddedOK ==
    ASSUME NEW old, NEW pre, NEW key, ShelfOK(old, pre, key), NEW row,
           Belongs(key, row), SameLot(old, row)
    PROVE  /\ ShelfOK(Added(old, pre, row), <<>>, key)
           /\ Evs(Added(old, pre, row).rows) = Here(old, pre) \cup {row.of}
<1>1. PICK kept, b : /\ kept = (IF old.rows # <<>> THEN old.rows ELSE pre)
                     /\ b = Added(old, pre, row)
  OBVIOUS
<1>2. b = [lot |-> IF old.lot # "" THEN old.lot ELSE row.lot, rows |-> Append(kept, CsvRow(row))]
  BY <1>1 DEF Added
<1>3. b.lot = (IF old.lot # "" THEN old.lot ELSE row.lot) /\ b.rows = Append(kept, CsvRow(row))
  BY <1>2
<1>4. /\ IsSeq(kept)
      /\ \A i \in DOMAIN kept : key \in {"NA", kept[i].of.port} /\ kept[i].lot \in {"", old.lot}
      /\ Evs(kept) = Here(old, pre)
  <2>1. CASE old.rows # <<>>
    <3>1. kept = old.rows /\ pre = <<>>
      BY <1>1, <2>1 DEF ShelfOK
    <3> QED BY <3>1, EvsEmpty DEF ShelfOK, Here
  <2>2. CASE old.rows = <<>>
    <3>1. kept = pre /\ Evs(old.rows) = {}
      BY <1>1, <2>2, EvsEmpty
    <3> QED BY <3>1 DEF ShelfOK, Here
  <2> QED BY <2>1, <2>2
<1>5. /\ IsSeq(b.rows) /\ b.rows # <<>> /\ Evs(b.rows) = Here(old, pre) \cup {row.of}
      /\ Adds(b.rows, kept, row)
  <2>1. b.rows = Append(kept, CsvRow(row))
    BY <1>3
  <2>2. IsSeq(kept)
    BY <1>4
  <2>3. PICK q : q = Append(kept, CsvRow(row))
    OBVIOUS
  <2>4. /\ IsSeq(q) /\ q # <<>> /\ Evs(q) = Evs(kept) \cup {row.of}
        /\ Adds(q, kept, row)
    BY <2>2, <2>3, RowAppended
  <2>5. b.rows = q
    BY <2>1, <2>3
  <2> QED BY <2>4, <2>5, <1>4
<1>6. \A i \in DOMAIN b.rows : key \in {"NA", b.rows[i].of.port} /\ b.rows[i].lot \in {"", b.lot}
  <2> TAKE i \in DOMAIN b.rows
  <2>2. CASE b.rows[i].of = row.of /\ b.rows[i].lot = row.lot
    BY <2>2, <1>3 DEF Belongs, SameLot
  <2>3. CASE \E j \in DOMAIN kept : b.rows[i] = kept[j]
    BY <2>3, <1>3, <1>4 DEF SameLot
  <2> QED BY <1>5, <2>2, <2>3 DEF Adds
<1>8. IsSeq(<<>>) /\ \A i \in DOMAIN <<>> : FALSE
  <2>1. \A i \in DOMAIN <<>> : FALSE
    OBVIOUS
  <2> QED BY <2>1, EmptyIsSeq
<1>9. ShelfOK(b, <<>>, key)
  BY <1>5, <1>6, <1>8 DEF ShelfOK
<1> QED BY <1>1, <1>5, <1>9

\* An empty shelf is in order.
LEMMA EmptyShelf == ASSUME NEW key PROVE ShelfOK(NoBuffer, <<>>, key) /\ Here(NoBuffer, <<>>) = {}
<1>1. NoBuffer.rows = <<>> /\ NoBuffer.lot = ""
  BY DEF NoBuffer
<1>2. IsSeq(<<>>) /\ \A i \in DOMAIN <<>> : FALSE
  BY EmptyIsSeq
<1> QED BY <1>1, <1>2, EvsEmpty DEF ShelfOK, Here

\* A file without rows is in order.
LEMMA NoFileOK == \A f : f.rows = <<>> => FileOK(f) /\ Evs(f.rows) = {}
BY EmptyIsSeq, EvsEmpty DEF FileOK

Closing(row) == row.closes

(* What appending a row does to its shelf, and the file it may write.       *)
Shelves(old, pre, fl, row, key, b, q, f) ==
    /\ ShelfOK(b, q, key) /\ FileOK(f)
    /\ row.type \notin CsvEventTypes => b = old /\ q = pre /\ f = fl
    /\ row.type \in CsvEventTypes =>
          Here(b, q) \cup Evs(f.rows) = Here(old, pre) \cup {row.of}
    /\ row.of \notin Here(old, pre) => Here(b, q) \cap Evs(f.rows) = {}
    /\ Evs(f.rows) = {} \/ Here(old, pre) \subseteq Evs(f.rows)
    /\ row.of \in Evs(f.rows) => row.of \in Here(old, pre) \/ Closing(row)
    /\ \A e \in Evs(q) : e \in Evs(pre) \/ (e = row.of /\ row.lot = "")

\* Whatever _append_locked does leaves the shelf and its file in order.
LEMMA ShelfStep ==
    ASSUME NEW old, NEW pre, NEW key, ShelfOK(old, pre, key), NEW row,
           Belongs(key, row), NEW fl, NoRows(fl),
           NEW b, NEW q, NEW f, Appended(old, pre, fl, row, key, b, q, f)
    PROVE  Shelves(old, pre, fl, row, key, b, q, f)
<1> SUFFICES
           /\ ShelfOK(b, q, key) /\ FileOK(f)
           /\ row.type \notin CsvEventTypes => b = old /\ q = pre /\ f = fl
           /\ row.type \in CsvEventTypes =>
                 Here(b, q) \cup Evs(f.rows) = Here(old, pre) \cup {row.of}
           /\ row.of \notin Here(old, pre) => Here(b, q) \cap Evs(f.rows) = {}
           /\ Evs(f.rows) = {} \/ Here(old, pre) \subseteq Evs(f.rows)
           /\ row.of \in Evs(f.rows) => row.of \in Here(old, pre) \/ Closing(row)
           /\ \A e \in Evs(q) : e \in Evs(pre) \/ (e = row.of /\ row.lot = "")
  BY Zenon DEF Shelves
<1>1. CASE Stay(old, pre, fl, row, key, b, q, f)
  <2>1. b = old /\ q = pre /\ f = fl /\ row.type \notin CsvEventTypes /\ Evs(f.rows) = {}
    BY <1>1, EvsEmpty DEF Stay, NoRows
  <2>2. FileOK(f)
    BY <2>1, NoFileOK DEF NoRows
  <2> QED BY <2>1, <2>2
<1>2. CASE Wait(old, pre, fl, row, key, b, q, f)
  <2>1. /\ b = old /\ f = fl /\ row.lot = "" /\ old.rows = <<>>
        /\ row.type \in CsvEventTypes /\ Evs(f.rows) = {}
        /\ q = Append(pre, CsvRow(row))
    BY <1>2, EvsEmpty DEF Wait, NoRows
  <2>2. IsSeq(pre)
    BY DEF ShelfOK
  <2>3. /\ IsSeq(q) /\ Evs(q) = Evs(pre) \cup {row.of}
        /\ Adds(q, pre, row)
    <3>1. q = Append(pre, CsvRow(row))
      BY <2>1
    <3> QED BY <2>2, <3>1, RowAppended
  <2>4. \A i \in DOMAIN q : key \in {"NA", q[i].of.port} /\ q[i].lot = ""
    <3> TAKE i \in DOMAIN q
    <3>2. CASE q[i].of = row.of /\ q[i].lot = row.lot
      BY <3>2, <2>1 DEF Belongs
    <3>3. CASE \E j \in DOMAIN pre : q[i] = pre[j]
      BY <3>3 DEF ShelfOK
    <3> QED BY <2>3, <3>2, <3>3 DEF Adds
  <2>5. ShelfOK(b, q, key)
    BY <2>1, <2>3, <2>4 DEF ShelfOK
  <2>6. FileOK(f)
    BY <2>1, NoFileOK DEF NoRows
  <2> QED BY <2>1, <2>3, <2>5, <2>6 DEF Here
<1>3. CASE Grow(old, pre, fl, row, key, b, q, f)
  <2>1. /\ b = Added(old, pre, row) /\ f = fl /\ q = <<>> /\ Evs(q) = {}
        /\ row.type \in CsvEventTypes /\ Evs(f.rows) = {}
        /\ SameLot(old, row)
    BY <1>3, EvsEmpty DEF Grow, NoRows, SameLot
  <2>2. ShelfOK(b, q, key) /\ Evs(b.rows) = Here(old, pre) \cup {row.of}
    BY <2>1, AddedOK
  <2>3. FileOK(f)
    BY <2>1, NoFileOK DEF NoRows
  <2> QED BY <2>1, <2>2, <2>3 DEF Here
<1>4. CASE Swap(old, pre, fl, row, key, b, q, f)
  <2>1. /\ b = Added(NoBuffer, pre, row) /\ q = <<>> /\ Evs(q) = {}
        /\ row.type \in CsvEventTypes /\ old.lot # ""
        /\ f = [key |-> key, lot |-> old.lot, rows |-> old.rows, why |-> "lot_changed"]
    BY <1>4, EvsEmpty DEF Swap
  <2>2. f.key = key /\ f.lot = old.lot /\ f.rows = old.rows
    BY <2>1
  <2>3. old.rows # <<>> /\ pre = <<>> /\ Evs(pre) = {}
    BY <2>1, EvsEmpty DEF ShelfOK
  <2>4. ShelfOK(NoBuffer, pre, key) /\ Here(NoBuffer, pre) = {} /\ NoBuffer.lot = ""
    BY <2>3, EmptyShelf DEF NoBuffer
  <2>5. ShelfOK(b, q, key) /\ Evs(b.rows) = {row.of}
    <3>1. SameLot(NoBuffer, row)
      BY <2>4 DEF SameLot
    <3>2. PICK a : a = Added(NoBuffer, pre, row)
      OBVIOUS
    <3>3. ShelfOK(a, <<>>, key) /\ Evs(a.rows) = Here(NoBuffer, pre) \cup {row.of}
      BY <2>4, <3>1, <3>2, AddedOK
    <3>4. b = a /\ q = <<>>
      BY <2>1, <3>2
    <3> QED BY <2>4, <3>3, <3>4
  <2>6. FileOK(f)
    BY <2>2 DEF FileOK, ShelfOK
  <2>7. Evs(f.rows) = Here(old, pre)
    BY <2>2, <2>3 DEF Here
  <2> QED BY <2>1, <2>3, <2>5, <2>6, <2>7 DEF Here
<1>5. CASE Close(old, pre, fl, row, key, b, q, f)
  <2>1. /\ b = NoBuffer /\ q = <<>> /\ row.type \in CsvEventTypes /\ row.lot = ""
        /\ Closing(row)
        /\ f = [key |-> key, lot |-> Added(old, pre, row).lot,
                rows |-> Added(old, pre, row).rows, why |-> "carrier_unloaded"]
    BY <1>5 DEF Close, Closing
  <2>2. PICK a : a = Added(old, pre, row)
    OBVIOUS
  <2>3. ShelfOK(a, <<>>, key) /\ Evs(a.rows) = Here(old, pre) \cup {row.of}
    <3>1. SameLot(old, row)
      BY <2>1 DEF SameLot
    <3> QED BY <2>2, <3>1, AddedOK
  <2>4. f.key = key /\ f.lot = a.lot /\ f.rows = a.rows
    BY <2>1, <2>2
  <2>5. FileOK(f)
    BY <2>3, <2>4 DEF FileOK, ShelfOK
  <2>6. ShelfOK(b, q, key) /\ Here(b, q) = {} /\ Evs(q) = {}
    BY <2>1, EmptyShelf, EvsEmpty
  <2> QED BY <2>1, <2>3, <2>4, <2>5, <2>6
<1> QED BY <1>1, <1>2, <1>3, <1>4, <1>5 DEF Appended

Uniq(es) == \A i, j \in DOMAIN es : es[i].ev = es[j].ev => i = j

PortsKeyed(es) == \A i \in DOMAIN es : es[i].ev.port \in Keys

(* What the shelves hold are the rows that are held, a row of an event that *)
(* states its port on the shelf of that port.                               *)
ShelvedHeld(es, bs, qs) ==
    \A k \in Keys : \A ev \in Here(bs[k], qs[k]) :
       \E i \in DOMAIN es : es[i].ev = ev /\ es[i].csv = "held"

ShelvedApart(kind, bs, qs) ==
    /\ \A k \in Keys : \A ev \in Here(bs[k], qs[k]) : States(kind, ev) => k = ev.port
    /\ \A k, m \in Keys : \A ev \in Here(bs[k], qs[k]) : ev \in Here(bs[m], qs[m]) => k = m
    /\ \A k \in Keys : \A ev \in Evs(qs[k]) : ~Named(kind, ev)

HeldShelved(kind, es, bs, qs) ==
    \A i \in DOMAIN es : es[i].csv = "held" /\ States(kind, es[i].ev) =>
       es[i].ev \in Here(bs[es[i].ev.port], qs[es[i].ev.port])

Shelved(kind, es, bs, qs) ==
    /\ ShelvedHeld(es, bs, qs) /\ ShelvedApart(kind, bs, qs) /\ HeldShelved(kind, es, bs, qs)

ShelvesOK(bs, qs) == \A k \in Keys : ShelfOK(bs[k], qs[k], k)

(* The entries after the i-th one was dispatched and W was written.         *)
CsvAfter(k, es, i, W, j) ==
    IF es[j].ev \in W THEN "done"
    ELSE IF j # i \/ es[j].csv # "pending" THEN es[j].csv
    ELSE IF Rowed(k, es[i].ev) THEN "held" ELSE "done"

Moves(k, es, i, acc, W) ==
    /\ DOMAIN acc = DOMAIN es
    /\ \A j \in DOMAIN es : /\ acc[j].ev = es[j].ev
                            /\ acc[j].csv = CsvAfter(k, es, i, W, j)

Writes(k, es, i, W, key) ==
    /\ W # {} => es[i].csv = "pending" /\ Rowed(k, es[i].ev)
    /\ \A j \in DOMAIN es : es[j].ev \in W => j = i \/ es[j].csv = "held"
    /\ \A j \in DOMAIN es : es[j].ev \in W /\ States(k, es[j].ev) => es[j].ev.port = key
    /\ \A j \in DOMAIN es :
          W # {} /\ States(k, es[j].ev) /\ es[j].ev.port = key /\ es[j].csv = "held"
             => es[j].ev \in W
    /\ es[i].ev \in W => Unloads(k, es[i].ev)
    /\ States(k, es[i].ev) => key = es[i].ev.port
    /\ k = "mg" /\ W # {} => key = es[i].ev.port

(* The shelf of key turns from H into N, and W is written.                  *)
Turns(k, ev, H, N, W) ==
    /\ N \cup W = H \cup {ev}
    /\ N \cap W = {}
    /\ W = {} \/ H \subseteq W
    /\ ev \in W => Unloads(k, ev)

\* A row that is read goes to the shelf of its key, or to a file.
LEMMA ShelvedStep ==
    ASSUME NEW k \in Kinds, NEW es, NEW i \in DOMAIN es, Uniq(es), PortsKeyed(es),
           NEW bs, NEW qs, Shelved(k, es, bs, qs),
           es[i].csv = "pending", Rowed(k, es[i].ev),
           NEW key \in Keys, States(k, es[i].ev) => key = es[i].ev.port,
           k = "mg" => key = es[i].ev.port,
           NEW bs2, NEW qs2, NEW W,
           \A m \in Keys \ {key} : bs2[m] = bs[m] /\ qs2[m] = qs[m],
           Turns(k, es[i].ev, Here(bs[key], qs[key]), Here(bs2[key], qs2[key]), W),
           \A e \in Evs(qs2[key]) : e \in Evs(qs[key]) \/ ~Named(k, e),
           NEW acc, Moves(k, es, i, acc, W)
    PROVE  Writes(k, es, i, W, key) /\ Shelved(k, acc, bs2, qs2)
<1>1. PICK H, N, e : H = Here(bs[key], qs[key]) /\ N = Here(bs2[key], qs2[key]) /\ e = es[i].ev
  OBVIOUS
<1>2. /\ N \cup W = H \cup {e} /\ N \cap W = {} /\ (W = {} \/ H \subseteq W)
      /\ e \in W => Unloads(k, e)
  BY <1>1 DEF Turns
<1>3. ShelvedHeld(es, bs, qs) /\ ShelvedApart(k, bs, qs) /\ HeldShelved(k, es, bs, qs)
  BY DEF Shelved
<1>4. \A ev \in H : \E j \in DOMAIN es : es[j].ev = ev /\ es[j].csv = "held"
  BY <1>1, <1>3 DEF ShelvedHeld
<1>5. \A m \in Keys : e \notin Here(bs[m], qs[m])
  BY <1>1, <1>3 DEF ShelvedHeld, Uniq
<1>6. \A j \in DOMAIN es : es[j].ev \in H => es[j].csv = "held"
  BY <1>4 DEF Uniq
<1>7. \A j \in DOMAIN es : es[j].ev = e => j = i
  BY <1>1 DEF Uniq
<1>8. \A ev \in H : States(k, ev) => key = ev.port
  BY <1>1, <1>3 DEF ShelvedApart
<1>9. \A j \in DOMAIN es : es[j].ev \in W => j = i \/ es[j].csv = "held"
  BY <1>2, <1>6, <1>7
<1>10. \A j \in DOMAIN es : es[j].ev \in W /\ States(k, es[j].ev) => es[j].ev.port = key
  BY <1>1, <1>2, <1>7, <1>8
<1>11. \A j \in DOMAIN es : States(k, es[j].ev) /\ es[j].ev.port = key /\ es[j].csv = "held"
          => es[j].ev \in H
  BY <1>1, <1>3 DEF HeldShelved
<1>12. Writes(k, es, i, W, key)
  <2>1. \A j \in DOMAIN es :
          W # {} /\ States(k, es[j].ev) /\ es[j].ev.port = key /\ es[j].csv = "held"
             => es[j].ev \in W
    BY <1>2, <1>11
  <2> QED BY <1>1, <1>2, <1>9, <1>10, <2>1 DEF Writes
<1>13. \A j \in DOMAIN es : acc[j].ev = es[j].ev /\ acc[j].csv = CsvAfter(k, es, i, W, j)
  BY DEF Moves
<1>14. DOMAIN acc = DOMAIN es
  BY DEF Moves
<1>15. \A m \in Keys : m # key => Here(bs2[m], qs2[m]) = Here(bs[m], qs[m]) /\ Evs(qs2[m]) = Evs(qs[m])
  BY DEF Here
<1>16. \A j \in DOMAIN es : es[j].ev \notin W /\ es[j].csv = "held" => acc[j].csv = "held"
  BY <1>13 DEF CsvAfter
<1>17. e \notin W => acc[i].csv = "held"
  BY <1>1, <1>13 DEF CsvAfter
<1>18. ShelvedHeld(acc, bs2, qs2)
  <2> SUFFICES ASSUME NEW m \in Keys, NEW ev \in Here(bs2[m], qs2[m])
               PROVE  \E j \in DOMAIN acc : acc[j].ev = ev /\ acc[j].csv = "held"
    BY DEF ShelvedHeld
  <2>1. CASE m = key
    <3>1. ev \in N /\ ev \notin W
      BY <1>1, <1>2, <2>1
    <3>2. CASE ev = e
      BY <3>1, <3>2, <1>1, <1>13, <1>14, <1>17
    <3>3. CASE ev \in H
      <4>1. PICK j \in DOMAIN es : es[j].ev = ev /\ es[j].csv = "held"
        BY <1>4, <3>3
      <4> QED BY <3>1, <4>1, <1>13, <1>14, <1>16
    <3> QED BY <3>1, <3>2, <3>3, <1>2
  <2>2. CASE m # key
    <3>1. ev \in Here(bs[m], qs[m])
      BY <2>2, <1>15
    <3>2. PICK j \in DOMAIN es : es[j].ev = ev /\ es[j].csv = "held"
      BY <1>3, <3>1 DEF ShelvedHeld
    <3>3. ev \notin H
      BY <1>1, <1>3, <2>2, <3>1 DEF ShelvedApart
    <3>4. ev # e
      BY <1>5, <3>1
    <3> QED BY <1>2, <3>2, <3>3, <3>4, <1>13, <1>14, <1>16
  <2> QED BY <2>1, <2>2
<1>19. ShelvedApart(k, bs2, qs2)
  <2>1. \A m \in Keys : \A ev \in Here(bs2[m], qs2[m]) :
           ev \in Here(bs[m], qs[m]) \/ (m = key /\ ev = e)
    BY <1>1, <1>2, <1>15
  <2>2. \A m \in Keys : \A ev \in Here(bs2[m], qs2[m]) : States(k, ev) => m = ev.port
    BY <2>1, <1>1, <1>3 DEF ShelvedApart
  <2>3. \A m, l \in Keys : \A ev \in Here(bs2[m], qs2[m]) : ev \in Here(bs2[l], qs2[l]) => m = l
    BY <2>1, <1>3, <1>5 DEF ShelvedApart
  <2>4. \A m \in Keys : \A ev \in Evs(qs2[m]) : ~Named(k, ev)
    BY <1>3, <1>15 DEF ShelvedApart
  <2> QED BY <2>2, <2>3, <2>4 DEF ShelvedApart
<1>20. HeldShelved(k, acc, bs2, qs2)
  <2> SUFFICES ASSUME NEW j \in DOMAIN acc, acc[j].csv = "held", States(k, acc[j].ev)
               PROVE  acc[j].ev \in Here(bs2[acc[j].ev.port], qs2[acc[j].ev.port])
    BY DEF HeldShelved
  <2>1. j \in DOMAIN es /\ acc[j].ev = es[j].ev
    BY <1>13, <1>14
  <2>2. es[j].ev \notin W /\ (es[j].csv = "held" \/ j = i)
    BY <1>13, <2>1 DEF CsvAfter
  <2>3. CASE j = i
    <3>1. e \in N /\ acc[j].ev.port = key /\ acc[j].ev = e
      BY <1>1, <1>2, <2>1, <2>2, <2>3
    <3> QED BY <1>1, <3>1
  <2>4. CASE j # i
    <3>1. es[j].ev \in Here(bs[es[j].ev.port], qs[es[j].ev.port])
      BY <1>3, <2>1, <2>2, <2>4 DEF HeldShelved
    <3>2. CASE es[j].ev.port = key
      BY <1>1, <1>2, <2>1, <2>2, <3>1, <3>2
    <3>3. CASE es[j].ev.port # key
      <4>1. es[j].ev.port \in Keys
        BY <2>1 DEF PortsKeyed
      <4> QED BY <1>15, <2>1, <3>1, <3>3, <4>1
    <3> QED BY <3>2, <3>3
  <2> QED BY <2>3, <2>4
<1> QED BY <1>12, <1>18, <1>19, <1>20 DEF Shelved

\* An entry whose row is not read leaves the shelves alone.
LEMMA ShelvedSame ==
    ASSUME NEW k \in Kinds, NEW es, NEW i \in DOMAIN es,
           NEW bs, NEW qs, Shelved(k, es, bs, qs),
           es[i].csv # "pending" \/ ~Rowed(k, es[i].ev),
           NEW key, States(k, es[i].ev) => key = es[i].ev.port, Uniq(es),
           NEW acc, Moves(k, es, i, acc, {})
    PROVE  Writes(k, es, i, {}, key) /\ Shelved(k, acc, bs, qs)
<1>1. /\ DOMAIN acc = DOMAIN es
      /\ \A j \in DOMAIN es : acc[j].ev = es[j].ev /\ (es[j].csv = "held" <=> acc[j].csv = "held")
  BY DEF Moves, CsvAfter
<1>2. ShelvedHeld(es, bs, qs) /\ ShelvedApart(k, bs, qs) /\ HeldShelved(k, es, bs, qs)
  BY DEF Shelved
<1>3. ShelvedHeld(acc, bs, qs)
  BY <1>1, <1>2 DEF ShelvedHeld
<1>4. HeldShelved(k, acc, bs, qs)
  BY <1>1, <1>2 DEF HeldShelved
<1>5. Writes(k, es, i, {}, key)
  BY DEF Writes
<1> QED BY <1>2, <1>3, <1>4, <1>5 DEF Shelved

(***************************************************************************)
(* The accounting.                                                         *)
(***************************************************************************)
OnlyPublishes(es, i, acc, refused) ==
    \A j \in DOMAIN es : acc[j].publish => es[j].publish /\ (j = i => refused)

\* Accounted in terms of Moves.
LEMMA AccountedIs ==
    ASSUME NEW k, NEW es, IsSeq(es), NEW i \in DOMAIN es, NEW type, NEW written,
           NEW refused, type \in CsvEventTypes <=> Rowed(k, es[i].ev)
    PROVE  /\ Moves(k, es, i, Accounted(es, i, type, written, refused), Evs(written))
           /\ OnlyPublishes(es, i, Accounted(es, i, type, written, refused), refused)
           /\ Len(Accounted(es, i, type, written, refused)) = Len(es)
           /\ IsSeq(Accounted(es, i, type, written, refused))
<1>1. PICK acc : acc = Accounted(es, i, type, written, refused)
  OBVIOUS
<1>2. DOMAIN acc = DOMAIN es
  BY <1>1 DEF Accounted
<1>3. ASSUME NEW j \in DOMAIN es
      PROVE  /\ acc[j].ev = es[j].ev /\ acc[j].csv = CsvAfter(k, es, i, Evs(written), j)
             /\ acc[j].publish => es[j].publish /\ (j = i => refused)
  <2>1. PICK inW : inW \in BOOLEAN /\ (inW <=> \E l \in DOMAIN written : written[l].of = es[j].ev)
    OBVIOUS
  <2>2. PICK c : c = IF inW THEN "done"
                     ELSE IF j # i \/ es[j].csv # "pending" THEN es[j].csv
                     ELSE IF type \in CsvEventTypes THEN "held" ELSE "done"
    OBVIOUS
  <2>0. PICK pub : pub = (es[j].publish /\ (j = i => refused))
    OBVIOUS
  <2>3. acc[j] = [ev |-> es[j].ev, publish |-> pub, csv |-> c]
    BY <1>1, <2>0, <2>1, <2>2, Zenon DEF Accounted
  <2>4. acc[j].ev = es[j].ev /\ acc[j].csv = c /\ acc[j].publish = pub
    BY <2>3
  <2>5. inW <=> es[j].ev \in Evs(written)
    BY <2>1 DEF Evs
  <2>6. c = CsvAfter(k, es, i, Evs(written), j)
    BY <2>2, <2>5 DEF CsvAfter
  <2> QED BY <2>0, <2>4, <2>6, Zenon
<1>4. Moves(k, es, i, acc, Evs(written)) /\ OnlyPublishes(es, i, acc, refused)
  BY <1>2, <1>3 DEF Moves, OnlyPublishes
<1>5. Len(es) \in Nat /\ DOMAIN es = 1 .. Len(es)
  BY LenProperties DEF IsSeq
<1>6. acc \in [1 .. Len(es) -> {acc[j] : j \in 1 .. Len(es)}]
  <2>1. acc = [j \in DOMAIN es |-> acc[j]]
    BY <1>1 DEF Accounted
  <2> QED BY <2>1, <1>5
<1>7. acc \in Seq({acc[j] : j \in 1 .. Len(es)})
  BY <1>5, <1>6
<1>8. Len(acc) = Len(es) /\ IsSeq(acc)
  BY <1>2, <1>5, <1>7, LenProperties DEF IsSeq
<1> QED BY <1>1, <1>4, <1>8

IsShelf(b, L, R) == b = [lot |-> b.lot, rows |-> b.rows] /\ b.lot \in L /\ b.rows \in Seq(R)

\* The empty sequence has every type.
LEMMA EmptyIn == ASSUME NEW R PROVE <<>> \in Seq(R)
OBVIOUS

\* Append keeps the type.
LEMMA AppendIn == ASSUME NEW R, NEW s \in Seq(R), NEW r \in R PROVE Append(s, r) \in Seq(R)
OBVIOUS

\* The set of shelves, as a predicate.
LEMMA ShelfSet ==
    ASSUME NEW L, NEW R, NEW b
    PROVE  b \in [lot : L, rows : Seq(R)] <=> IsShelf(b, L, R)
BY DEF IsShelf

\* The type of a shelf with a row more.
LEMMA AddedType ==
    ASSUME NEW L, NEW R, NEW o, IsShelf(o, L, R), NEW pre \in Seq(R),
           NEW row, row.lot \in L, CsvRow(row) \in R
    PROVE  IsShelf(Added(o, pre, row), L, R)
<1>1. PICK kept, lot, r : /\ kept = (IF o.rows # <<>> THEN o.rows ELSE pre)
                          /\ lot = (IF o.lot # "" THEN o.lot ELSE row.lot)
                          /\ r = CsvRow(row)
  OBVIOUS
<1>2. kept \in Seq(R) /\ lot \in L /\ r \in R
  BY <1>1 DEF IsShelf
<1>3. Append(kept, r) \in Seq(R)
  BY <1>2
<1>4. Added(o, pre, row) = [lot |-> lot, rows |-> Append(kept, r)]
  BY <1>1, Zenon DEF Added
<1>5. PICK a : a = Added(o, pre, row)
  OBVIOUS
<1>6. a = [lot |-> lot, rows |-> Append(kept, r)]
  BY <1>4, <1>5
<1>7. a.lot = lot /\ a.rows = Append(kept, r)
  BY <1>6
<1>8. IsShelf(a, L, R)
  BY <1>2, <1>3, <1>6, <1>7 DEF IsShelf
<1> QED BY <1>5, <1>8

\* The types of a shelf after each of the five outcomes.
LEMMA ShelfTypes ==
    ASSUME NEW L, NEW R, "" \in L,
           NEW old, IsShelf(old, L, R), NEW pre \in Seq(R), NEW key,
           NEW row, row.lot \in L, CsvRow(row) \in R, NEW fl,
           NEW b, NEW q, NEW f, Appended(old, pre, fl, row, key, b, q, f)
    PROVE  IsShelf(b, L, R) /\ q \in Seq(R)
<1>1. IsShelf(NoBuffer, L, R) /\ <<>> \in Seq(R)
  <2>1. NoBuffer.lot = "" /\ NoBuffer.rows = <<>> /\ NoBuffer = [lot |-> NoBuffer.lot, rows |-> NoBuffer.rows]
    BY DEF NoBuffer
  <2>2. <<>> \in Seq(R)
    BY EmptyIn, Zenon
  <2> QED BY <2>1, <2>2 DEF IsShelf
<1>3. CASE Stay(old, pre, fl, row, key, b, q, f)
  BY <1>3, Zenon DEF Stay
<1>4. CASE Wait(old, pre, fl, row, key, b, q, f)
  <2>1. b = old /\ q = Append(pre, CsvRow(row))
    BY <1>4, Zenon DEF Wait
  <2>2. Append(pre, CsvRow(row)) \in Seq(R)
    BY AppendIn, Zenon
  <2> QED BY <2>1, <2>2, Zenon
<1>5. CASE Grow(old, pre, fl, row, key, b, q, f)
  <2>1. b = Added(old, pre, row) /\ q = <<>>
    BY <1>5, Zenon DEF Grow
  <2> QED BY <2>1, <1>1, AddedType
<1>6. CASE Swap(old, pre, fl, row, key, b, q, f)
  <2>1. b = Added(NoBuffer, pre, row) /\ q = <<>>
    BY <1>6, Zenon DEF Swap
  <2> QED BY <2>1, <1>1, AddedType
<1>7. CASE Close(old, pre, fl, row, key, b, q, f)
  <2>1. b = NoBuffer /\ q = <<>>
    BY <1>7, Zenon DEF Close
  <2> QED BY <2>1, <1>1
<1> QED BY <1>3, <1>4, <1>5, <1>6, <1>7, Zenon DEF Appended

\* The type of the entries after one was dispatched.
LEMMA AccountedType ==
    ASSUME NEW E, NEW es \in Seq([ev : E, publish : BOOLEAN, csv : {"pending", "held", "done"}]),
           NEW i, NEW type, NEW written, NEW refused \in BOOLEAN
    PROVE  Accounted(es, i, type, written, refused)
              \in Seq([ev : E, publish : BOOLEAN, csv : {"pending", "held", "done"}])
<1>1. DOMAIN es = 1 .. Len(es) /\ Len(es) \in Nat
  BY LenProperties
<1>2. PICK X : X = [ev : E, publish : BOOLEAN, csv : {"pending", "held", "done"}]
  OBVIOUS
<1>3. PICK acc : acc = Accounted(es, i, type, written, refused)
  OBVIOUS
<1>4. ASSUME NEW j \in 1 .. Len(es) PROVE acc[j] \in X
  <2>0. es[j] \in [ev : E, publish : BOOLEAN, csv : {"pending", "held", "done"}]
    BY ElementOfSeq
  <2>1. PICK e, p, c : e = es[j].ev /\ p = es[j].publish /\ c = es[j].csv
    OBVIOUS
  <2>2. e \in E /\ p \in BOOLEAN /\ c \in {"pending", "held", "done"}
    BY <2>0, <2>1
  <2>3. PICK inW : inW \in BOOLEAN /\ (inW <=> \E l \in DOMAIN written : written[l].of = es[j].ev)
    OBVIOUS
  <2>4. PICK d : d = (IF inW THEN "done"
                     ELSE IF j # i \/ c # "pending" THEN c
                     ELSE IF type \in CsvEventTypes THEN "held" ELSE "done")
    OBVIOUS
  <2>5. d \in {"pending", "held", "done"}
    BY <2>2, <2>4
  <2>6. PICK pub : pub = (p /\ (j = i => refused))
    OBVIOUS
  <2>7. pub \in BOOLEAN
    BY <2>6, Zenon
  <2>8. acc[j] = [ev |-> e, publish |-> pub, csv |-> d]
    BY <1>1, <1>3, <2>1, <2>3, <2>4, <2>6, Zenon DEF Accounted
  <2> QED BY <1>2, <2>2, <2>5, <2>7, <2>8
<1>5. acc = [j \in 1 .. Len(es) |-> acc[j]]
  BY <1>1, <1>3 DEF Accounted
<1>6. acc \in [1 .. Len(es) -> X]
  BY <1>4, <1>5
<1>7. acc \in Seq(X)
  BY <1>1, <1>6
<1> QED BY <1>2, <1>3, <1>7

\* The type of the entries that are owed.
LEMMA OwingType ==
    ASSUME NEW X, NEW es \in Seq(X)
    PROVE  Owing(es) \in Seq(X)
BY KeepPlaces DEF Owing

L0 == LotNames \cup {""}

ShelvesTyped(bs, qs) ==
    /\ bs \in [Keys -> [lot : L0, rows : Seq(Row)]]
    /\ qs \in [Keys -> Seq(Row)]

Ready(es) ==
    /\ tool.kind \in Kinds
    /\ es \in Seq(Entry) /\ Uniq(es)
    /\ IsTracker(tracker) /\ PortsKnown(tracker) \subseteq Ports
    /\ ShelvesTyped(buffers, preLot) /\ ShelvesOK(buffers, preLot)
    /\ Shelved(tool.kind, es, buffers, preLot)

\* Ports are keys of the writer, and never empty.
LEMMA PortsAre ==
    /\ Ports \subseteq Keys /\ "" \notin Ports /\ "NA" \in Keys
    /\ tool.kind = "davinci" => Ports = {"1"}
<1>1. "" \notin MgPorts
  BY ToolAssumption
<1> QED BY <1>1 DEF Ports, Keys

\* No lot has the empty name.
LEMMA LotsNamed == "" \notin LotNames
<1>1. DOMAIN LotIds = 1 .. 4 /\ \A i \in 1 .. 4 : LotIds[i] # ""
  BY DEF LotIds
<1> QED BY <1>1 DEF LotNames

\* What is true of every event of the tool.
LEMMA EventFacts ==
    ASSUME NEW ev \in Event
    PROVE  IsEvent(tool.kind, ev) /\ ev.port \in Ports /\ ev.lot \in LotNames
<1>1. ev.name \in Names(tool.kind) /\ ev.port \in Ports /\ ev.lot \in LotNames
  BY DEF Event, Names
<1> QED BY <1>1, PortsAre, LotsNamed DEF IsEvent

\* What is true of every entry of the journal.
LEMMA EntryFacts ==
    ASSUME NEW es \in Seq(Entry), NEW i \in DOMAIN es
    PROVE  /\ es[i].ev \in Event /\ es[i].csv \in {"pending", "held", "done"}
           /\ es[i].publish \in BOOLEAN /\ DOMAIN es = 1 .. Len(es) /\ Len(es) \in Nat
           /\ i \in 1 .. Len(es) /\ i \in Nat
<1>1. DOMAIN es = 1 .. Len(es) /\ Len(es) \in Nat
  BY LenProperties
<1>2. es[i] \in Entry
  BY <1>1, ElementOfSeq
<1>3. es[i].ev \in Event /\ es[i].csv \in {"pending", "held", "done"} /\ es[i].publish \in BOOLEAN
  BY <1>2 DEF Entry
<1> QED BY <1>1, <1>3

\* The writer is what its shelves are.
LEMMA WriterIs ==
    ASSUME ShelvesTyped(buffers, preLot)
    PROVE  /\ IsWriter(Writer) /\ Writer.buffers = buffers /\ Writer.preLot = preLot
           /\ Writer.file = NoFile /\ NoFile.rows = <<>>
           /\ \A k \in Keys : IsShelf(buffers[k], L0, Row) /\ preLot[k] \in Seq(Row)
<1>1. /\ Writer.buffers = buffers /\ Writer.preLot = preLot /\ Writer.file = NoFile
      /\ Writer = [buffers |-> Writer.buffers, preLot |-> Writer.preLot, file |-> Writer.file]
  BY DEF Writer
<1>2. /\ buffers = [k \in Keys |-> buffers[k]] /\ preLot = [k \in Keys |-> preLot[k]]
  BY DEF ShelvesTyped
<1>3. \A k \in Keys : IsShelf(buffers[k], L0, Row) /\ preLot[k] \in Seq(Row)
  <2> TAKE k \in Keys
  <2>1. buffers[k] \in [lot : L0, rows : Seq(Row)] /\ preLot[k] \in Seq(Row)
    BY DEF ShelvesTyped
  <2> QED BY <2>1, ShelfSet
<1>4. \A k \in Keys : buffers[k] = [lot |-> buffers[k].lot, rows |-> buffers[k].rows]
  BY <1>3 DEF IsShelf
<1>5. IsWriter(Writer)
  BY <1>1, <1>2, <1>4 DEF IsWriter
<1>6. NoFile.rows = <<>>
  BY DEF NoFile
<1> QED BY <1>1, <1>3, <1>5, <1>6

\* The entry that is dispatched has not been put on a shelf.
LEMMA Unshelved ==
    ASSUME NEW k, NEW es, NEW i \in DOMAIN es, Uniq(es), es[i].csv = "pending",
           NEW bs, NEW qs, Shelved(k, es, bs, qs), NEW key \in Keys
    PROVE  es[i].ev \notin Here(bs[key], qs[key])
BY DEF Shelved, ShelvedHeld, Uniq

Dispatched(es, i, refused, acc, W, key) ==
    /\ acc \in Seq(Entry) /\ owed' = Owing(acc)
    /\ Moves(tool.kind, es, i, acc, W) /\ OnlyPublishes(es, i, acc, refused)
    /\ Writes(tool.kind, es, i, W, key)
    /\ Shelved(tool.kind, acc, buffers', preLot')
    /\ ShelvesTyped(buffers', preLot')
    /\ ShelvesOK(buffers', preLot') /\ FileOK(file')
    /\ TracksPorts(tool.kind, es[i].ev, tracker', tracker)
    /\ TracksChambers(tool.kind, es[i].ev, tracker', tracker)

Attributed(ev) ==
    \E row : /\ RowOf(tool.kind, ev, row, tracker)
             /\ last' = [given |-> row.port, true |-> ev.port,
                         sure |-> ev.port \notin missed /\ ~overtaken']

\* The row of an event, and the shelf it is put on.
Fits(k, ev, row, key) ==
    /\ key \in Keys
    /\ row.type \in CsvEventTypes <=> Rowed(k, ev)
    /\ row.of = ev
    /\ row.lot \in L0 /\ CsvRow(row) \in Row
    /\ ClosesUnnamed(row)
    /\ Closing(row) => Unloads(k, ev)
    /\ row.lot = "" => ~Named(k, ev)
    /\ Rowed(k, ev) => Belongs(key, row)
    /\ States(k, ev) => key = ev.port
    /\ k = "mg" /\ Rowed(k, ev) => key = ev.port

\* The row of an event belongs on the shelf that its port names.
LEMMA RowFits ==
    ASSUME NEW k \in Kinds, k = tool.kind, NEW t, PortsKnown(t) \subseteq Ports,
           NEW ev \in Event, NEW row, RowOf(k, ev, row, t)
    PROVE  Fits(k, ev, row, KeyOf(row))
<1>1. IsEvent(k, ev) /\ ev.port \in Ports /\ ev.lot \in LotNames /\ ev.port # "" /\ ev.lot # ""
  BY EventFacts DEF IsEvent
<1>2. /\ row.type = About(k, ev).type /\ (row.closes <=> About(k, ev).closes) /\ row.of = ev
      /\ row.lot = IF Named(k, ev) THEN ev.lot ELSE ""
      /\ IF States(k, ev) THEN row.port = ev.port ELSE row.port \in PortsKnown(t) \cup {""}
  BY DEF RowOf
<1>3. row.port \in Ports \cup {""}
  BY <1>1, <1>2
<1>4. KeyOf(row) \in Keys
  BY <1>3, PortsAre DEF KeyOf
<1>5. row.type \in CsvEventTypes <=> Rowed(k, ev)
  BY <1>2 DEF Rowed
<1>6. row.lot \in L0 /\ (row.lot = "" => ~Named(k, ev))
  BY <1>1, <1>2 DEF L0
<1>7. CsvRow(row) \in Row
  BY <1>2, <1>6 DEF CsvRow, Row, L0
<1>8. /\ Unloads(k, ev) => ~Named(k, ev)
      /\ About(k, ev).closes => Unloads(k, ev)
      /\ k = "mg" /\ Rowed(k, ev) => States(k, ev)
  BY <1>1, ProfileIs
<1>9. ClosesUnnamed(row) /\ (Closing(row) => Unloads(k, ev))
  BY <1>2, <1>8 DEF ClosesUnnamed, Closing
<1>10. States(k, ev) => KeyOf(row) = ev.port
  BY <1>1, <1>2 DEF KeyOf
<1>11. Rowed(k, ev) => Belongs(KeyOf(row), row)
  <2>1. CASE States(k, ev)
    BY <2>1, <1>2, <1>10 DEF Belongs
  <2>2. CASE ~States(k, ev) /\ Rowed(k, ev)
    <3>1. k = "davinci"
      BY <2>2, <1>8 DEF Kinds
    <3>2. Ports = {"1"}
      BY <3>1, PortsAre
    <3> QED BY <3>2, <1>1, <1>2, <1>3 DEF Belongs, KeyOf
  <2> QED BY <2>1, <2>2
<1> QED BY <1>2, <1>4, <1>5, <1>6, <1>7, <1>8, <1>9, <1>10, <1>11, Zenon DEF Fits

\* One row is appended.
LEMMA AppendIsFine ==
    ASSUME NEW es, NEW i \in DOMAIN es, Ready(es), es[i].csv = "pending",
           NEW row, RowOf(tool.kind, es[i].ev, row, tracker),
           NEW w, w = AppendRow(Writer, row),
           NEW acc, Moves(tool.kind, es, i, acc, Evs(w.file.rows))
    PROVE  /\ Writes(tool.kind, es, i, Evs(w.file.rows), KeyOf(row))
           /\ Shelved(tool.kind, acc, w.buffers, w.preLot)
           /\ ShelvesTyped(w.buffers, w.preLot)
           /\ ShelvesOK(w.buffers, w.preLot) /\ FileOK(w.file)
<1>1. PICK k, ev, key, old, pre : /\ k = tool.kind /\ ev = es[i].ev /\ key = KeyOf(row)
                                  /\ old = buffers[key] /\ pre = preLot[key]
  OBVIOUS
<1>2. /\ k \in Kinds /\ es \in Seq(Entry) /\ Uniq(es) /\ PortsKnown(tracker) \subseteq Ports
      /\ ShelvesTyped(buffers, preLot) /\ ShelvesOK(buffers, preLot)
      /\ Shelved(k, es, buffers, preLot)
  BY <1>1 DEF Ready
<1>3. ev \in Event /\ ev.port \in Ports
  BY <1>1, <1>2, EntryFacts, EventFacts
<1>4. RowOf(k, ev, row, tracker)
  BY <1>1
<1>5. Fits(k, ev, row, key)
  <2>1. k = tool.kind /\ k \in Kinds /\ PortsKnown(tracker) \subseteq Ports /\ ev \in Event
    BY <1>1, <1>2, <1>3
  <2>2. Fits(k, ev, row, KeyOf(row))
    BY <2>1, <1>4, RowFits
  <2> QED BY <1>1, <2>2
<1>5a. key \in Keys /\ ClosesUnnamed(row) /\ row.of = ev
  BY <1>5, Zenon DEF Fits
<1>5b. row.lot \in L0 /\ CsvRow(row) \in Row
  BY <1>5, Zenon DEF Fits
<1>5c. Closing(row) => Unloads(k, ev)
  BY <1>5, Zenon DEF Fits
<1>5d. /\ States(k, ev) => key = ev.port
       /\ k = "mg" /\ Rowed(k, ev) => key = ev.port
  BY <1>5, Zenon DEF Fits
<1>6. /\ IsWriter(Writer) /\ Writer.buffers = buffers /\ Writer.preLot = preLot
      /\ Writer.file = NoFile /\ NoRows(NoFile)
      /\ \A m \in Keys : IsShelf(buffers[m], L0, Row) /\ preLot[m] \in Seq(Row)
  BY <1>2, WriterIs DEF NoRows
<1>7. PICK b, q, f : /\ w = Put(Writer, key, b, q, f)
                     /\ Appended(old, pre, NoFile, row, key, b, q, f)
  <2>1. KeyOf(row) \in Keys /\ ClosesUnnamed(row) /\ IsWriter(Writer)
    BY <1>1, <1>5a, <1>6
  <2>2. \E b, q, f : /\ AppendRow(Writer, row) = Put(Writer, KeyOf(row), b, q, f)
                     /\ Appended(Writer.buffers[KeyOf(row)], Writer.preLot[KeyOf(row)],
                                 Writer.file, row, KeyOf(row), b, q, f)
    BY <2>1, AppendRowIs
  <2> QED BY <2>2, <1>1, <1>6
<1>8. /\ w.buffers[key] = b /\ w.preLot[key] = q /\ w.file = f
      /\ \A m \in Keys \ {key} : w.buffers[m] = buffers[m] /\ w.preLot[m] = preLot[m]
  <2>1. key \in Keys /\ IsWriter(Writer)
    BY <1>5a, <1>6
  <2>2. PICK v : v = Put(Writer, key, b, q, f)
    OBVIOUS
  <2>3. /\ v.buffers[key] = b /\ v.preLot[key] = q /\ v.file = f
        /\ \A m \in Keys \ {key} : v.buffers[m] = Writer.buffers[m] /\ v.preLot[m] = Writer.preLot[m]
    BY <2>1, <2>2, PutIs
  <2> QED BY <2>2, <2>3, <1>6, <1>7
<1>9. /\ w.buffers = [buffers EXCEPT ![key] = b] /\ w.preLot = [preLot EXCEPT ![key] = q]
  <2>1. w = [buffers |-> [Writer.buffers EXCEPT ![key] = b],
             preLot |-> [Writer.preLot EXCEPT ![key] = q], file |-> f]
    BY <1>7 DEF Put
  <2> QED BY <2>1, <1>6
<1>10. ShelvesTyped(w.buffers, w.preLot)
  <2>1. IsShelf(old, L0, Row) /\ pre \in Seq(Row) /\ "" \in L0
    BY <1>1, <1>5a, <1>6 DEF L0
  <2>2. IsShelf(b, L0, Row) /\ q \in Seq(Row)
    BY <1>5b, <1>7, <2>1, ShelfTypes
  <2>3. b \in [lot : L0, rows : Seq(Row)]
    BY <2>2, ShelfSet
  <2>4. buffers \in [Keys -> [lot : L0, rows : Seq(Row)]] /\ preLot \in [Keys -> Seq(Row)]
    BY <1>2 DEF ShelvesTyped
  <2>5. [buffers EXCEPT ![key] = b] \in [Keys -> [lot : L0, rows : Seq(Row)]]
    BY <2>3, <2>4
  <2>6. [preLot EXCEPT ![key] = q] \in [Keys -> Seq(Row)]
    BY <2>2, <2>4
  <2> QED BY <1>9, <2>5, <2>6 DEF ShelvesTyped
<1>11. ShelfOK(old, pre, key)
  BY <1>1, <1>2, <1>5a DEF ShelvesOK
<1>12. CASE ~Rowed(k, ev)
  <2>1. row.type \notin CsvEventTypes
    BY <1>12, <1>5, Zenon DEF Fits
  <2>2. b = old /\ q = pre /\ f = NoFile
    BY <1>7, <2>1 DEF Appended, Stay, Wait, Grow, Swap, Close
  <2>3. Put(Writer, key, b, q, f) = Writer
    <3>1. Put(Writer, key, Writer.buffers[key], Writer.preLot[key], Writer.file) = Writer
      BY <1>5a, <1>6, PutSame
    <3> QED BY <3>1, <2>2, <1>1, <1>6
  <2>4. w = Writer
    BY <1>7, <2>3
  <2>5. w.buffers = buffers /\ w.preLot = preLot /\ w.file = NoFile
    BY <2>4, <1>6
  <2>6. FileOK(w.file) /\ Evs(w.file.rows) = {}
    BY <2>5, <1>6, NoFileOK DEF NoRows
  <2>7. Moves(k, es, i, acc, {})
    BY <2>6, <1>1
  <2>8. ~Rowed(k, es[i].ev) /\ (States(k, es[i].ev) => key = es[i].ev.port)
    BY <1>1, <1>5d, <1>12
  <2>9. Writes(k, es, i, {}, key) /\ Shelved(k, acc, buffers, preLot)
    BY <1>2, <2>7, <2>8, ShelvedSame
  <2> QED BY <1>1, <1>2, <1>10, <2>5, <2>6, <2>9
<1>13. CASE Rowed(k, ev)
  <2>1. Belongs(key, row) /\ row.type \in CsvEventTypes
    BY <1>5, <1>13, Zenon DEF Fits
  <2>2. ev \notin Here(old, pre)
    <3>1. key \in Keys
      BY <1>5a
    <3>2. es[i].ev \notin Here(buffers[key], preLot[key])
      BY <1>2, <3>1, Unshelved
    <3> QED BY <1>1, <3>2
  <2>3. /\ ShelfOK(b, q, key) /\ FileOK(f)
        /\ Here(b, q) \cup Evs(f.rows) = Here(old, pre) \cup {row.of}
        /\ row.of \notin Here(old, pre) => Here(b, q) \cap Evs(f.rows) = {}
        /\ Evs(f.rows) = {} \/ Here(old, pre) \subseteq Evs(f.rows)
        /\ row.of \in Evs(f.rows) => row.of \in Here(old, pre) \/ Closing(row)
        /\ \A e \in Evs(q) : e \in Evs(pre) \/ (e = row.of /\ row.lot = "")
    <3>1. Appended(old, pre, NoFile, row, key, b, q, f)
      BY <1>7
    <3>2. NoRows(NoFile)
      BY <1>6
    <3>3. Shelves(old, pre, NoFile, row, key, b, q, f)
      BY <1>11, <2>1, <3>1, <3>2, ShelfStep
    <3> QED BY <2>1, <3>3, Zenon DEF Shelves
  <2>4. Turns(k, ev, Here(old, pre), Here(b, q), Evs(f.rows))
    BY <2>2, <2>3, <1>5a, <1>5c DEF Turns
  <2>5. \A e \in Evs(q) : e \in Evs(pre) \/ ~Named(k, e)
    <3>1. row.lot = "" => ~Named(k, row.of)
      BY <1>5, Zenon DEF Fits
    <3> QED BY <2>3, <3>1, Zenon
  <2>6. ShelvesOK(w.buffers, w.preLot)
    <3> SUFFICES ASSUME NEW m \in Keys PROVE ShelfOK(w.buffers[m], w.preLot[m], m)
      BY DEF ShelvesOK
    <3>1. CASE m = key
      BY <3>1, <1>8, <2>3
    <3>2. CASE m # key
      <4>1. ShelfOK(buffers[m], preLot[m], m)
        BY <1>2 DEF ShelvesOK
      <4> QED BY <3>2, <4>1, <1>8
    <3> QED BY <3>1, <3>2
  <2>7. PortsKeyed(es)
    <3> SUFFICES ASSUME NEW j \in DOMAIN es PROVE es[j].ev.port \in Keys
      BY DEF PortsKeyed
    <3> QED BY <1>2, EntryFacts, EventFacts, PortsAre
  <2>8. PICK bs2, qs2, W : bs2 = w.buffers /\ qs2 = w.preLot /\ W = Evs(w.file.rows)
    OBVIOUS
  <2>9. Turns(k, es[i].ev, Here(buffers[key], preLot[key]), Here(bs2[key], qs2[key]), W)
    BY <2>4, <2>8, <1>1, <1>8
  <2>10. \A e \in Evs(qs2[key]) : e \in Evs(preLot[key]) \/ ~Named(k, e)
    BY <2>5, <2>8, <1>1, <1>8
  <2>11. \A m \in Keys \ {key} : bs2[m] = buffers[m] /\ qs2[m] = preLot[m]
    BY <2>8, <1>8
  <2>12. /\ Rowed(k, es[i].ev) /\ (States(k, es[i].ev) => key = es[i].ev.port)
         /\ (k = "mg" => key = es[i].ev.port)
    BY <1>1, <1>5d, <1>13
  <2>13. Moves(k, es, i, acc, W)
    BY <1>1, <2>8
  <2>14. Writes(k, es, i, W, key) /\ Shelved(k, acc, bs2, qs2)
    BY <1>2, <1>5a, <2>7, <2>9, <2>10, <2>11, <2>12, <2>13, ShelvedStep
  <2> QED BY <1>1, <1>8, <1>10, <2>3, <2>6, <2>8, <2>14
<1> QED BY <1>12, <1>13

(* What _dispatch_event does to the entries, the shelves and the tracker.   *)
LEMMA DispatchIs ==
    ASSUME NEW es, NEW i \in DOMAIN es, Ready(es), NEW refused \in BOOLEAN,
           Dispatch(es, i, refused)
    PROVE  /\ \E acc, W, key : Dispatched(es, i, refused, acc, W, key)
           /\ Attributed(es[i].ev)
<1>1. PICK ev, mapped, row, w :
        /\ ev = es[i].ev /\ mapped = Mapped(tool.kind, tracker, ev)
        /\ row = mapped.row
        /\ w = IF es[i].csv = "pending" THEN AppendRow(Writer, row) ELSE Writer
  OBVIOUS
<1>2. /\ tracker' = mapped.tracker
      /\ buffers' = w.buffers /\ preLot' = w.preLot /\ file' = w.file
      /\ owed' = Owing(Accounted(es, i, row.type, w.file.rows, refused))
      /\ last' = [given |-> row.port, true |-> ev.port,
                  sure |-> ev.port \notin missed /\ ~overtaken']
  <2>1. Mapped(tool.kind, tracker, es[i].ev) = mapped /\ mapped.row = row /\ es[i].ev = ev
    BY <1>1
  <2>2. (IF es[i].csv = "pending" THEN AppendRow(Writer, row) ELSE Writer) = w
    BY <1>1
  <2>3. tracker' = mapped.tracker /\ buffers' = w.buffers /\ preLot' = w.preLot /\ file' = w.file
    BY <2>1, <2>2 DEF Dispatch
  <2>4. owed' = Owing(Accounted(es, i, row.type, w.file.rows, refused))
    BY <2>1, <2>2 DEF Dispatch
  <2>5. last' = [given |-> row.port, true |-> ev.port,
                 sure |-> ev.port \notin missed /\ ~overtaken']
    <3>1. last' = [given |-> Mapped(tool.kind, tracker, es[i].ev).row.port,
                   true |-> es[i].ev.port,
                   sure |-> es[i].ev.port \notin missed /\ ~overtaken']
      BY Zenon DEF Dispatch
    <3>2. Mapped(tool.kind, tracker, es[i].ev).row.port = row.port /\ es[i].ev.port = ev.port
      BY <2>1
    <3>3. ASSUME NEW a, NEW b, NEW c, NEW d, NEW x, a = c, b = d
          PROVE  [given |-> a, true |-> b, sure |-> x] = [given |-> c, true |-> d, sure |-> x]
      BY <3>3
    <3> QED BY <3>1, <3>2, Zenon
  <2> QED BY <2>3, <2>4, <2>5
<1>3. /\ tool.kind \in Kinds /\ es \in Seq(Entry) /\ Uniq(es) /\ IsTracker(tracker)
      /\ PortsKnown(tracker) \subseteq Ports
      /\ ShelvesTyped(buffers, preLot) /\ ShelvesOK(buffers, preLot)
      /\ Shelved(tool.kind, es, buffers, preLot)
  BY DEF Ready
<1>4. ev \in Event /\ IsEvent(tool.kind, ev)
  BY <1>1, <1>3, EntryFacts, EventFacts
<1>5. /\ TracksPorts(tool.kind, ev, mapped.tracker, tracker)
      /\ TracksChambers(tool.kind, ev, mapped.tracker, tracker)
      /\ RowOf(tool.kind, ev, row, tracker)
  BY <1>1, <1>3, <1>4, MappedIs
<1>6. Attributed(es[i].ev)
  BY <1>1, <1>2, <1>5, Zenon DEF Attributed
<1>7. PICK acc, W : acc = Accounted(es, i, row.type, w.file.rows, refused) /\ W = Evs(w.file.rows)
  OBVIOUS
<1>8. acc \in Seq(Entry)
  <2>1. es \in Seq([ev : Event, publish : BOOLEAN, csv : {"pending", "held", "done"}])
    BY <1>3 DEF Entry
  <2>2. Accounted(es, i, row.type, w.file.rows, refused)
           \in Seq([ev : Event, publish : BOOLEAN, csv : {"pending", "held", "done"}])
    BY <2>1, AccountedType
  <2> QED BY <2>2, <1>7 DEF Entry
<1>9. Fits(tool.kind, ev, row, KeyOf(row))
  BY <1>3, <1>4, <1>5, RowFits
<1>10. Moves(tool.kind, es, i, acc, W) /\ OnlyPublishes(es, i, acc, refused)
  <2>1. row.type \in CsvEventTypes <=> Rowed(tool.kind, es[i].ev)
    BY <1>1, <1>9, Zenon DEF Fits
  <2>2. IsSeq(es)
    BY <1>3 DEF IsSeq
  <2>3. /\ Moves(tool.kind, es, i, Accounted(es, i, row.type, w.file.rows, refused), Evs(w.file.rows))
        /\ OnlyPublishes(es, i, Accounted(es, i, row.type, w.file.rows, refused), refused)
    BY <2>1, <2>2, AccountedIs
  <2> QED BY <2>3, <1>7
<1>11. /\ Writes(tool.kind, es, i, W, KeyOf(row))
       /\ Shelved(tool.kind, acc, w.buffers, w.preLot)
       /\ ShelvesTyped(w.buffers, w.preLot)
       /\ ShelvesOK(w.buffers, w.preLot) /\ FileOK(w.file)
  <2>1. CASE es[i].csv = "pending"
    <3>1. w = AppendRow(Writer, row)
      BY <2>1, <1>1, Zenon
    <3>2. RowOf(tool.kind, es[i].ev, row, tracker)
      BY <1>1, <1>5
    <3>3. Moves(tool.kind, es, i, acc, Evs(w.file.rows))
      BY <1>7, <1>10
    <3>4. /\ Writes(tool.kind, es, i, Evs(w.file.rows), KeyOf(row))
          /\ Shelved(tool.kind, acc, w.buffers, w.preLot)
          /\ ShelvesTyped(w.buffers, w.preLot)
          /\ ShelvesOK(w.buffers, w.preLot) /\ FileOK(w.file)
      BY <2>1, <3>1, <3>2, <3>3, AppendIsFine
    <3> QED BY <3>4, <1>7
  <2>2. CASE es[i].csv # "pending"
    <3>1. w = Writer
      BY <2>2, <1>1, Zenon
    <3>2. /\ w.buffers = buffers /\ w.preLot = preLot /\ w.file = NoFile
          /\ NoRows(NoFile)
      BY <3>1, <1>3, WriterIs DEF NoRows
    <3>3. FileOK(w.file) /\ W = {}
      BY <3>2, <1>7, NoFileOK DEF NoRows
    <3>4. Moves(tool.kind, es, i, acc, {})
      BY <3>3, <1>10
    <3>5. States(tool.kind, es[i].ev) => KeyOf(row) = es[i].ev.port
      BY <1>1, <1>9, Zenon DEF Fits
    <3>6. Writes(tool.kind, es, i, {}, KeyOf(row)) /\ Shelved(tool.kind, acc, buffers, preLot)
      BY <2>2, <3>4, <3>5, <1>3, ShelvedSame
    <3> QED BY <3>2, <3>3, <3>6, <1>3
  <2> QED BY <2>1, <2>2
<1>12. Dispatched(es, i, refused, acc, W, KeyOf(row))
  <2>1. owed' = Owing(acc)
    BY <1>2, <1>7
  <2>2. Shelved(tool.kind, acc, buffers', preLot') /\ ShelvesTyped(buffers', preLot')
        /\ ShelvesOK(buffers', preLot') /\ FileOK(file')
    BY <1>2, <1>11
  <2>3. /\ TracksPorts(tool.kind, es[i].ev, tracker', tracker)
        /\ TracksChambers(tool.kind, es[i].ev, tracker', tracker)
    BY <1>1, <1>2, <1>5
  <2> QED BY <1>8, <1>10, <1>11, <2>1, <2>2, <2>3 DEF Dispatched
<1> QED BY <1>6, <1>12

(***************************************************************************)
(* The scripts.                                                            *)
(***************************************************************************)
Distinct(s) == \A i, j \in DOMAIN s : s[i] = s[j] => i = j

\* The script of the MG.
LEMMA MgScriptIs ==
    /\ Len(MgScript) = 12 /\ DOMAIN MgScript = 1 .. 12
    /\ MgScript \in Seq(MgNames)
    /\ MgScript[6] = "pmWaferStarted" /\ MgScript[7] = "pmStepStarted"
    /\ MgScript[12] = "portCasRemoved"
<1>1. MgScript \in Seq(MgNames)
  BY DEF MgScript, MgNames
<1>2. Len(MgScript) = 12 /\ MgScript[6] = "pmWaferStarted" /\ MgScript[7] = "pmStepStarted"
      /\ MgScript[12] = "portCasRemoved"
  BY DEF MgScript
<1> QED BY <1>1, <1>2, LenProperties

\* Every event of the MG script happens once a lot.
LEMMA MgScriptDistinct == Distinct(MgScript)
<1> SUFFICES ASSUME NEW i \in 1 .. 12, NEW j \in 1 .. 12, MgScript[i] = MgScript[j] PROVE i = j
  BY MgScriptIs DEF Distinct
<1> QED BY DEF MgScript

\* The script of the DaVinci.
LEMMA DavinciScriptIs ==
    /\ Len(DavinciScript) = 11 /\ DOMAIN DavinciScript = 1 .. 11
    /\ DavinciScript \in Seq(DavinciNames)
    /\ DavinciScript[11] = "MaterialRemoved"
<1>1. DavinciScript \in Seq(DavinciNames)
  BY DEF DavinciScript, DavinciNames
<1>2. Len(DavinciScript) = 11 /\ DavinciScript[11] = "MaterialRemoved"
  BY DEF DavinciScript
<1> QED BY <1>1, <1>2, LenProperties

\* Every event of the DaVinci script happens once a lot.
LEMMA DavinciScriptDistinct == Distinct(DavinciScript)
<1> SUFFICES ASSUME NEW i \in 1 .. 11, NEW j \in 1 .. 11, DavinciScript[i] = DavinciScript[j] PROVE i = j
  BY DavinciScriptIs DEF Distinct
<1> QED BY DEF DavinciScript

\* The part of the MG script that is kept has the same order and end.
LEMMA MgStepsIs ==
    /\ MgSteps \in Seq(MgNames) /\ Distinct(MgSteps)
    /\ Len(MgSteps) \in Nat \ {0} /\ MgSteps[Len(MgSteps)] = "portCasRemoved"
    /\ \A x \in DOMAIN MgSteps : MgSteps[x] = "pmStepStarted" =>
          x - 1 \in DOMAIN MgSteps /\ MgSteps[x - 1] = "pmWaferStarted"
<1>1. PICK I : I = {i \in DOMAIN MgScript : MgScript[i] \in MgEvents}
  OBVIOUS
<1>2. MgSteps = Keep(MgScript, I)
  BY <1>1 DEF MgSteps
<1>3. PICK s : s = MgSteps
  OBVIOUS
<1>4. s \in Seq(MgNames) /\ \E k : Places(MgScript, I, Len(MgScript), s, k)
  BY <1>2, <1>3, MgScriptIs, KeepPlaces
<1>5. PICK k : Places(MgScript, I, Len(MgScript), s, k)
  BY <1>4
<1>6. Len(s) \in Nat /\ DOMAIN s = 1 .. Len(s)
  BY <1>4, LenProperties
<1>7. /\ \A i \in 1 .. Len(s) : k[i] \in 1 .. 12 /\ k[i] \in I /\ s[i] = MgScript[k[i]]
      /\ \A i, j \in 1 .. Len(s) : i < j => k[i] < k[j]
      /\ \A m \in 1 .. 12 : m \in I => \E i \in 1 .. Len(s) : k[i] = m
  BY <1>5, MgScriptIs DEF Places
<1>8. Distinct(s)
  <2> SUFFICES ASSUME NEW i \in 1 .. Len(s), NEW j \in 1 .. Len(s), s[i] = s[j] PROVE i = j
    BY <1>6 DEF Distinct
  <2>1. k[i] \in 1 .. 12 /\ k[j] \in 1 .. 12 /\ MgScript[k[i]] = MgScript[k[j]]
    <3>1. k[i] \in 1 .. 12 /\ s[i] = MgScript[k[i]]
      BY <1>7
    <3>2. k[j] \in 1 .. 12 /\ s[j] = MgScript[k[j]]
      BY <1>7
    <3>3. s[i] = s[j]
      OBVIOUS
    <3> QED BY <3>1, <3>2, <3>3
  <2>2. k[i] = k[j]
    BY <2>1, MgScriptDistinct, MgScriptIs DEF Distinct
  <2>3. (i < j => k[i] < k[j]) /\ (j < i => k[j] < k[i])
    BY <1>7
  <2>4. i \in Nat /\ j \in Nat
    BY <1>6
  <2> QED BY <2>1, <2>2, <2>3, <2>4
<1>9. 12 \in I
  BY <1>1, MgScriptIs, ScriptAssumption
<1>10. PICK z \in 1 .. Len(s) : k[z] = 12
  BY <1>7, <1>9
<1>11. z = Len(s)
  <2>1. Len(s) \in 1 .. Len(s)
    BY <1>6, <1>10
  <2>2. k[Len(s)] \in 1 .. 12
    BY <1>7, <2>1
  <2>3. z < Len(s) => k[z] < k[Len(s)]
    BY <1>7, <2>1
  <2>4. z \in Nat /\ z <= Len(s)
    BY <1>6
  <2>5. Len(s) \in Nat
    BY <1>6
  <2>6. ~(z < Len(s))
    BY <1>10, <2>2, <2>3
  <2> QED BY <2>4, <2>5, <2>6
<1>12. s[Len(s)] = "portCasRemoved" /\ Len(s) # 0
  BY <1>6, <1>7, <1>10, <1>11, MgScriptIs
<1>13. ASSUME NEW x \in 1 .. Len(s), s[x] = "pmStepStarted"
       PROVE  x - 1 \in 1 .. Len(s) /\ s[x - 1] = "pmWaferStarted"
  <2>1. k[x] \in 1 .. 12 /\ k[x] \in I /\ MgScript[k[x]] = MgScript[7]
    BY <1>7, <1>13, MgScriptIs
  <2>2. k[x] = 7 /\ "pmStepStarted" \in MgEvents
    BY <2>1, <1>1, MgScriptIs, MgScriptDistinct DEF Distinct
  <2>3. 6 \in I
    BY <2>2, <1>1, MgScriptIs, ScriptAssumption
  <2>4. PICK y \in 1 .. Len(s) : k[y] = 6
    BY <1>7, <2>3
  <2>5. y < x
    BY <1>6, <1>7, <2>2, <2>4
  <2>6. y + 1 = x
    <3>1. ASSUME y + 1 < x PROVE FALSE
      <4>1. y + 1 \in 1 .. Len(s)
        BY <1>6, <3>1
      <4>2. k[y] < k[y + 1] /\ k[y + 1] < k[x] /\ k[y + 1] \in 1 .. 12
        BY <1>7, <3>1, <4>1, <1>6
      <4> QED BY <2>2, <2>4, <4>2
    <3> QED BY <3>1, <2>5, <1>6
  <2>7. x - 1 = y
    BY <2>6, <1>6
  <2>8. s[y] = MgScript[6]
    BY <2>4, <1>7
  <2> QED BY <2>7, <2>8, MgScriptIs
<1> QED BY <1>3, <1>4, <1>6, <1>8, <1>12, <1>13

\* What the proofs need of a script.
LEMMA ScriptIs ==
    ASSUME tool.kind \in Kinds
    PROVE  /\ Script \in Seq(Names(tool.kind)) /\ Distinct(Script)
           /\ Len(Script) \in Nat \ {0} /\ DOMAIN Script = 1 .. Len(Script)
           /\ \A ev : IsEvent(tool.kind, ev) /\ ev.name = Script[Len(Script)] => Unloads(tool.kind, ev)
           /\ tool.kind = "mg" => \A x \in DOMAIN Script : Script[x] = "pmStepStarted" =>
                 x - 1 \in DOMAIN Script /\ Script[x - 1] = "pmWaferStarted"
<1>1. CASE tool.kind = "mg"
  <2>1. Script = MgSteps
    BY <1>1 DEF Script
  <2>2. Names(tool.kind) = MgNames
    BY <1>1, NamesAre
  <2>3. DOMAIN MgSteps = 1 .. Len(MgSteps)
    BY MgStepsIs, LenProperties
  <2>4. \A ev : IsEvent(tool.kind, ev) /\ ev.name = Script[Len(Script)] => Unloads(tool.kind, ev)
    BY <1>1, <2>1, MgStepsIs, LastUnloads
  <2> QED BY <2>1, <2>2, <2>3, <2>4, MgStepsIs
<1>2. CASE tool.kind = "davinci"
  <2>1. Script = DavinciScript
    BY <1>2 DEF Script
  <2>2. Names(tool.kind) = DavinciNames
    BY <1>2, NamesAre
  <2>3. \A ev : IsEvent(tool.kind, ev) /\ ev.name = Script[Len(Script)] => Unloads(tool.kind, ev)
    BY <1>2, <2>1, DavinciScriptIs, LastUnloads
  <2> QED BY <1>2, <2>1, <2>2, <2>3, DavinciScriptIs, DavinciScriptDistinct
<1> QED BY <1>1, <1>2 DEF Kinds

(***************************************************************************)
(* The tool's steps.                                                       *)
(***************************************************************************)
AllPorts == MgPorts \cup {"1"}
Modules0 == Modules \cup {"NA"}

LotsTyped == lots \in [AllPorts -> [at : Nat, lot : Nat, pm : Modules0]]

\* A finite set can be numbered.
LEMMA OrderIs ==
    ASSUME NEW S, IsFiniteSet(S)
    PROVE  LET order == CHOOSE o \in [S -> 1 .. Cardinality(S)] :
                          \A p, q \in S : p # q => o[p] # o[q]
           IN  order \in [S -> 1 .. Cardinality(S)] /\ Cardinality(S) \in Nat
<1>1. Cardinality(S) \in Nat /\ ExistsBijection(1 .. Cardinality(S), S)
  BY FS_CardinalityType
<1>2. PICK f : f \in Bijection(1 .. Cardinality(S), S)
  BY <1>1 DEF ExistsBijection
<1>3. /\ f \in [1 .. Cardinality(S) -> S]
      /\ \A a, b \in 1 .. Cardinality(S) : f[a] = f[b] => a = b
      /\ \A t \in S : \E a \in 1 .. Cardinality(S) : f[a] = t
  BY <1>2 DEF Bijection, Injection, Surjection, IsInjective
<1>4. PICK g : g = [p \in S |-> CHOOSE a \in 1 .. Cardinality(S) : f[a] = p]
  OBVIOUS
<1>5. \A p \in S : g[p] \in 1 .. Cardinality(S) /\ f[g[p]] = p
  BY <1>3, <1>4
<1>6. g \in [S -> 1 .. Cardinality(S)]
  BY <1>4, <1>5
<1>7. \A p, q \in S : p # q => g[p] # g[q]
  BY <1>5
<1> QED BY <1>1, <1>6, <1>7

\* There are finitely many ports.
LEMMA FinitePorts == IsFiniteSet(Ports)
<1>1. IsFiniteSet(MgPorts)
  BY ToolAssumption
<1>2. IsFiniteSet({"1"})
  BY FS_Singleton
<1> QED BY <1>1, <1>2 DEF Ports

(***************************************************************************)
(* What the journal still owes.                                            *)
(***************************************************************************)
OwesEntry(e) == e.publish \/ e.csv # "done"
Owes(es) == \A i \in DOMAIN es : OwesEntry(es[i])

\* k is the place in acc of each entry of o.
Sifted(acc, o, k) ==
    /\ k \in [1 .. Len(o) -> 1 .. Len(acc)]
    /\ \A i \in 1 .. Len(o) : o[i] = acc[k[i]] /\ OwesEntry(acc[k[i]])
    /\ \A i, j \in 1 .. Len(o) : i < j => k[i] < k[j]
    /\ \A m \in 1 .. Len(acc) : OwesEntry(acc[m]) => \E i \in 1 .. Len(o) : k[i] = m

\* The entries that are owed, in their order.
LEMMA OwingIs ==
    ASSUME NEW X, NEW acc \in Seq(X), NEW o, o = Owing(acc)
    PROVE  /\ o \in Seq(X) /\ DOMAIN o = 1 .. Len(o) /\ Len(o) \in Nat
           /\ DOMAIN acc = 1 .. Len(acc) /\ Len(acc) \in Nat
           /\ \E k : Sifted(acc, o, k)
<1>1. PICK I : I = {i \in DOMAIN acc : acc[i].publish \/ acc[i].csv # "done"}
  OBVIOUS
<1>2. o = Keep(acc, I)
  BY <1>1 DEF Owing
<1>3. o \in Seq(X) /\ \E k : Places(acc, I, Len(acc), o, k)
  BY <1>2, KeepPlaces
<1>4. PICK k : Places(acc, I, Len(acc), o, k)
  BY <1>3
<1>5. DOMAIN acc = 1 .. Len(acc) /\ Len(acc) \in Nat
  BY LenProperties
<1>6. \A m \in 1 .. Len(acc) : m \in I <=> OwesEntry(acc[m])
  BY <1>1, <1>5 DEF OwesEntry
<1>7. Sifted(acc, o, k)
  BY <1>4, <1>6 DEF Places, Sifted
<1>8. DOMAIN o = 1 .. Len(o) /\ Len(o) \in Nat
  BY <1>3, LenProperties
<1> QED BY <1>3, <1>5, <1>7, <1>8

\* Owing adds nothing.
LEMMA SiftedBaseOnly ==
    ASSUME NEW X, NEW acc \in Seq(X), NEW o, o = Owing(acc)
    PROVE  \A j \in DOMAIN o : \E l \in DOMAIN acc : o[j] = acc[l]
<1>1. PICK k : Sifted(acc, o, k)
  BY OwingIs
<1>2. DOMAIN o = 1 .. Len(o) /\ DOMAIN acc = 1 .. Len(acc)
  BY OwingIs
<1> QED BY <1>1, <1>2 DEF Sifted

\* Owing keeps what owes, and each entry once.
LEMMA SiftedBase ==
    ASSUME NEW X, NEW acc \in Seq(X), NEW o, o = Owing(acc), Uniq(acc)
    PROVE  /\ Uniq(o) /\ Owes(o)
           /\ \A j \in DOMAIN o : \E l \in DOMAIN acc : o[j] = acc[l]
           /\ \A l \in DOMAIN acc : OwesEntry(acc[l]) => \E j \in DOMAIN o : o[j] = acc[l]
<1>1. PICK k : Sifted(acc, o, k)
  BY OwingIs
<1>2. DOMAIN o = 1 .. Len(o) /\ Len(o) \in Nat /\ DOMAIN acc = 1 .. Len(acc) /\ Len(acc) \in Nat
  BY OwingIs
<1>3. /\ \A i \in DOMAIN o : k[i] \in DOMAIN acc /\ o[i] = acc[k[i]] /\ OwesEntry(acc[k[i]])
      /\ \A i, j \in 1 .. Len(o) : i < j => k[i] < k[j]
      /\ \A m \in DOMAIN acc : OwesEntry(acc[m]) => \E i \in DOMAIN o : k[i] = m
  BY <1>1, <1>2 DEF Sifted
<1>4. Uniq(o)
  <2> SUFFICES ASSUME NEW i \in DOMAIN o, NEW j \in DOMAIN o, o[i].ev = o[j].ev PROVE i = j
    BY DEF Uniq
  <2>1. k[i] = k[j]
    BY <1>3 DEF Uniq
  <2>2. i \in Nat /\ j \in Nat /\ k[i] \in Nat /\ k[j] \in Nat
    BY <1>2, <1>3
  <2>3. (i < j => k[i] < k[j]) /\ (j < i => k[j] < k[i])
    BY <1>2, <1>3
  <2> QED BY <2>1, <2>2, <2>3
<1>5. Owes(o)
  BY <1>3 DEF Owes
<1>6. \A l \in DOMAIN acc : OwesEntry(acc[l]) => \E j \in DOMAIN o : o[j] = acc[l]
  BY <1>3
<1> QED BY <1>3, <1>4, <1>5, <1>6

\* Owing drops no held row.
LEMMA SiftedShelved ==
    ASSUME NEW X, NEW acc \in Seq(X), NEW o, o = Owing(acc), Uniq(acc),
           NEW kind, NEW bs, NEW qs, Shelved(kind, acc, bs, qs)
    PROVE  Shelved(kind, o, bs, qs)
<1>1. /\ \A j \in DOMAIN o : \E l \in DOMAIN acc : o[j] = acc[l]
      /\ \A l \in DOMAIN acc : OwesEntry(acc[l]) => \E j \in DOMAIN o : o[j] = acc[l]
  BY SiftedBase
<1>2. \A l \in DOMAIN acc : acc[l].csv = "held" => OwesEntry(acc[l])
  BY DEF OwesEntry
<1>3. ShelvedHeld(acc, bs, qs) /\ ShelvedApart(kind, bs, qs) /\ HeldShelved(kind, acc, bs, qs)
  BY DEF Shelved
<1>4. ShelvedHeld(o, bs, qs)
  <2> SUFFICES ASSUME NEW m \in Keys, NEW ev \in Here(bs[m], qs[m])
               PROVE  \E j \in DOMAIN o : o[j].ev = ev /\ o[j].csv = "held"
    BY DEF ShelvedHeld
  <2>1. PICK l \in DOMAIN acc : acc[l].ev = ev /\ acc[l].csv = "held"
    BY <1>3 DEF ShelvedHeld
  <2>2. PICK j \in DOMAIN o : o[j] = acc[l]
    BY <1>1, <1>2, <2>1
  <2> QED BY <2>1, <2>2
<1>5. HeldShelved(kind, o, bs, qs)
  <2> SUFFICES ASSUME NEW j \in DOMAIN o, o[j].csv = "held", States(kind, o[j].ev)
               PROVE  o[j].ev \in Here(bs[o[j].ev.port], qs[o[j].ev.port])
    BY DEF HeldShelved
  <2>1. PICK l \in DOMAIN acc : o[j] = acc[l]
    BY <1>1
  <2> QED BY <1>3, <2>1 DEF HeldShelved
<1> QED BY <1>3, <1>4, <1>5 DEF Shelved

\* The part of the invariant that holds whatever is lost or overtaken.
HostInv ==
    /\ owed \in Seq(Entry) /\ Uniq(owed) /\ Owes(owed)
    /\ IsTracker(tracker) /\ PortsKnown(tracker) \subseteq Ports
    /\ ShelvesTyped(buffers, preLot) /\ ShelvesOK(buffers, preLot)
    /\ Shelved(tool.kind, owed, buffers, preLot)

\* What depends on the machine alone.
LEMMA SameTool ==
    ASSUME tool' = tool
    PROVE  Ports' = Ports /\ Script' = Script /\ Event' = Event /\ Row' = Row /\ Entry' = Entry
<1>1. Ports' = Ports /\ Script' = Script
  BY DEF Ports, Script
<1>2. Event' = Event
  BY <1>1 DEF Event
<1>3. Row' = Row /\ Entry' = Entry
  BY <1>2 DEF Row, Entry
<1> QED BY <1>1, <1>2, <1>3

\* The events that are owed are among those of es.
Among(o, es) == \A j \in DOMAIN o : \E l \in DOMAIN es : o[j].ev = es[l].ev

\* Dispatching an entry keeps shelves, file and entries in order.
LEMMA DispatchBase ==
    ASSUME NEW es, NEW i \in DOMAIN es, Ready(es), NEW refused \in BOOLEAN,
           Dispatch(es, i, refused), tool' = tool
    PROVE  HostInv' /\ FileOK(file') /\ Among(owed', es)
<1>1. PICK acc, W, key : Dispatched(es, i, refused, acc, W, key)
  BY DispatchIs
<1>2. /\ acc \in Seq(Entry) /\ owed' = Owing(acc)
      /\ Moves(tool.kind, es, i, acc, W)
      /\ Shelved(tool.kind, acc, buffers', preLot')
      /\ ShelvesTyped(buffers', preLot')
      /\ ShelvesOK(buffers', preLot') /\ FileOK(file')
      /\ TracksPorts(tool.kind, es[i].ev, tracker', tracker)
  BY <1>1 DEF Dispatched
<1>3. /\ tool.kind \in Kinds /\ es \in Seq(Entry) /\ Uniq(es)
      /\ PortsKnown(tracker) \subseteq Ports
  BY DEF Ready
<1>4. DOMAIN acc = DOMAIN es /\ \A j \in DOMAIN es : acc[j].ev = es[j].ev
  BY <1>2 DEF Moves
<1>5. Uniq(acc)
  BY <1>3, <1>4 DEF Uniq
<1>6. PICK o : o = Owing(acc)
  OBVIOUS
<1>7. /\ o \in Seq(Entry) /\ Uniq(o) /\ Owes(o)
      /\ \A j \in DOMAIN o : \E l \in DOMAIN acc : o[j] = acc[l]
  BY <1>2, <1>5, <1>6, OwingIs, SiftedBase
<1>8. Shelved(tool.kind, o, buffers', preLot')
  BY <1>2, <1>5, <1>6, SiftedShelved
<1>9. Among(o, es)
  BY <1>4, <1>7 DEF Among
<1>10. IsTracker(tracker') /\ PortsKnown(tracker') \subseteq Ports
  <2>1. es[i].ev.port \in Ports
    BY <1>3, EntryFacts, EventFacts
  <2> QED BY <2>1, <1>2, <1>3 DEF TracksPorts
<1>11. owed' = o
  BY <1>2, <1>6
<1>12. Ports' = Ports /\ Entry' = Entry /\ Row' = Row
  BY SameTool
<1>13. owed' \in Seq(Entry') /\ Uniq(owed') /\ Owes(owed')
  BY <1>7, <1>11, <1>12
<1>14. ShelvesTyped(buffers, preLot)'
  BY <1>2, <1>12 DEF ShelvesTyped
<1>15. /\ Shelved(tool.kind, owed, buffers, preLot)'
       /\ ShelvesOK(buffers, preLot)'
       /\ IsTracker(tracker)' /\ Uniq(owed)' /\ Owes(owed)'
  BY <1>2, <1>8, <1>10, <1>11, <1>13
<1>16. PortsKnown(tracker)' \subseteq Ports'
  BY <1>10, <1>12
<1> QED BY <1>2, <1>9, <1>11, <1>13, <1>14, <1>15, <1>16 DEF HostInv

ToolTyped ==
    /\ tool.kind \in Kinds /\ linked \in BOOLEAN
    /\ main \in {"waiting", "lots"} /\ started \in Nat /\ LotsTyped

\* A carrier is on the port from its placement to its removal.
Active(p) == lots[p].at > 1 /\ ~Finished(p)

ToolInv ==
    /\ \A p \in Ports : lots[p].lot <= started
    /\ \A p, q \in Ports : p # q /\ lots[p].pm = lots[q].pm => lots[p].pm = "NA"
    /\ \A p \in Ports : AtStep(p, "pmStepStarted") => lots[p].pm # "NA"
    /\ main = "waiting" => \A p \in Ports : ~Active(p)

SameLots(P) == \A q \in P : lots'[q] = lots[q]

\* A batch starts: every port has a new lot.
Starts ==
    /\ tool' = tool /\ linked /\ linked' = linked /\ main' = "lots"
    /\ started' \in Nat /\ LotsTyped'
    /\ \A p \in Ports : ~Active(p)
    /\ \A p \in Ports : /\ lots'[p].at = 1 /\ lots'[p].pm = "NA"
                        /\ started < lots'[p].lot /\ lots'[p].lot <= started'

\* The lot of port p goes on to position at, in module pm.
Goes(p, at, pm) ==
    /\ tool' = tool /\ linked' = linked /\ main' = main /\ started' = started
    /\ LotsTyped' /\ SameLots(AllPorts \ {p})
    /\ lots'[p].at = at /\ lots'[p].lot = lots[p].lot /\ lots'[p].pm = pm

\* The ports of the tool are among those that have a lot.
LEMMA PortsAll == Ports \subseteq AllPorts
BY DEF Ports, AllPorts

\* The types of one lot.
LEMMA LotIs ==
    ASSUME LotsTyped, NEW p \in AllPorts
    PROVE  lots[p].at \in Nat /\ lots[p].lot \in Nat /\ lots[p].pm \in Modules0
BY DEF LotsTyped

\* One lot changes.
LEMMA PutLot ==
    ASSUME LotsTyped, NEW p \in AllPorts, NEW at \in Nat, NEW pm \in Modules0,
           lots' = [lots EXCEPT ![p] = [at |-> at, lot |-> lots[p].lot, pm |-> pm]],
           UNCHANGED <<tool, linked, main, started>>
    PROVE  Goes(p, at, pm)
<1>1. lots[p].lot \in Nat
  BY LotIs
<1>2. PICK r : r = [at |-> at, lot |-> lots[p].lot, pm |-> pm]
  OBVIOUS
<1>3. r \in [at : Nat, lot : Nat, pm : Modules0]
  BY <1>1, <1>2
<1>4. lots' = [lots EXCEPT ![p] = r]
  BY <1>2
<1>5. lots' \in [AllPorts -> [at : Nat, lot : Nat, pm : Modules0]]
  BY <1>3, <1>4 DEF LotsTyped
<1>6. LotsTyped'
  BY <1>5 DEF LotsTyped, AllPorts, Modules0
<1>7. lots'[p] = r /\ SameLots(AllPorts \ {p})
  BY <1>4 DEF LotsTyped, SameLots
<1>8. lots'[p].at = at /\ lots'[p].lot = lots[p].lot /\ lots'[p].pm = pm
  BY <1>2, <1>7
<1> QED BY <1>6, <1>7, <1>8 DEF Goes

\* Advance in terms of Goes.
LEMMA AdvanceIs ==
    ASSUME LotsTyped, NEW p \in Ports, NEW pm \in Modules0, Advance(p, pm)
    PROVE  Goes(p, lots[p].at + 1, IF AtStep(p, "pmWaferFinished") THEN "NA" ELSE pm)
<1>1. PICK m : m = IF AtStep(p, "pmWaferFinished") THEN "NA" ELSE pm
  OBVIOUS
<1>2. m \in Modules0 /\ p \in AllPorts
  BY <1>1, PortsAll DEF Modules0
<1>3. lots' = [lots EXCEPT ![p] = [at |-> lots[p].at + 1, lot |-> lots[p].lot, pm |-> m]]
  BY <1>1, <1>2 DEF Advance, LotsTyped
<1>4. lots[p].at + 1 \in Nat
  BY <1>2, LotIs
<1>5. UNCHANGED <<tool, linked, main, started>>
  BY DEF Advance
<1>6. Goes(p, lots[p].at + 1, m)
  BY <1>2, <1>3, <1>4, <1>5, PutLot
<1> QED BY <1>1, <1>6

\* Abandon in terms of Goes.
LEMMA AbandonIs ==
    ASSUME LotsTyped, tool.kind \in Kinds, NEW p \in Ports, Abandon(p)
    PROVE  Goes(p, Len(Script) + 1, "NA")
<1>2. p \in AllPorts /\ "NA" \in Modules0
  BY PortsAll DEF Modules0
<1>3. lots' = [lots EXCEPT ![p] = [at |-> Len(Script) + 1, lot |-> lots[p].lot, pm |-> "NA"]]
  BY <1>2 DEF Abandon, LotsTyped
<1>4. Len(Script) + 1 \in Nat
  BY ScriptIs
<1>5. UNCHANGED <<tool, linked, main, started>>
  BY DEF Abandon
<1> QED BY <1>2, <1>3, <1>4, <1>5, PutLot

\* A batch of the MG in terms of Starts.
LEMMA BatchIs ==
    ASSUME ToolTyped, ToolInv, MgBatch
    PROVE  Starts
<1>1. PICK order : order = CHOOSE o \in [Ports -> 1 .. Cardinality(Ports)] :
                 \A p, q \in Ports : p # q => o[p] # o[q]
  OBVIOUS
<1>2. order \in [Ports -> 1 .. Cardinality(Ports)] /\ Cardinality(Ports) \in Nat
  BY <1>1, FinitePorts, OrderIs
<1>3. /\ tool.kind = "mg" /\ main = "waiting" /\ linked
      /\ main' = "lots" /\ started' = started + Cardinality(Ports)
      /\ UNCHANGED <<tool, linked>>
  BY DEF MgBatch
<1>4. lots' = [p \in DOMAIN lots |->
                 IF p \in Ports
                 THEN [at |-> 1, lot |-> started + order[p], pm |-> "NA"]
                 ELSE NoLot]
  BY <1>1 DEF MgBatch
<1>5. started \in Nat /\ DOMAIN lots = AllPorts
  BY DEF ToolTyped, LotsTyped
<1>6. \A p \in Ports : order[p] \in 1 .. Cardinality(Ports)
  BY <1>2
<1>7. ASSUME NEW p \in AllPorts
      PROVE  lots'[p] \in [at : Nat, lot : Nat, pm : Modules0]
  <2>1. CASE p \in Ports
    <3>1. PICK n : n = started + order[p]
      OBVIOUS
    <3>2. n \in Nat
      BY <3>1, <2>1, <1>2, <1>5, <1>6
    <3>3. lots'[p] = [at |-> 1, lot |-> n, pm |-> "NA"]
      BY <2>1, <3>1, <1>4, <1>5
    <3> QED BY <3>2, <3>3 DEF Modules0
  <2>2. CASE p \notin Ports
    BY <2>2, <1>4, <1>5 DEF NoLot, Modules0
  <2> QED BY <2>1, <2>2
<1>8. lots' = [p \in AllPorts |-> lots'[p]]
  BY <1>4, <1>5
<1>9. LotsTyped'
  BY <1>7, <1>8 DEF LotsTyped, AllPorts, Modules0
<1>10. ASSUME NEW p \in Ports
       PROVE  /\ lots'[p].at = 1 /\ lots'[p].pm = "NA"
              /\ started < lots'[p].lot /\ lots'[p].lot <= started'
  <2>1. p \in AllPorts
    BY PortsAll
  <2>2. PICK n : n = started + order[p]
    OBVIOUS
  <2>3. lots'[p] = [at |-> 1, lot |-> n, pm |-> "NA"]
    BY <2>1, <2>2, <1>4, <1>5
  <2>4. lots'[p].at = 1 /\ lots'[p].pm = "NA" /\ lots'[p].lot = n
    BY <2>3
  <2>5. order[p] \in 1 .. Cardinality(Ports)
    BY <1>6
  <2>6. started < n /\ n <= started'
    BY <2>2, <2>5, <1>2, <1>3, <1>5
  <2> QED BY <2>4, <2>6
<1>11. \A p \in Ports : ~Active(p)
  BY <1>3 DEF ToolInv
<1>12. started' \in Nat
  BY <1>2, <1>3, <1>5
<1> QED BY <1>3, <1>9, <1>10, <1>11, <1>12 DEF Starts

\* A lot of the DaVinci in terms of Starts.
LEMMA DavinciIs ==
    ASSUME ToolTyped, ToolInv, DavinciLot
    PROVE  Starts
<1>1. /\ tool.kind = "davinci" /\ linked /\ (main = "waiting" \/ Finished("1"))
      /\ started' = started + 1 /\ main' = "lots" /\ UNCHANGED <<tool, linked>>
      /\ lots' = [lots EXCEPT !["1"] = [at |-> 1, lot |-> started + 1, pm |-> "NA"]]
  BY DEF DavinciLot
<1>2. Ports = {"1"}
  BY <1>1, PortsAre
<1>3. started \in Nat /\ LotsTyped
  BY DEF ToolTyped
<1>4. PICK r : r = [at |-> 1, lot |-> started + 1, pm |-> "NA"]
  OBVIOUS
<1>5. r \in [at : Nat, lot : Nat, pm : Modules0] /\ r.at = 1 /\ r.lot = started + 1 /\ r.pm = "NA"
  BY <1>3, <1>4 DEF Modules0
<1>6. lots' = [lots EXCEPT !["1"] = r]
  BY <1>1, <1>4
<1>7. lots' \in [AllPorts -> [at : Nat, lot : Nat, pm : Modules0]]
  BY <1>3, <1>5, <1>6 DEF LotsTyped
<1>8. lots'["1"] = r
  BY <1>3, <1>6 DEF LotsTyped, AllPorts
<1>9. LotsTyped'
  BY <1>7 DEF LotsTyped, AllPorts, Modules0
<1>10. \A p \in Ports : ~Active(p)
  BY <1>1, <1>2 DEF ToolInv, Active
<1>11. started' \in Nat /\ started < r.lot /\ r.lot <= started'
  BY <1>1, <1>3, <1>5
<1> QED BY <1>1, <1>2, <1>5, <1>8, <1>9, <1>10, <1>11 DEF Starts

\* A step comes right after a wafer start, and only an MG has them.
LEMMA StepPlace ==
    ASSUME tool.kind \in Kinds, NEW x \in DOMAIN Script, Script[x] = "pmStepStarted"
    PROVE  /\ tool.kind = "mg"
           /\ x - 1 \in DOMAIN Script /\ Script[x - 1] = "pmWaferStarted"
<1>1. CASE tool.kind = "mg"
  BY <1>1, ScriptIs
<1>2. CASE tool.kind = "davinci"
  <2>1. Script \in Seq(DavinciNames)
    BY <1>2, ScriptIs, NamesAre
  <2>2. Script[x] \in DavinciNames
    BY <2>1, ElementOfSeq, LenProperties
  <2> QED BY <2>2 DEF DavinciNames
<1> QED BY <1>1, <1>2 DEF Kinds

\* Lots that start keep the invariant of the tool.
LEMMA StartsInv ==
    ASSUME ToolTyped, Starts
    PROVE  ToolTyped' /\ ToolInv'
<1>1. /\ tool' = tool /\ linked' = linked /\ main' = "lots" /\ started' \in Nat /\ LotsTyped'
      /\ \A p \in Ports : /\ lots'[p].at = 1 /\ lots'[p].pm = "NA"
                          /\ started < lots'[p].lot /\ lots'[p].lot <= started'
  BY DEF Starts
<1>2. Ports' = Ports /\ Script' = Script
  BY <1>1, SameTool
<1>3. ToolTyped'
  BY <1>1 DEF ToolTyped
<1>4. ASSUME NEW p \in Ports PROVE ~AtStep(p, "pmStepStarted")'
  <2>1. tool.kind \in Kinds
    BY DEF ToolTyped
  <2>2. lots'[p].at = 1
    BY <1>1
  <2>3. ~(1 \in DOMAIN Script /\ Script[1] = "pmStepStarted")
    <3>1. ASSUME 1 \in DOMAIN Script, Script[1] = "pmStepStarted" PROVE FALSE
      <4>1. 1 - 1 \in DOMAIN Script
        BY <2>1, <3>1, StepPlace
      <4>2. DOMAIN Script = 1 .. Len(Script)
        BY <2>1, ScriptIs
      <4> QED BY <4>1, <4>2
    <3> QED BY <3>1
  <2> QED BY <1>2, <2>2, <2>3 DEF AtStep
<1>5. ToolInv'
  BY <1>1, <1>2, <1>4 DEF ToolInv
<1> QED BY <1>3, <1>5

\* A lot goes on to a later position, its wafer in its module or in none.
LEMMA GoesInv ==
    ASSUME ToolTyped, ToolInv, NEW p \in Ports, ReadyToFire(p),
           NEW at \in Nat, NEW pm, Goes(p, at, pm),
           \A q \in Ports \ {p} : lots[q].pm = pm => pm = "NA",
           at \in DOMAIN Script /\ Script[at] = "pmStepStarted" => pm # "NA"
    PROVE  ToolTyped' /\ ToolInv'
<1>1. /\ tool' = tool /\ linked' = linked /\ main' = main /\ started' = started
      /\ LotsTyped' /\ SameLots(AllPorts \ {p})
      /\ lots'[p].at = at /\ lots'[p].lot = lots[p].lot /\ lots'[p].pm = pm
  BY DEF Goes
<1>2. Ports' = Ports /\ Script' = Script
  BY <1>1, SameTool
<1>3. ToolTyped'
  BY <1>1 DEF ToolTyped
<1>4. \A q \in Ports \ {p} : lots'[q] = lots[q]
  BY <1>1, PortsAll DEF SameLots
<1>5. main' = "lots"
  BY <1>1 DEF ReadyToFire
<1>6. \A q \in Ports : lots'[q].lot <= started'
  BY <1>1, <1>4 DEF ToolInv
<1>7. \A q, r \in Ports : q # r /\ lots'[q].pm = lots'[r].pm => lots'[q].pm = "NA"
  <2> SUFFICES ASSUME NEW q \in Ports, NEW r \in Ports, q # r, lots'[q].pm = lots'[r].pm
               PROVE  lots'[q].pm = "NA"
    OBVIOUS
  <2>1. CASE q = p
    BY <2>1, <1>1, <1>4
  <2>2. CASE r = p
    BY <2>2, <1>1, <1>4
  <2>3. CASE q # p /\ r # p
    BY <2>3, <1>4 DEF ToolInv
  <2> QED BY <2>1, <2>2, <2>3
<1>8. ASSUME NEW q \in Ports, AtStep(q, "pmStepStarted")' PROVE lots'[q].pm # "NA"
  <2>1. CASE q = p
    BY <2>1, <1>1, <1>2, <1>8 DEF AtStep
  <2>2. CASE q # p
    <3>1. AtStep(q, "pmStepStarted")
      BY <2>2, <1>2, <1>4, <1>8 DEF AtStep
    <3> QED BY <2>2, <1>4, <3>1 DEF ToolInv
  <2> QED BY <2>1, <2>2
<1>9. ToolInv'
  BY <1>2, <1>5, <1>6, <1>7, <1>8 DEF ToolInv
<1> QED BY <1>3, <1>9

\* So does a lot that goes on,
LEMMA AdvanceInv ==
    ASSUME ToolTyped, ToolInv, NEW p \in Ports, ReadyToFire(p),
           NEW pm \in ModuleOf(p), Advance(p, pm)
    PROVE  /\ ToolTyped' /\ ToolInv'
           /\ pm \in Modules0
           /\ Goes(p, lots[p].at + 1, IF AtStep(p, "pmWaferFinished") THEN "NA" ELSE pm)
<1>1. LotsTyped /\ tool.kind \in Kinds
  BY DEF ToolTyped
<1>2. p \in AllPorts
  BY PortsAll
<1>3. lots[p].at \in Nat /\ lots[p].pm \in Modules0
  BY <1>1, <1>2, LotIs
<1>4. pm \in Modules0
  BY <1>3 DEF ModuleOf, FreeModules, Modules0
<1>5. PICK m : m = IF AtStep(p, "pmWaferFinished") THEN "NA" ELSE pm
  OBVIOUS
<1>6. Goes(p, lots[p].at + 1, m)
  BY <1>1, <1>4, <1>5, AdvanceIs
<1>7. ASSUME NEW q \in Ports \ {p}, lots[q].pm = m PROVE m = "NA"
  <2>1. CASE AtStep(p, "pmWaferStarted")
    <3>1. pm \notin {lots[r].pm : r \in Ports}
      BY <2>1 DEF ModuleOf, FreeModules
    <3> QED BY <3>1, <1>5, <1>7
  <2>2. CASE ~AtStep(p, "pmWaferStarted")
    <3>1. pm = lots[p].pm
      BY <2>2 DEF ModuleOf
    <3>2. lots[q].pm = pm => lots[q].pm = "NA"
      BY <3>1, <1>7 DEF ToolInv
    <3> QED BY <3>2, <1>5, <1>7
  <2> QED BY <2>1, <2>2
<1>8. ASSUME lots[p].at + 1 \in DOMAIN Script, Script[lots[p].at + 1] = "pmStepStarted"
      PROVE  m # "NA"
  <2>1. /\ (lots[p].at + 1) - 1 \in DOMAIN Script
        /\ Script[(lots[p].at + 1) - 1] = "pmWaferStarted"
    BY <1>1, <1>8, StepPlace
  <2>2. (lots[p].at + 1) - 1 = lots[p].at
    BY <1>3
  <2>3. AtStep(p, "pmWaferStarted") /\ ~AtStep(p, "pmWaferFinished")
    BY <2>1, <2>2 DEF AtStep
  <2>4. pm \in Modules
    BY <2>3 DEF ModuleOf, FreeModules
  <2> QED BY <2>3, <2>4, <1>5, ToolAssumption
<1>9. lots[p].at + 1 \in Nat
  BY <1>3
<1>10. ToolTyped' /\ ToolInv'
  BY <1>6, <1>7, <1>8, <1>9, GoesInv
<1> QED BY <1>4, <1>5, <1>6, <1>10

\* and one that is abandoned.
LEMMA AbandonInv ==
    ASSUME ToolTyped, ToolInv, NEW p \in Ports, ReadyToFire(p), Abandon(p)
    PROVE  ToolTyped' /\ ToolInv' /\ Goes(p, Len(Script) + 1, "NA")
<1>1. LotsTyped /\ tool.kind \in Kinds
  BY DEF ToolTyped
<1>2. Goes(p, Len(Script) + 1, "NA")
  BY <1>1, AbandonIs
<1>3. DOMAIN Script = 1 .. Len(Script) /\ Len(Script) \in Nat
  BY <1>1, ScriptIs
<1>4. Len(Script) + 1 \in Nat /\ Len(Script) + 1 \notin DOMAIN Script
  BY <1>3
<1>5. ToolTyped' /\ ToolInv'
  BY <1>2, <1>4, GoesInv
<1> QED BY <1>2, <1>5

(***************************************************************************)
(* The events that are owed are older than the tool's next one.            *)
(***************************************************************************)
Older(ev) ==
    \/ ev.nr < lots[ev.port].lot
    \/ /\ ev.nr = lots[ev.port].lot
       /\ \E n \in DOMAIN Script : n < lots[ev.port].at /\ Script[n] = ev.name

Fresh(es) == \A i \in DOMAIN es : Older(es[i].ev)

\* An old event stays old when a batch starts,
LEMMA OlderStarts ==
    ASSUME ToolTyped, ToolInv, Starts, NEW ev \in Event, Older(ev)
    PROVE  Older(ev)'
<1>1. ev.port \in Ports /\ ev.nr \in Nat /\ ev.port \in AllPorts
  BY PortsAll DEF Event
<1>2. started < lots'[ev.port].lot /\ LotsTyped'
  BY <1>1 DEF Starts
<1>3. lots[ev.port].lot \in Nat /\ lots[ev.port].lot <= started /\ started \in Nat
  BY <1>1, LotIs DEF ToolTyped, ToolInv
<1>4. lots'[ev.port].lot \in Nat
  BY <1>1, <1>2 DEF LotsTyped, AllPorts
<1>5. ev.nr <= lots[ev.port].lot
  BY <1>1, <1>3 DEF Older
<1>6. ev.nr < lots'[ev.port].lot
  BY <1>1, <1>2, <1>3, <1>4, <1>5
<1> QED BY <1>6 DEF Older

\* and when a lot goes on.
LEMMA OlderGoes ==
    ASSUME ToolTyped, NEW p \in Ports, NEW at \in Nat, lots[p].at < at, NEW pm,
           Goes(p, at, pm), NEW ev \in Event, Older(ev)
    PROVE  Older(ev)'
<1>1. ev.port \in Ports /\ ev.port \in AllPorts /\ p \in AllPorts
  BY PortsAll DEF Event
<1>2. /\ tool' = tool /\ SameLots(AllPorts \ {p})
      /\ lots'[p].at = at /\ lots'[p].lot = lots[p].lot
  BY DEF Goes
<1>3. Script' = Script
  BY <1>2, SameTool
<1>4. CASE ev.port # p
  <2>1. lots'[ev.port] = lots[ev.port]
    BY <1>1, <1>2, <1>4 DEF SameLots
  <2> QED BY <2>1, <1>3 DEF Older
<1>5. CASE ev.port = p
  <2>1. lots'[ev.port].lot = lots[ev.port].lot /\ lots'[ev.port].at = at
    BY <1>2, <1>5
  <2>2. CASE ev.nr < lots[ev.port].lot
    BY <2>1, <2>2 DEF Older
  <2>3. CASE ev.nr = lots[ev.port].lot /\ \E n \in DOMAIN Script : n < lots[ev.port].at /\ Script[n] = ev.name
    <3>1. PICK n \in DOMAIN Script : n < lots[p].at /\ Script[n] = ev.name
      BY <1>5, <2>3
    <3>2. n \in Nat /\ lots[p].at \in Nat
      <4>1. LotsTyped /\ tool.kind \in Kinds
        BY DEF ToolTyped
      <4> QED BY <4>1, <1>1, ScriptIs, LotIs
    <3>3. n < at
      BY <3>1, <3>2
    <3> QED BY <2>1, <2>3, <3>1, <3>3, <1>3 DEF Older
  <2> QED BY <2>2, <2>3 DEF Older
<1> QED BY <1>4, <1>5

\* The next event is not among the older ones, and is one of them next.
LEMMA NextEvent ==
    ASSUME ToolTyped, NEW p \in Ports, ReadyToFire(p), NEW pm \in Modules0,
           NEW ev, ev = EventOf(p, pm)
    PROVE  /\ ev \in Event
           /\ ev.name = Script[lots[p].at] /\ ev.port = p /\ ev.pm = pm
           /\ ~Older(ev)
           /\ \A at \in Nat : \A m : lots[p].at < at /\ Goes(p, at, m) => Older(ev)'
<1>1. LotsTyped /\ tool.kind \in Kinds /\ lots[p].at \in DOMAIN Script /\ p \in AllPorts
  BY PortsAll DEF ToolTyped, ReadyToFire
<1>2. lots[p].lot \in Nat /\ lots[p].at \in Nat
  BY <1>1, LotIs
<1>4. /\ ev.name = Script[lots[p].at] /\ ev.port = p /\ ev.pm = pm
      /\ ev.lot = LotId(lots[p].lot) /\ ev.nr = lots[p].lot
  BY DEF EventOf
<1>5. LotId(lots[p].lot) \in LotNames
  <2>1. DOMAIN LotIds = 1 .. 4 /\ Len(LotIds) = 4
    BY DEF LotIds
  <2>2. lots[p].lot % 4 \in 0 .. 3
    BY <1>2
  <2>3. 1 + (lots[p].lot % 4) \in DOMAIN LotIds
    BY <2>1, <2>2
  <2> QED BY <2>1, <2>3 DEF LotId, LotNames
<1>6. Script[lots[p].at] \in Names(tool.kind)
  BY <1>1, ScriptIs, ElementOfSeq
<1>7. ev \in Event
  BY <1>2, <1>5, <1>6 DEF EventOf, Event, Names, Modules0
<1>8. ~Older(ev)
  <2> SUFFICES ASSUME Older(ev) PROVE FALSE
    OBVIOUS
  <2>1. \E n \in DOMAIN Script : n < lots[p].at /\ Script[n] = Script[lots[p].at]
    BY <1>2, <1>4 DEF Older
  <2>2. PICK n \in DOMAIN Script : n < lots[p].at /\ Script[n] = Script[lots[p].at]
    BY <2>1
  <2>3. n = lots[p].at
    BY <1>1, <2>2, ScriptIs DEF Distinct
  <2> QED BY <1>2, <2>2, <2>3
<1>9. ASSUME NEW at \in Nat, NEW m, lots[p].at < at, Goes(p, at, m) PROVE Older(ev)'
  <2>1. tool' = tool /\ lots'[p].at = at /\ lots'[p].lot = lots[p].lot
    BY <1>9 DEF Goes
  <2>2. Script' = Script
    BY <2>1, SameTool
  <2>3. ev.nr = lots'[ev.port].lot /\ lots[p].at < lots'[ev.port].at
    BY <1>4, <1>9, <2>1
  <2> QED BY <1>1, <1>4, <2>2, <2>3 DEF Older
<1> QED BY <1>4, <1>7, <1>8, <1>9

GhostsTyped ==
    /\ {missed, lingering, whole} \subseteq SUBSET Ports
    /\ overtaken \in BOOLEAN /\ faults \in 0 .. MaxFaults
    /\ service \in {"down", "up"}

Base == ToolTyped /\ ToolInv /\ HostInv /\ Fresh(owed) /\ FileOK(file) /\ GhostsTyped

\* One entry more, of the event that just arrived.
NewEntry(ev) == [ev |-> ev, publish |-> TRUE, csv |-> "pending"]

\* One entry more.
LEMMA Appending ==
    ASSUME NEW ev \in Event, NEW es \in Seq(Entry), NEW a, a = Append(es, NewEntry(ev))
    PROVE  /\ a \in Seq(Entry) /\ Len(es) \in Nat /\ DOMAIN es = 1 .. Len(es)
           /\ Len(a) = Len(es) + 1 /\ DOMAIN a = 1 .. Len(es) + 1
           /\ \A j \in DOMAIN es : j \in DOMAIN a /\ a[j] = es[j] /\ j < Len(es) + 1 /\ j \in Nat
           /\ \A j \in DOMAIN a : j \in DOMAIN es \/ j = Len(es) + 1
           /\ Len(es) + 1 \in DOMAIN a
           /\ a[Len(es) + 1].ev = ev /\ a[Len(es) + 1].publish
           /\ a[Len(es) + 1].csv = "pending"
<1>1. PICK e : e = NewEntry(ev)
  OBVIOUS
<1>2. e.ev = ev /\ e.publish = TRUE /\ e.csv = "pending" /\ e \in Entry
  BY <1>1 DEF NewEntry, Entry
<1>3. a = Append(es, e)
  BY <1>1
<1>4. IsSeq(es)
  BY DEF IsSeq
<1>5. a \in Seq(Entry)
  BY <1>2, <1>3, AppendIn
<1>6. /\ Len(es) \in Nat /\ DOMAIN es = 1 .. Len(es) /\ Len(a) = Len(es) + 1
      /\ DOMAIN a = 1 .. Len(es) + 1
      /\ \A i \in 1 .. Len(es) : a[i] = es[i]
      /\ a[Len(es) + 1] = e
  BY <1>3, <1>4, AppendIs
<1>7. \A j \in 1 .. Len(es) : j \in 1 .. Len(es) + 1 /\ j < Len(es) + 1 /\ j \in Nat
  BY <1>6
<1>8. Len(es) + 1 \in 1 .. Len(es) + 1 /\ \A j \in 1 .. Len(es) + 1 : j \in 1 .. Len(es) \/ j = Len(es) + 1
  BY <1>6
<1> QED BY <1>2, <1>5, <1>6, <1>7, <1>8

\* The entry of a new event can be dispatched.
LEMMA ReadyAppend ==
    ASSUME ToolTyped, HostInv, Fresh(owed), NEW ev \in Event, ~Older(ev),
           NEW a, a = Append(owed, NewEntry(ev))
    PROVE  Ready(a) /\ Len(owed) + 1 \in DOMAIN a
<1>1. /\ owed \in Seq(Entry) /\ Uniq(owed) /\ IsTracker(tracker)
      /\ PortsKnown(tracker) \subseteq Ports
      /\ ShelvesTyped(buffers, preLot) /\ ShelvesOK(buffers, preLot)
      /\ Shelved(tool.kind, owed, buffers, preLot)
  BY DEF HostInv
<1>2. /\ a \in Seq(Entry)
      /\ \A j \in DOMAIN owed : j \in DOMAIN a /\ a[j] = owed[j]
      /\ \A j \in DOMAIN a : j \in DOMAIN owed \/ j = Len(owed) + 1
      /\ Len(owed) + 1 \in DOMAIN a
      /\ a[Len(owed) + 1].ev = ev /\ a[Len(owed) + 1].csv = "pending"
  BY <1>1, Appending
<1>3. \A j \in DOMAIN owed : owed[j].ev # ev
  BY DEF Fresh
<1>4. Uniq(a)
  BY <1>1, <1>2, <1>3 DEF Uniq
<1>5. ShelvedHeld(owed, buffers, preLot) /\ ShelvedApart(tool.kind, buffers, preLot)
      /\ HeldShelved(tool.kind, owed, buffers, preLot)
  BY <1>1 DEF Shelved
<1>6. ShelvedHeld(a, buffers, preLot)
  <2> SUFFICES ASSUME NEW k \in Keys, NEW e \in Here(buffers[k], preLot[k])
               PROVE  \E j \in DOMAIN a : a[j].ev = e /\ a[j].csv = "held"
    BY DEF ShelvedHeld
  <2>1. PICK j \in DOMAIN owed : owed[j].ev = e /\ owed[j].csv = "held"
    BY <1>5 DEF ShelvedHeld
  <2> QED BY <1>2, <2>1
<1>7. HeldShelved(tool.kind, a, buffers, preLot)
  <2> SUFFICES ASSUME NEW j \in DOMAIN a, a[j].csv = "held", States(tool.kind, a[j].ev)
               PROVE  a[j].ev \in Here(buffers[a[j].ev.port], preLot[a[j].ev.port])
    BY DEF HeldShelved
  <2>1. j \in DOMAIN owed
    BY <1>2
  <2> QED BY <1>2, <1>5, <2>1 DEF HeldShelved
<1>8. Shelved(tool.kind, a, buffers, preLot)
  BY <1>5, <1>6, <1>7 DEF Shelved
<1> QED BY <1>1, <1>2, <1>4, <1>8 DEF Ready, ToolTyped

\* Receiving an event keeps the part that always holds.
LEMMA ReceiveBase ==
    ASSUME Base, NEW p \in Ports, ReadyToFire(p), NEW pm \in Modules0,
           NEW refused \in BOOLEAN, Receive(p, pm, refused),
           NEW at \in Nat, lots[p].at < at, NEW m, Goes(p, at, m)
    PROVE  HostInv' /\ FileOK(file') /\ Fresh(owed)'
<1>1. PICK ev : ev = EventOf(p, pm)
  OBVIOUS
<1>2. ToolTyped /\ HostInv /\ Fresh(owed) /\ tool' = tool
  BY DEF Base, Goes
<1>3. ev \in Event /\ ~Older(ev) /\ Older(ev)'
  BY <1>1, <1>2, NextEvent
<1>4. PICK a : a = Append(owed, NewEntry(ev))
  OBVIOUS
<1>5. Ready(a) /\ Len(owed) + 1 \in DOMAIN a
  BY <1>2, <1>3, <1>4, ReadyAppend
<1>6. Dispatch(a, Len(owed) + 1, refused)
  BY <1>1, <1>4 DEF Receive, NewEntry
<1>7. HostInv' /\ FileOK(file') /\ Among(owed', a)
  BY <1>2, <1>5, <1>6, DispatchBase
<1>8. Fresh(owed)'
  <2>0. owed \in Seq(Entry)
    BY <1>2 DEF HostInv
  <2>1. ASSUME NEW l \in DOMAIN a, NEW e, e = a[l].ev PROVE Older(e)'
    <3>1. e = ev \/ \E i \in DOMAIN owed : e = owed[i].ev
      <4>1. l \in DOMAIN owed \/ l = Len(owed) + 1
        BY <1>3, <1>4, <2>0, Appending
      <4>2. a[Len(owed) + 1].ev = ev /\ \A j \in DOMAIN owed : a[j] = owed[j]
        BY <1>3, <1>4, <2>0, Appending
      <4> QED BY <2>1, <4>1, <4>2
    <3>2. CASE e = ev
      BY <3>2, <1>3
    <3>3. CASE \E i \in DOMAIN owed : e = owed[i].ev
      <4>1. PICK i \in DOMAIN owed : e = owed[i].ev
        BY <3>3
      <4>2. e \in Event
        BY <2>0, <4>1, EntryFacts
      <4>3. Older(e)
        BY <1>2, <4>1 DEF Fresh
      <4> QED BY <1>2, <4>2, <4>3, OlderGoes
    <3> QED BY <3>1, <3>2, <3>3
  <2> QED BY <1>7, <2>1 DEF Among, Fresh, Older
<1> QED BY <1>7, <1>8

(* What the journal says of the entries when memory is gone.                *)
Forgotten(es, acc, gone) ==
    /\ DOMAIN acc = DOMAIN es
    /\ \A j \in DOMAIN es :
          /\ acc[j].ev = es[j].ev /\ acc[j].publish = es[j].publish
          /\ acc[j].csv = IF es[j].ev \in gone THEN "done"
                          ELSE IF es[j].csv = "held" THEN "pending" ELSE es[j].csv

\* Forget in terms of Forgotten.
LEMMA ForgetIs ==
    ASSUME owed \in Seq(Entry), NEW gone, Forget(gone)
    PROVE  /\ \E acc \in Seq(Entry) : owed' = Owing(acc) /\ Forgotten(owed, acc, gone)
           /\ Lose
<1>1. PICK acc : acc = [i \in DOMAIN owed |->
                      [owed[i] EXCEPT !.csv = IF owed[i].ev \in gone THEN "done"
                                              ELSE IF @ = "held" THEN "pending"
                                              ELSE @]]
  OBVIOUS
<1>2. DOMAIN owed = 1 .. Len(owed) /\ Len(owed) \in Nat
  BY LenProperties
<1>3. ASSUME NEW j \in DOMAIN owed
      PROVE  /\ acc[j] \in Entry
             /\ acc[j].ev = owed[j].ev /\ acc[j].publish = owed[j].publish
             /\ acc[j].csv = IF owed[j].ev \in gone THEN "done"
                          ELSE IF owed[j].csv = "held" THEN "pending" ELSE owed[j].csv
  <2>1. PICK e \in Entry : e = owed[j]
    BY <1>2, ElementOfSeq
  <2>2. PICK c : c = IF e.ev \in gone THEN "done"
                     ELSE IF e.csv = "held" THEN "pending" ELSE e.csv
    OBVIOUS
  <2>3. acc[j] = [e EXCEPT !.csv = c]
    BY <1>1, <2>1, <2>2
  <2>4. c \in {"pending", "held", "done"}
    BY <2>2 DEF Entry
  <2>5. [e EXCEPT !.csv = c] \in Entry
    BY <2>4 DEF Entry
  <2>6. [e EXCEPT !.csv = c].csv = c /\ [e EXCEPT !.csv = c].ev = e.ev
        /\ [e EXCEPT !.csv = c].publish = e.publish
    BY DEF Entry
  <2> QED BY <2>1, <2>2, <2>3, <2>5, <2>6
<1>4. acc = [j \in 1 .. Len(owed) |-> acc[j]]
  BY <1>1, <1>2
<1>5. acc \in [1 .. Len(owed) -> Entry]
  BY <1>2, <1>3, <1>4
<1>6. acc \in Seq(Entry)
  BY <1>2, <1>5
<1>7. DOMAIN acc = DOMAIN owed
  BY <1>1
<1>8. Forgotten(owed, acc, gone)
  BY <1>3, <1>7 DEF Forgotten
<1>9. owed' = Owing(acc) /\ Lose
  BY <1>1 DEF Forget
<1> QED BY <1>6, <1>8, <1>9

\* An empty tracker knows no port.
LEMMA EmptyTrackerIs == IsTracker(EmptyTracker) /\ PortsKnown(EmptyTracker) = {}
                        /\ EmptyTracker.chamberPorts = <<>>
<1>1. PICK t : t = EmptyTracker
  OBVIOUS
<1>2. /\ t.lpHistory = <<>> /\ t.ctrlJobs = <<>> /\ t.waferPorts = <<>>
      /\ t.lotPorts = <<>> /\ t.chamberPorts = <<>>
      /\ t = [lpHistory  |-> t.lpHistory, ctrlJobs |-> t.ctrlJobs,
              waferPorts |-> t.waferPorts, lotPorts |-> t.lotPorts,
              chamberPorts |-> t.chamberPorts]
  BY <1>1 DEF EmptyTracker
<1>3. IsTracker(t)
  BY <1>2, EmptyIsSeq DEF IsTracker
<1>4. DOMAIN <<>> = {}
  OBVIOUS
<1>5. PortsKnown(t) = {}
  BY <1>2, <1>4, KnownIs DEF DictPorts
<1> QED BY <1>1, <1>2, <1>3, <1>5

\* Memory is gone.
LEMMA LoseIs ==
    ASSUME Lose, tool' = tool
    PROVE  /\ ShelvesTyped(buffers, preLot)' /\ ShelvesOK(buffers, preLot)'
           /\ \A k \in Keys : buffers'[k] = NoBuffer /\ preLot'[k] = <<>>
           /\ \A k \in Keys : Here(buffers'[k], preLot'[k]) = {}
           /\ IsTracker(tracker') /\ PortsKnown(tracker') = {}
           /\ tracker'.chamberPorts = <<>>
<1>1. /\ tracker' = EmptyTracker
      /\ buffers' = [k \in Keys |-> NoBuffer] /\ preLot' = [k \in Keys |-> <<>>]
  BY DEF Lose
<1>2. \A k \in Keys : buffers'[k] = NoBuffer /\ preLot'[k] = <<>>
  BY <1>1
<1>3. \A k \in Keys : ShelfOK(buffers'[k], preLot'[k], k) /\ Here(buffers'[k], preLot'[k]) = {}
  BY <1>2, EmptyShelf
<1>4. Row' = Row
  BY SameTool
<1>5. NoBuffer \in [lot : L0, rows : Seq(Row)] /\ <<>> \in Seq(Row)
  <2>1. <<>> \in Seq(Row)
    BY EmptyIn
  <2>2. "" \in L0
    BY DEF L0
  <2> QED BY <2>1, <2>2 DEF NoBuffer
<1>6. ShelvesTyped(buffers', preLot')
  <2>1. [k \in Keys |-> NoBuffer] \in [Keys -> [lot : L0, rows : Seq(Row)]]
    BY <1>5
  <2>2. [k \in Keys |-> <<>>] \in [Keys -> Seq(Row)]
    BY <1>5
  <2> QED BY <1>1, <2>1, <2>2 DEF ShelvesTyped
<1>7. ShelvesTyped(buffers, preLot)'
  BY <1>4, <1>6 DEF ShelvesTyped
<1>8. ShelvesOK(buffers, preLot)'
  BY <1>3 DEF ShelvesOK
<1> QED BY <1>1, <1>2, <1>3, <1>7, <1>8, EmptyTrackerIs

\* The part that always holds, after memory is gone.
LEMMA ForgetBase ==
    ASSUME HostInv, Fresh(owed), NEW gone, Forget(gone), tool' = tool, lots' = lots
    PROVE  HostInv' /\ Fresh(owed)'
<1>1. owed \in Seq(Entry) /\ Uniq(owed)
  BY DEF HostInv
<1>2. PICK acc \in Seq(Entry) : owed' = Owing(acc) /\ Forgotten(owed, acc, gone)
  BY <1>1, ForgetIs
<1>3. Lose
  BY <1>1, ForgetIs
<1>4. /\ ShelvesTyped(buffers, preLot)' /\ ShelvesOK(buffers, preLot)'
      /\ \A k \in Keys : Here(buffers'[k], preLot'[k]) = {}
      /\ \A k \in Keys : preLot'[k] = <<>>
      /\ IsTracker(tracker') /\ PortsKnown(tracker') = {}
  BY <1>3, LoseIs
<1>5. /\ DOMAIN acc = DOMAIN owed
      /\ \A j \in DOMAIN owed : acc[j].ev = owed[j].ev /\ acc[j].csv # "held"
  BY <1>2 DEF Forgotten
<1>6. Uniq(acc)
  BY <1>1, <1>5 DEF Uniq
<1>7. PICK o : o = Owing(acc)
  OBVIOUS
<1>8. /\ o \in Seq(Entry) /\ Uniq(o) /\ Owes(o)
      /\ \A j \in DOMAIN o : \E l \in DOMAIN acc : o[j] = acc[l]
  BY <1>6, <1>7, OwingIs, SiftedBase
<1>9. PICK bs, qs : bs = buffers' /\ qs = preLot'
  OBVIOUS
<1>10. Shelved(tool.kind, o, bs, qs)
  <2>1. ShelvedHeld(o, bs, qs)
    BY <1>4, <1>9 DEF ShelvedHeld
  <2>2. \A k \in Keys : Evs(qs[k]) = {}
    BY <1>4, <1>9, EvsEmpty
  <2>3. ShelvedApart(tool.kind, bs, qs)
    BY <1>4, <1>9, <2>2 DEF ShelvedApart
  <2>4. \A j \in DOMAIN o : o[j].csv # "held"
    BY <1>5, <1>8
  <2>5. HeldShelved(tool.kind, o, bs, qs)
    BY <2>4 DEF HeldShelved
  <2> QED BY <2>1, <2>3, <2>5 DEF Shelved
<1>11. owed' = o
  BY <1>2, <1>7
<1>12. Entry' = Entry /\ Ports' = Ports /\ Script' = Script
  BY SameTool
<1>13. /\ owed' \in Seq(Entry') /\ Uniq(owed)' /\ Owes(owed)'
       /\ Shelved(tool.kind, owed, buffers, preLot)'
  BY <1>8, <1>9, <1>10, <1>11, <1>12
<1>14. PortsKnown(tracker)' \subseteq Ports' /\ IsTracker(tracker)'
  BY <1>4
<1>15. HostInv'
  BY <1>4, <1>13, <1>14 DEF HostInv
<1>16. \A j \in DOMAIN o : \E l \in DOMAIN owed : o[j].ev = owed[l].ev
  BY <1>5, <1>8
<1>17. Fresh(o)
  BY <1>16 DEF Fresh
<1>18. Fresh(owed)'
  BY <1>11, <1>12, <1>17 DEF Fresh, Older
<1> QED BY <1>15, <1>18

\* The part that always holds, at first,
LEMMA BaseInit == Init => Base
<1> SUFFICES ASSUME Init PROVE Base
  OBVIOUS
<1>1. /\ tool \in [kind : {"mg"}, gap : OnGap, refused : Refusals]
                \cup [kind : {"davinci"}, gap : {"pause"}, refused : {<<>>}]
      /\ linked = FALSE /\ main = "waiting" /\ started = 0
      /\ lots = [p \in MgPorts \cup {"1"} |-> NoLot]
  BY DEF Init, ToolInit
<1>2. ToolTyped
  <2>1. tool.kind \in Kinds
    BY <1>1 DEF Kinds
  <2>2. NoLot \in [at : Nat, lot : Nat, pm : Modules0]
    BY DEF NoLot, Modules0
  <2>3. LotsTyped
    BY <1>1, <2>2 DEF LotsTyped, AllPorts
  <2> QED BY <1>1, <2>1, <2>3 DEF ToolTyped
<1>3. \A p \in Ports : lots[p] = NoLot /\ lots[p].at = 0 /\ lots[p].lot = 0 /\ lots[p].pm = "NA"
  <2>1. \A p \in Ports : lots[p] = NoLot
    BY <1>1, PortsAll DEF AllPorts
  <2> QED BY <2>1 DEF NoLot
<1>4. ToolInv
  <2>1. 0 \notin DOMAIN Script
    BY <1>2, ScriptIs DEF ToolTyped
  <2> QED BY <1>1, <1>3, <2>1 DEF ToolInv, AtStep, Active
<1>5. /\ tracker = EmptyTracker /\ owed = <<>>
      /\ buffers = [k \in Keys |-> NoBuffer] /\ preLot = [k \in Keys |-> <<>>]
      /\ service = "down" /\ file = NoFile
      /\ missed = {} /\ lingering = {} /\ whole = {} /\ overtaken = FALSE /\ faults = 0
  BY DEF Init
<1>6. DOMAIN owed = {} /\ owed \in Seq(Entry)
  BY <1>5, EmptyIn
<1>7. Uniq(owed) /\ Owes(owed) /\ Fresh(owed)
  BY <1>6 DEF Uniq, Owes, Fresh
<1>8. \A k \in Keys : /\ ShelfOK(buffers[k], preLot[k], k) /\ Here(buffers[k], preLot[k]) = {}
                      /\ Evs(preLot[k]) = {}
  BY <1>5, EmptyShelf, EvsEmpty
<1>9. ShelvesOK(buffers, preLot) /\ Shelved(tool.kind, owed, buffers, preLot)
  BY <1>6, <1>8 DEF ShelvesOK, Shelved, ShelvedHeld, ShelvedApart, HeldShelved
<1>10. ShelvesTyped(buffers, preLot)
  <2>1. <<>> \in Seq(Row)
    BY EmptyIn
  <2>2. NoBuffer \in [lot : L0, rows : Seq(Row)]
    BY <2>1 DEF NoBuffer, L0
  <2>3. [k \in Keys |-> NoBuffer] \in [Keys -> [lot : L0, rows : Seq(Row)]]
    BY <2>2
  <2>4. [k \in Keys |-> <<>>] \in [Keys -> Seq(Row)]
    BY <2>1
  <2> QED BY <1>5, <2>3, <2>4 DEF ShelvesTyped
<1>11. HostInv
  BY <1>5, <1>6, <1>7, <1>9, <1>10, EmptyTrackerIs DEF HostInv
<1>12. FileOK(file)
  BY <1>5, NoFileOK DEF NoFile
<1>13. GhostsTyped
  <2>1. overtaken \in BOOLEAN /\ service \in {"down", "up"}
    BY <1>5
  <2>2. faults \in 0 .. MaxFaults
    BY <1>5, FaultsAssumption
  <2>3. {missed, lingering, whole} \subseteq SUBSET Ports
    BY <1>5
  <2> QED BY <2>1, <2>2, <2>3 DEF GhostsTyped
<1> QED BY <1>2, <1>4, <1>7, <1>11, <1>12, <1>13 DEF Base

\* What no step of the tool alone changes.
LEMMA HostSame ==
    ASSUME HostInv, tool' = tool, UNCHANGED <<tracker, owed, buffers, preLot>>
    PROVE  HostInv'
<1>1. Ports' = Ports /\ Entry' = Entry /\ Row' = Row
  BY SameTool
<1>2. ShelvesTyped(buffers, preLot)'
  BY <1>1 DEF HostInv, ShelvesTyped
<1> QED BY <1>1, <1>2 DEF HostInv

\* What is owed stays older than the next event when a lot goes on.
LEMMA FreshSame ==
    ASSUME ToolTyped, owed \in Seq(Entry), Fresh(owed), owed' = owed,
           NEW p \in Ports, NEW at \in Nat, lots[p].at < at, NEW pm, Goes(p, at, pm)
    PROVE  Fresh(owed)'
<1>1. ASSUME NEW j \in DOMAIN owed, NEW e, e = owed[j].ev PROVE Older(e)'
  <2>1. e \in Event
    BY <1>1, EntryFacts
  <2>2. Older(e)
    BY <1>1 DEF Fresh
  <2> QED BY <2>1, <2>2, OlderGoes
<1> QED BY <1>1 DEF Fresh, Older

\* The entry that is replayed is the first one that is due.
LEMMA FirstDueIs ==
    ASSUME owed \in Seq(Entry), Due # {}
    PROVE  /\ FirstDue \in DOMAIN owed /\ FirstDue \in Due
           /\ \A j \in DOMAIN owed : j < FirstDue => owed[j].csv # "pending" /\ ~owed[j].publish
<1>1. DOMAIN owed = 1 .. Len(owed) /\ Len(owed) \in Nat
  BY LenProperties
<1>2. Due \subseteq DOMAIN owed
  BY DEF Due, Unread
<1>3. Due \in SUBSET Nat
  BY <1>1, <1>2
<1>4. PICK x \in Due : \A y \in Due : x <= y
  BY <1>3, Least
<1>5. FirstDue \in Due /\ \A j \in Due : FirstDue <= j
  BY <1>4 DEF FirstDue
<1>6. ASSUME NEW j \in DOMAIN owed, j < FirstDue
      PROVE  owed[j].csv # "pending" /\ ~owed[j].publish
  <2>1. j \notin Due
    BY <1>1, <1>2, <1>5, <1>6
  <2> QED BY <2>1 DEF Due, Unread
<1> QED BY <1>2, <1>5, <1>6

\* and after every step.
LEMMA BaseNext == Base /\ [Next]_vars => Base'
<1> SUFFICES ASSUME Base, [Next]_vars PROVE Base'
  OBVIOUS
<1>0. /\ ToolTyped /\ ToolInv /\ HostInv /\ Fresh(owed) /\ FileOK(file) /\ GhostsTyped
      /\ owed \in Seq(Entry) /\ tool.kind \in Kinds /\ LotsTyped
  BY DEF Base, HostInv, ToolTyped
<1>1. CASE StartLots
  <2>1. Starts
    BY <1>0, <1>1, BatchIs, DavinciIs DEF StartLots
  <2>2. ToolTyped' /\ ToolInv' /\ tool' = tool
    BY <1>0, <2>1, StartsInv DEF Starts
  <2>3. /\ UNCHANGED <<hostVars, last, file, missed, lingering, overtaken, faults>>
        /\ whole' \subseteq Ports
    BY <1>1 DEF StartLots, Begin
  <2>4. HostInv'
    BY <1>0, <2>2, <2>3, HostSame DEF hostVars
  <2>5. Fresh(owed)'
    <3>1. ASSUME NEW j \in DOMAIN owed, NEW e, e = owed[j].ev PROVE Older(e)'
      <4>1. e \in Event
        BY <1>0, <3>1, EntryFacts
      <4>2. Older(e)
        BY <1>0, <3>1 DEF Fresh
      <4> QED BY <1>0, <2>1, <4>1, <4>2, OlderStarts
    <3>2. owed' = owed
      BY <2>3 DEF hostVars
    <3> QED BY <3>1, <3>2 DEF Fresh, Older
  <2>6. GhostsTyped'
    BY <1>0, <2>2, <2>3, SameTool DEF GhostsTyped, hostVars
  <2> QED BY <1>0, <2>2, <2>3, <2>4, <2>5, <2>6 DEF Base
<1>2. CASE Join
  <2>1. /\ main' = "waiting" /\ UNCHANGED <<tool, linked, lots, started>>
        /\ \A p \in Ports : Finished(p)
    BY <1>2 DEF Join, MgJoin
  <2>2. UNCHANGED <<hostVars, history, faults>>
    BY <1>2 DEF Join
  <2>3. Ports' = Ports /\ Script' = Script
    BY <2>1, SameTool
  <2>4. ToolTyped' /\ ToolInv'
    BY <1>0, <2>1, <2>3 DEF ToolTyped, ToolInv, LotsTyped, Active, Finished, AtStep
  <2>5. HostInv'
    BY <1>0, <2>1, <2>2, HostSame DEF hostVars
  <2>6. Fresh(owed)' /\ FileOK(file)' /\ GhostsTyped'
    BY <1>0, <2>1, <2>2, <2>3 DEF hostVars, history, ghosts, Fresh, Older, GhostsTyped
  <2> QED BY <2>4, <2>5, <2>6 DEF Base
<1>3. ASSUME NEW p \in Ports, NEW pm \in Modules \cup {"NA"}, Deliver(p, pm)
      PROVE  Base'
  <2>1. ReadyToFire(p) /\ pm \in ModuleOf(p) /\ Advance(p, pm)
    BY <1>3 DEF Deliver, Answered
  <2>2. PICK m : m = IF AtStep(p, "pmWaferFinished") THEN "NA" ELSE pm
    OBVIOUS
  <2>3. ToolTyped' /\ ToolInv' /\ pm \in Modules0 /\ Goes(p, lots[p].at + 1, m)
    BY <1>0, <2>1, <2>2, AdvanceInv
  <2>4. lots[p].at \in Nat /\ lots[p].at + 1 \in Nat /\ lots[p].at < lots[p].at + 1
    <3>1. lots[p].at \in Nat
      BY <1>0, PortsAll, LotIs
    <3> QED BY <3>1
  <2>5. PICK refused \in BOOLEAN : Receive(p, pm, refused) /\ Faults(One(refused) + One(Overtakes))
    BY <1>3 DEF Deliver
  <2>6. HostInv' /\ FileOK(file') /\ Fresh(owed)'
    BY <2>1, <2>3, <2>4, <2>5, ReceiveBase
  <2>7. GhostsTyped'
    <3>1. Ports' = Ports
      BY <2>3, SameTool DEF Goes
    <3>2. /\ missed' \in {missed, missed \ {p}} /\ lingering' \in {lingering, lingering \ {p}}
          /\ whole' \in {whole, {}} /\ service' = service
      BY <1>3, Zenon DEF Deliver, Told
    <3>3. overtaken' \in BOOLEAN
      BY <1>0, <2>5, Zenon DEF Receive, GhostsTyped, Overtakes
    <3>4. faults' \in 0 .. MaxFaults
      <4>1. faults + (One(refused) + One(Overtakes)) <= MaxFaults /\ faults' = faults + (One(refused) + One(Overtakes))
        BY <2>5 DEF Faults
      <4>2. One(refused) \in Nat /\ One(Overtakes) \in Nat
        BY DEF One
      <4> QED BY <1>0, <4>1, <4>2, FaultsAssumption DEF GhostsTyped
    <3> QED BY <1>0, <3>1, <3>2, <3>3, <3>4 DEF GhostsTyped
  <2> QED BY <2>3, <2>6, <2>7 DEF Base
<1>4. ASSUME NEW p \in Ports, NEW pm \in Modules \cup {"NA"}, Filtered(p, pm)
      PROVE  Base'
  <2>1. ReadyToFire(p) /\ pm \in ModuleOf(p) /\ Advance(p, pm)
    BY <1>4 DEF Filtered, NotSent
  <2>2. PICK m : m = IF AtStep(p, "pmWaferFinished") THEN "NA" ELSE pm
    OBVIOUS
  <2>3. ToolTyped' /\ ToolInv' /\ pm \in Modules0 /\ Goes(p, lots[p].at + 1, m)
    BY <1>0, <2>1, <2>2, AdvanceInv
  <2>4. lots[p].at \in Nat /\ lots[p].at + 1 \in Nat /\ lots[p].at < lots[p].at + 1
    <3>1. lots[p].at \in Nat
      BY <1>0, PortsAll, LotIs
    <3> QED BY <3>1
  <2>5. /\ UNCHANGED <<hostVars, last, file, missed, overtaken, faults>>
        /\ lingering' \in {lingering, lingering \cup {p}} /\ whole' = whole \ {p}
    BY <1>4, Zenon DEF Filtered
  <2>6. tool' = tool /\ owed' = owed
    BY <2>3, <2>5 DEF Goes, hostVars
  <2>7. HostInv' /\ Fresh(owed)'
    BY <1>0, <2>3, <2>4, <2>5, <2>6, HostSame, FreshSame DEF hostVars
  <2>8. GhostsTyped'
    BY <1>0, <2>5, <2>6, SameTool DEF GhostsTyped, hostVars
  <2> QED BY <1>0, <2>3, <2>5, <2>7, <2>8 DEF Base
<1>5. ASSUME NEW p \in Ports, NEW pm \in Modules \cup {"NA"}, ReplyLost(p, pm)
      PROVE  Base'
  <2>1. ReadyToFire(p) /\ pm \in ModuleOf(p) /\ Abandon(p)
    BY <1>5 DEF ReplyLost
  <2>3. ToolTyped' /\ ToolInv' /\ Goes(p, Len(Script) + 1, "NA")
    BY <1>0, <2>1, AbandonInv
  <2>4. /\ Len(Script) + 1 \in Nat /\ lots[p].at < Len(Script) + 1 /\ pm \in Modules0
    <3>1. lots[p].at \in DOMAIN Script /\ DOMAIN Script = 1 .. Len(Script) /\ Len(Script) \in Nat
      BY <1>0, <2>1, ScriptIs DEF ReadyToFire
    <3> QED BY <3>1 DEF Modules0
  <2>5. Receive(p, pm, FALSE) /\ Faults(1 + One(Overtakes))
    BY <1>5 DEF ReplyLost
  <2>6. HostInv' /\ FileOK(file') /\ Fresh(owed)'
    BY <2>1, <2>3, <2>4, <2>5, ReceiveBase
  <2>7. GhostsTyped'
    <3>1. Ports' = Ports
      BY <2>3, SameTool DEF Goes
    <3>2. /\ missed' = missed /\ lingering' = lingering \cup {p}
          /\ whole' \in {whole \ {p}, {}} /\ service' = service
      BY <1>5, Zenon DEF ReplyLost
    <3>3. overtaken' \in BOOLEAN
      BY <1>0, <2>5, Zenon DEF Receive, GhostsTyped, Overtakes
    <3>4. faults' \in 0 .. MaxFaults
      <4>1. faults + (1 + One(Overtakes)) <= MaxFaults /\ faults' = faults + (1 + One(Overtakes))
        BY <2>5 DEF Faults
      <4>2. One(Overtakes) \in Nat
        BY DEF One
      <4> QED BY <1>0, <4>1, <4>2, FaultsAssumption DEF GhostsTyped
    <3> QED BY <1>0, <3>1, <3>2, <3>3, <3>4 DEF GhostsTyped
  <2> QED BY <2>3, <2>6, <2>7 DEF Base
<1>6. ASSUME NEW p \in Ports, NEW pm \in Modules \cup {"NA"}, NotHeard(p, pm)
      PROVE  Base'
  <2>1. ReadyToFire(p) /\ pm \in ModuleOf(p) /\ (Abandon(p) \/ Advance(p, pm))
    BY <1>6 DEF NotHeard, Unanswered
  <2>2. /\ UNCHANGED <<hostVars, last, file, faults>> /\ overtaken' = overtaken
        /\ missed' = missed \cup {p} /\ lingering' \in {lingering, lingering \cup {p}}
        /\ whole' = whole \ {p}
    BY <1>6, Zenon DEF NotHeard, Lost
  <2>3. PICK at, m : /\ ToolTyped' /\ ToolInv' /\ Goes(p, at, m)
                     /\ at \in Nat /\ lots[p].at < at
    <3>1. CASE Abandon(p)
      <4>1. lots[p].at \in DOMAIN Script /\ DOMAIN Script = 1 .. Len(Script) /\ Len(Script) \in Nat
        BY <1>0, <2>1, ScriptIs DEF ReadyToFire
      <4>2. Len(Script) + 1 \in Nat /\ lots[p].at < Len(Script) + 1
        BY <4>1
      <4> QED BY <1>0, <2>1, <3>1, <4>2, AbandonInv
    <3>2. CASE Advance(p, pm)
      <4>1. lots[p].at \in Nat
        BY <1>0, PortsAll, LotIs
      <4>2. lots[p].at + 1 \in Nat /\ lots[p].at < lots[p].at + 1
        BY <4>1
      <4> QED BY <1>0, <2>1, <3>2, <4>2, AdvanceInv
    <3> QED BY <2>1, <3>1, <3>2
  <2>4. tool' = tool /\ owed' = owed
    BY <2>2, <2>3 DEF Goes, hostVars
  <2>5. HostInv' /\ Fresh(owed)'
    BY <1>0, <2>2, <2>3, <2>4, HostSame, FreshSame DEF hostVars
  <2>6. GhostsTyped'
    BY <1>0, <2>2, <2>4, SameTool DEF GhostsTyped, hostVars
  <2> QED BY <1>0, <2>2, <2>3, <2>5, <2>6 DEF Base
<1>7. CASE Replay
  <2>1. /\ Due # {} /\ UNCHANGED <<toolVars, service, ghosts>>
    BY <1>7 DEF Replay
  <2>2. PICK refused \in BOOLEAN : Dispatch(owed, FirstDue, refused) /\ Faults(One(refused))
    BY <1>7 DEF Replay
  <2>3. FirstDue \in DOMAIN owed
    BY <1>0, <2>1, FirstDueIs
  <2>4. Ready(owed)
    BY <1>0 DEF Ready, HostInv
  <2>5. UNCHANGED <<tool, linked, main, lots, started>>
    BY <2>1 DEF toolVars
  <2>6. HostInv' /\ FileOK(file') /\ Among(owed', owed)
    BY <2>2, <2>3, <2>4, <2>5, DispatchBase
  <2>7. Ports' = Ports /\ Script' = Script
    BY <2>5, SameTool
  <2>8. Fresh(owed)'
    BY <1>0, <2>5, <2>6, <2>7 DEF Fresh, Older, Among
  <2>9. ToolTyped' /\ ToolInv'
    BY <1>0, <2>5, <2>7 DEF ToolTyped, ToolInv, LotsTyped, Active, Finished, AtStep
  <2>10. faults' \in 0 .. MaxFaults
    <3>1. faults + One(refused) <= MaxFaults /\ faults' = faults + One(refused)
      BY <2>2 DEF Faults
    <3>2. One(refused) \in Nat
      BY DEF One
    <3> QED BY <1>0, <3>1, <3>2, FaultsAssumption DEF GhostsTyped
  <2>11. GhostsTyped'
    BY <1>0, <2>1, <2>7, <2>10 DEF GhostsTyped, ghosts
  <2> QED BY <2>6, <2>8, <2>9, <2>11 DEF Base
<1>8. CASE Start \/ Connect \/ Disconnect
  <2>1. /\ UNCHANGED <<tool, main, lots, started, tracker, owed, buffers, preLot>>
        /\ UNCHANGED history /\ linked' \in {linked, TRUE, FALSE} /\ service' \in {service, "up"}
    BY <1>8 DEF Start, Connect, Disconnect, LinkUp, LinkDown, hostVars, toolVars
  <2>2. faults' \in 0 .. MaxFaults
    <3>1. CASE faults' = faults
      BY <1>0, <3>1 DEF GhostsTyped
    <3>2. CASE Faults(1)
      BY <1>0, <3>2, FaultsAssumption DEF GhostsTyped, Faults
    <3> QED BY <1>8, <3>1, <3>2 DEF Start, Connect, Disconnect
  <2>3. Ports' = Ports /\ Script' = Script
    BY <2>1, SameTool
  <2>4. ToolTyped' /\ ToolInv'
    BY <1>0, <2>1, <2>3 DEF ToolTyped, ToolInv, LotsTyped, Active, Finished, AtStep
  <2>5. HostInv'
    BY <1>0, <2>1, HostSame
  <2>6. Fresh(owed)' /\ FileOK(file)' /\ GhostsTyped'
    BY <1>0, <2>1, <2>2, <2>3 DEF history, ghosts, Fresh, Older, GhostsTyped
  <2> QED BY <2>4, <2>5, <2>6 DEF Base
<1>9. CASE Crash \/ CleanStop
  <2>1. /\ UNCHANGED <<tool, main, lots, started>> /\ linked' = FALSE /\ Faults(1)
        /\ last' = last /\ file' = file /\ missed' = missed /\ lingering' = lingering
        /\ overtaken' = overtaken /\ whole' \in {whole, {}}
    BY <1>9 DEF Crash, CleanStop, LinkDown, history, ghosts
  <2>2. PICK gone : Forget(gone)
    BY <1>9 DEF Crash, CleanStop
  <2>3. HostInv' /\ Fresh(owed)'
    BY <1>0, <2>1, <2>2, ForgetBase
  <2>4. service' = "down"
    BY <2>2 DEF Forget, Lose
  <2>5. Ports' = Ports /\ Script' = Script
    BY <2>1, SameTool
  <2>6. ToolTyped' /\ ToolInv'
    BY <1>0, <2>1, <2>5 DEF ToolTyped, ToolInv, LotsTyped, Active, Finished, AtStep
  <2>7. faults' \in 0 .. MaxFaults
    BY <1>0, <2>1, FaultsAssumption DEF GhostsTyped, Faults
  <2>8. GhostsTyped'
    BY <1>0, <2>1, <2>4, <2>5, <2>7 DEF GhostsTyped
  <2> QED BY <1>0, <2>1, <2>3, <2>6, <2>8 DEF Base
<1>10. CASE UNCHANGED vars
  <2>1. /\ UNCHANGED <<tool, linked, main, lots, started, tracker, owed, buffers, preLot>>
        /\ UNCHANGED <<service, file, missed, lingering, whole, overtaken, faults>>
    BY <1>10 DEF vars, toolVars, hostVars, history, ghosts
  <2>2. Ports' = Ports /\ Script' = Script
    BY <2>1, SameTool
  <2>3. ToolTyped' /\ ToolInv'
    BY <1>0, <2>1, <2>2 DEF ToolTyped, ToolInv, LotsTyped, Active, Finished, AtStep
  <2>4. HostInv'
    BY <1>0, <2>1, HostSame
  <2>5. Fresh(owed)' /\ FileOK(file)' /\ GhostsTyped'
    BY <1>0, <2>1, <2>2 DEF Fresh, Older, GhostsTyped
  <2> QED BY <2>3, <2>4, <2>5 DEF Base
<1> QED BY <1>1, <1>2, <1>3, <1>4, <1>5, <1>6, <1>7, <1>8, <1>9, <1>10
        DEF Next, ToolStep, HostStep, Fault

(***************************************************************************)
(* While nothing has been overtaken: what is owed, in the order it came.   *)
(***************************************************************************)
Publishes(e) == e.publish
Removes(k, e, p) == Unloads(k, e.ev) /\ e.ev.port = p

\* Only the last entry is still to be published.
Pub(es) == \A j \in DOMAIN es : Publishes(es[j]) => j = Len(es)

\* Rows are read in the order of their events.
Ord(es) == \A i, j \in DOMAIN es : i < j /\ es[i].csv = "pending" => es[j].csv # "held"

\* A port that an owed event states is in S, or its carrier's removal is owed.
Leaves(k, es, i, p) ==
    \E j \in DOMAIN es : i < j /\ Removes(k, es[j], p) /\ es[j].csv # "done"

Cover(k, es, S) ==
    \A i \in DOMAIN es : OwesEntry(es[i]) /\ States(k, es[i].ev) =>
       Unloads(k, es[i].ev) \/ es[i].ev.port \in S \/ Leaves(k, es, i, es[i].ev.port)

\* So is a port the tracker knows, or the removal's row has not been read.
Known(k, es, t, S) ==
    \A p \in PortsKnown(t) :
       p \in S \/ \E i \in DOMAIN es : es[i].csv = "pending" /\ Removes(k, es[i], p)

\* No row before the i-th has still to be read.
Turn(es, i) ==
    /\ es[i].csv = "pending" \/ Publishes(es[i])
    /\ \A j \in DOMAIN es : j < i => es[j].csv # "pending"

After(k, es, i, acc, W) ==
    /\ DOMAIN acc = DOMAIN es /\ Len(acc) = Len(es)
    /\ \A j \in DOMAIN es : Publishes(acc[j]) => Publishes(es[j])
    /\ es[i].csv = "pending" /\ ~Rowed(k, es[i].ev) => acc[i].csv = "done"
    /\ \A j \in DOMAIN es :
          /\ acc[j].ev = es[j].ev
          /\ acc[j].csv = "pending" <=> es[j].csv = "pending" /\ j # i
          /\ acc[j].csv = "held" => es[j].csv = "held" \/ j = i
          /\ acc[j].csv # "done" => es[j].csv # "done" /\ es[j].ev \notin W
          /\ acc[j].csv = "done" =>
                es[j].csv = "done" \/ es[j].ev \in W \/ (j = i /\ ~Rowed(k, es[i].ev))

\* The entries after one was dispatched.
LEMMA AfterIs ==
    ASSUME NEW k, NEW es \in Seq(Entry), NEW i \in DOMAIN es, NEW acc \in Seq(Entry),
           NEW W, NEW key, NEW refused, Moves(k, es, i, acc, W),
           OnlyPublishes(es, i, acc, refused), Writes(k, es, i, W, key)
    PROVE  After(k, es, i, acc, W)
<1>1. DOMAIN acc = DOMAIN es
  BY DEF Moves
<1>2. Len(acc) = Len(es)
  BY <1>1, LenProperties
<1>3. \A j \in DOMAIN es : Publishes(acc[j]) => Publishes(es[j])
  BY DEF OnlyPublishes, Publishes
<1>4. ASSUME NEW j \in DOMAIN es
      PROVE  /\ acc[j].ev = es[j].ev
             /\ acc[j].csv = "pending" <=> es[j].csv = "pending" /\ j # i
             /\ acc[j].csv = "held" => es[j].csv = "held" \/ j = i
             /\ acc[j].csv # "done" => es[j].csv # "done" /\ es[j].ev \notin W
             /\ acc[j].csv = "done" =>
                   es[j].csv = "done" \/ es[j].ev \in W \/ (j = i /\ ~Rowed(k, es[i].ev))
  <2>1. acc[j].ev = es[j].ev /\ acc[j].csv = CsvAfter(k, es, i, W, j)
    BY DEF Moves
  <2>2. es[j].ev \in W => j = i \/ es[j].csv = "held"
    BY DEF Writes
  <2>3. es[j].csv \in {"pending", "held", "done"}
    BY EntryFacts
  <2>4. PICK c, d, rowed, inW : /\ c = es[j].csv /\ d = acc[j].csv
                                /\ (rowed <=> Rowed(k, es[i].ev)) /\ (inW <=> es[j].ev \in W)
    OBVIOUS
  <2>5. d = IF inW THEN "done" ELSE IF j # i \/ c # "pending" THEN c
            ELSE IF rowed THEN "held" ELSE "done"
    BY <2>1, <2>4 DEF CsvAfter
  <2>6. (inW => j = i \/ c = "held") /\ c \in {"pending", "held", "done"}
    BY <2>2, <2>3, <2>4
  <2>7. /\ d = "pending" <=> c = "pending" /\ j # i
        /\ d = "held" => c = "held" \/ j = i
        /\ d # "done" => c # "done" /\ ~inW
        /\ d = "done" => c = "done" \/ inW \/ (j = i /\ ~rowed)
    BY <2>5, <2>6
  <2> QED BY <2>1, <2>4, <2>7
<1>5. ASSUME es[i].csv = "pending", ~Rowed(k, es[i].ev) PROVE acc[i].csv = "done"
  <2>1. acc[i].csv = CsvAfter(k, es, i, W, i)
    BY DEF Moves
  <2> QED BY <2>1, <1>5, Zenon DEF CsvAfter
<1> QED BY <1>1, <1>2, <1>3, <1>4, <1>5 DEF After

(* Dispatching the entry whose turn it is keeps the order.                  *)
LEMMA PubStep ==
    ASSUME NEW k, NEW es, NEW i, NEW acc, NEW W, After(k, es, i, acc, W), Pub(es)
    PROVE  Pub(acc)
BY DEF After, Pub

\* Rows are still read in order,
LEMMA OrdStep ==
    ASSUME NEW k, NEW es, NEW i \in DOMAIN es, NEW acc, NEW W, After(k, es, i, acc, W),
           DOMAIN es \subseteq Nat, Turn(es, i), Ord(es)
    PROVE  Ord(acc)
<1> SUFFICES ASSUME NEW x \in DOMAIN es, NEW y \in DOMAIN es, x < y,
                    acc[x].csv = "pending", acc[y].csv = "held"
             PROVE  FALSE
  BY DEF Ord, After
<1>1. es[x].csv = "pending" /\ x # i /\ (es[y].csv = "held" \/ y = i)
  BY DEF After
<1>2. ~(x < i)
  BY <1>1 DEF Turn
<1>3. es[y].csv # "held"
  BY <1>1 DEF Ord
<1>4. x \in Nat /\ y \in Nat /\ i \in Nat
  OBVIOUS
<1> QED BY <1>1, <1>2, <1>3, <1>4

\* every port that is stated is still covered,
LEMMA CoverStep ==
    ASSUME NEW k \in Kinds, NEW es, NEW i \in DOMAIN es, NEW acc, NEW W, NEW key,
           After(k, es, i, acc, W), Writes(k, es, i, W, key),
           DOMAIN es \subseteq Nat, DOMAIN es = 1 .. Len(es), Len(es) \in Nat,
           \A j \in DOMAIN es : IsEvent(k, es[j].ev) /\ es[j].csv \in {"pending", "held", "done"},
           Turn(es, i), Ord(es), Pub(es), NEW S, Cover(k, es, S)
    PROVE  Cover(k, acc, S)
<1> SUFFICES ASSUME NEW x \in DOMAIN es, OwesEntry(acc[x]), States(k, acc[x].ev),
                    ~Unloads(k, acc[x].ev), acc[x].ev.port \notin S
             PROVE  Leaves(k, acc, x, acc[x].ev.port)
  BY DEF Cover, After
<1>1. PICK p : p = es[x].ev.port
  OBVIOUS
<1>2. acc[x].ev = es[x].ev /\ (Publishes(acc[x]) => Publishes(es[x]))
      /\ (acc[x].csv # "done" => es[x].csv # "done" /\ es[x].ev \notin W)
  BY DEF After
<1>3. OwesEntry(es[x])
  BY <1>2 DEF OwesEntry, Publishes
<1>4. Leaves(k, es, x, p)
  BY <1>1, <1>2, <1>3 DEF Cover
<1>5. PICK y \in DOMAIN es : x < y /\ Removes(k, es[y], p) /\ es[y].csv # "done"
  BY <1>4 DEF Leaves
<1>6. Unloads(k, es[y].ev) /\ es[y].ev.port = p /\ States(k, es[y].ev)
  BY <1>5, ProfileIs DEF Removes
<1>7. x \in Nat /\ y \in Nat /\ i \in Nat
  OBVIOUS
<1>8. x # Len(es)
  BY <1>5, <1>7
<1>9. ~Publishes(acc[x]) /\ acc[x].csv # "done"
  <2>1. ~Publishes(es[x])
    BY <1>8 DEF Pub
  <2> QED BY <2>1, <1>2 DEF OwesEntry, Publishes
<1>10. es[x].csv # "done" /\ es[x].ev \notin W
  BY <1>2, <1>9
<1>11. ASSUME acc[y].csv = "done" PROVE FALSE
  <2>1. Rowed(k, es[y].ev)
    BY <1>6, ProfileIs
  <2>2. es[y].ev \in W
    BY <1>5, <1>11, <2>1 DEF After
  <2>3. key = p /\ W # {} /\ (y = i \/ es[y].csv = "held")
    BY <2>2, <1>6 DEF Writes
  <2>4. CASE es[x].csv = "held"
    <3>1. es[x].ev \in W
      BY <2>3, <2>4, <1>1, <1>2 DEF Writes
    <3> QED BY <3>1, <1>10
  <2>5. CASE es[x].csv = "pending"
    <3>1. ~(x < i)
      BY <2>5 DEF Turn
    <3>2. y # i
      BY <3>1, <1>5, <1>7
    <3>3. es[y].csv = "held"
      BY <2>3, <3>2
    <3> QED BY <2>5, <3>3, <1>5 DEF Ord
  <2> QED BY <2>4, <2>5, <1>10
<1>12. Removes(k, acc[y], p) /\ y \in DOMAIN acc
  BY <1>5 DEF Removes, After
<1> QED BY <1>1, <1>2, <1>5, <1>11, <1>12 DEF Leaves

\* and so is every port that the tracker knows.
LEMMA KnownStep ==
    ASSUME NEW k \in Kinds, NEW es, NEW i \in DOMAIN es, NEW acc, NEW W,
           After(k, es, i, acc, W),
           DOMAIN es \subseteq Nat, DOMAIN es = 1 .. Len(es), Len(es) \in Nat,
           \A j \in DOMAIN es : IsEvent(k, es[j].ev) /\ es[j].csv \in {"pending", "held", "done"},
           Turn(es, i), Ord(es), Pub(es), NEW S, Cover(k, es, S),
           NEW t, NEW n, Known(k, es, t, S), TracksPorts(k, es[i].ev, n, t)
    PROVE  Known(k, acc, n, S)
<1> SUFFICES ASSUME NEW p \in PortsKnown(n), p \notin S
             PROVE  \E j \in DOMAIN acc : acc[j].csv = "pending" /\ Removes(k, acc[j], p)
  BY DEF Known
<1>1. PICK e : e = es[i].ev
  OBVIOUS
<1>2. /\ PortsKnown(n) \subseteq PortsKnown(t) \cup (IF States(k, e) THEN {e.port} ELSE {})
      /\ Unloads(k, e) => PortsKnown(n) \subseteq PortsKnown(t) \ {e.port}
  BY <1>1 DEF TracksPorts
<1>3. ~(Unloads(k, e) /\ e.port = p)
  BY <1>2
<1>4. PICK y \in DOMAIN es : y # i /\ es[y].csv = "pending" /\ Removes(k, es[y], p)
  <2>1. CASE p \in PortsKnown(t)
    <3>1. PICK y \in DOMAIN es : es[y].csv = "pending" /\ Removes(k, es[y], p)
      BY <2>1 DEF Known
    <3>2. y # i
      BY <3>1, <1>1, <1>3 DEF Removes
    <3> QED BY <3>1, <3>2
  <2>2. CASE p \notin PortsKnown(t)
    <3>1. States(k, e) /\ p = e.port
      BY <2>2, <1>2
    <3>2. OwesEntry(es[i])
      BY DEF Turn, OwesEntry, Publishes
    <3>3. Leaves(k, es, i, p)
      BY <1>1, <1>3, <3>1, <3>2 DEF Cover
    <3>4. PICK y \in DOMAIN es : i < y /\ Removes(k, es[y], p) /\ es[y].csv # "done"
      BY <3>3 DEF Leaves
    <3>5. i \in Nat /\ y \in Nat /\ i # Len(es) /\ y # i
      BY <3>4
    <3>6. es[i].csv = "pending"
      BY <3>5 DEF Turn, Pub
    <3>7. es[y].csv # "held"
      BY <3>4, <3>6 DEF Ord
    <3> QED BY <3>4, <3>5, <3>7
  <2> QED BY <2>1, <2>2
<1>5. y \in DOMAIN acc /\ acc[y].csv = "pending" /\ acc[y].ev = es[y].ev
  BY <1>4 DEF After
<1>6. Removes(k, acc[y], p)
  BY <1>4, <1>5 DEF Removes
<1> QED BY <1>5, <1>6

(***************************************************************************)
(* What the tracker knows of module m is that port p has a wafer in it, or *)
(* an entry that will tell it is owed.                                     *)
(***************************************************************************)
Bound(t, m, p) ==
    \A x \in DOMAIN t.chamberPorts : t.chamberPorts[x].key = m => t.chamberPorts[x].port = p

Mine(es, m, p) ==
    \A j \in DOMAIN es : OwesEntry(es[j]) /\ Teaches("mg", es[j].ev, m) => es[j].ev.port = p

\* The w-th entry is of the wafer's start, and nothing later contradicts it.
StartsAt(es, w, t, m, p) ==
    /\ es[w].ev.name = "pmWaferStarted" /\ es[w].ev.port = p /\ es[w].ev.pm = m
    /\ es[w].csv # "done"
    /\ \A j \in DOMAIN es : w < j =>
          /\ ~Teaches("mg", es[j].ev, m)
          /\ es[j].ev.port # p \/ es[j].ev.name = "pmStepStarted"
    /\ es[w].csv # "pending" => Bound(t, m, p)

Sound(es, t, m, p) ==
    (Mine(es, m, p) /\ Bound(t, m, p)) \/ \E w \in DOMAIN es : StartsAt(es, w, t, m, p)

\* A module stays bound to p unless it is taught another port.
LEMMA BoundStep ==
    ASSUME NEW t, NEW n, NEW ev, NEW m, m # "NA", NEW p, TracksChambers("mg", ev, n, t),
           Bound(t, m, p), Teaches("mg", ev, m) => ev.port = p
    PROVE  Bound(n, m, p)
<1> SUFFICES ASSUME NEW x \in DOMAIN n.chamberPorts, n.chamberPorts[x].key = m
             PROVE  n.chamberPorts[x].port = p
  BY DEF Bound
<1>1. CASE States("mg", ev) /\ About("mg", ev).namesModule /\ ev.pm # "NA"
  <2>1. Learns(n, t, ev.pm, ev.port)
    BY <1>1 DEF TracksChambers
  <2>2. CASE n.chamberPorts[x].key = ev.pm /\ n.chamberPorts[x].port = ev.port
    BY <1>1, <2>2 DEF Teaches
  <2>3. CASE \E y \in DOMAIN t.chamberPorts : n.chamberPorts[x] = t.chamberPorts[y]
    BY <2>3 DEF Bound
  <2> QED BY <2>1, <2>2, <2>3 DEF Learns
<1>2. CASE ~(States("mg", ev) /\ About("mg", ev).namesModule /\ ev.pm # "NA")
  <2>1. Within(n.chamberPorts, t.chamberPorts)
    BY <1>2 DEF TracksChambers
  <2> QED BY <2>1 DEF Within, Bound
<1> QED BY <1>1, <1>2

\* A report of the wafer itself binds the module, whatever it was bound to.
LEMMA BoundNow ==
    ASSUME NEW t, NEW n, NEW ev, NEW m, m # "NA", NEW p, TracksChambers("mg", ev, n, t),
           Teaches("mg", ev, m), ev.port = p
    PROVE  Bound(n, m, p)
<1>1. ev.pm = m /\ Learns(n, t, m, p)
  BY DEF Teaches, TracksChambers
<1> QED BY <1>1 DEF Learns, Bound

\* What is sound for module m stays so when an entry is dispatched.
LEMMA SoundStep ==
    ASSUME NEW es, NEW i \in DOMAIN es, NEW acc, NEW W, NEW key,
           After("mg", es, i, acc, W), Writes("mg", es, i, W, key),
           DOMAIN es \subseteq Nat, DOMAIN es = 1 .. Len(es), Len(es) \in Nat,
           \A j \in DOMAIN es : IsEvent("mg", es[j].ev) /\ es[j].csv \in {"pending", "held", "done"},
           Turn(es, i), Ord(es), Pub(es),
           NEW t, NEW n, TracksChambers("mg", es[i].ev, n, t),
           NEW m, m # "NA", NEW p, Sound(es, t, m, p)
    PROVE  Sound(acc, n, m, p)
<1>1. /\ DOMAIN acc = DOMAIN es
      /\ \A j \in DOMAIN es : /\ acc[j].ev = es[j].ev
                              /\ acc[j].csv # "done" => es[j].csv # "done" /\ es[j].ev \notin W
                              /\ Publishes(acc[j]) => Publishes(es[j])
  BY DEF After
<1>2. \A j \in DOMAIN es : OwesEntry(acc[j]) => OwesEntry(es[j])
  BY <1>1 DEF OwesEntry, Publishes
<1>3. CASE Mine(es, m, p) /\ Bound(t, m, p)
  <2>1. Mine(acc, m, p)
    BY <1>1, <1>2, <1>3 DEF Mine
  <2>2. OwesEntry(es[i])
    BY DEF Turn, OwesEntry, Publishes
  <2>3. Bound(n, m, p)
    BY <1>3, <2>2, BoundStep DEF Mine
  <2> QED BY <2>1, <2>3 DEF Sound
<1>4. ASSUME NEW w \in DOMAIN es, StartsAt(es, w, t, m, p) PROVE Sound(acc, n, m, p)
  <2>1. /\ es[w].ev.name = "pmWaferStarted" /\ es[w].ev.port = p /\ es[w].ev.pm = m
        /\ es[w].csv # "done"
        /\ es[w].csv # "pending" => Bound(t, m, p)
    BY <1>4 DEF StartsAt
  <2>2. \A j \in DOMAIN es : w < j =>
          /\ ~Teaches("mg", es[j].ev, m)
          /\ es[j].ev.port # p \/ es[j].ev.name = "pmStepStarted"
    BY <1>4 DEF StartsAt
  <2>3. /\ Teaches("mg", es[w].ev, m) /\ Rowed("mg", es[w].ev) /\ Named("mg", es[w].ev)
    BY <2>1, WaferStartIs
  <2>4. ~Unloads("mg", es[w].ev) /\ States("mg", es[w].ev)
    BY <2>3, ProfileIs DEF Kinds
  <2>5. w \in Nat /\ i \in Nat
    OBVIOUS
  <2>6. ASSUME acc[w].csv # "done", acc[w].csv # "pending" => Bound(n, m, p)
        PROVE  Sound(acc, n, m, p)
    <3>1. StartsAt(acc, w, n, m, p)
      BY <1>1, <2>1, <2>2, <2>6 DEF StartsAt
    <3> QED BY <3>1, <1>1 DEF Sound
  <2>7. CASE i < w
    <3>1. i # Len(es)
      BY <2>5, <2>7
    <3>2. es[i].csv = "pending"
      BY <3>1 DEF Turn, Pub
    <3>3. es[w].csv = "pending"
      BY <2>1, <2>7, <3>2 DEF Ord
    <3>4. acc[w].csv = "pending"
      BY <2>5, <2>7, <3>3 DEF After
    <3> QED BY <2>6, <3>4
  <2>8. CASE i = w
    <3>1. Bound(n, m, p)
      BY <2>1, <2>3, <2>8, BoundNow
    <3>2. es[w].ev \notin W
      BY <2>4, <2>8 DEF Writes
    <3>3. acc[w].csv # "done"
      BY <2>1, <2>3, <2>8, <3>2 DEF After
    <3> QED BY <2>6, <3>1, <3>3
  <2>9. CASE w < i
    <3>1. es[w].csv = "held"
      BY <2>1, <2>9 DEF Turn
    <3>2. Bound(n, m, p)
      <4>1. ~Teaches("mg", es[i].ev, m)
        BY <2>2, <2>9
      <4> QED BY <2>1, <3>1, <4>1, BoundStep
    <3>3. es[w].ev \notin W
      <4> SUFFICES ASSUME es[w].ev \in W PROVE FALSE
        OBVIOUS
      <4>1. W # {} /\ key = p
        BY <2>1, <2>4 DEF Writes
      <4>2. key = es[i].ev.port /\ Rowed("mg", es[i].ev)
        BY <4>1 DEF Writes
      <4>3. es[i].ev.name = "pmStepStarted"
        BY <2>2, <2>9, <4>1, <4>2
      <4> QED BY <4>2, <4>3, StepIs
    <3>4. acc[w].csv # "done"
      <4>1. w # i
        BY <2>5, <2>9
      <4> QED BY <2>1, <3>3, <4>1 DEF After
    <3> QED BY <2>6, <3>2, <3>4
  <2> QED BY <2>5, <2>7, <2>8, <2>9
<1> QED BY <1>3, <1>4 DEF Sound

(* Dropping what is no longer owed keeps the order.                         *)
Ranks(acc, o, f) ==
    /\ \A i \in DOMAIN o : f[i] \in DOMAIN acc /\ o[i] = acc[f[i]]
    /\ \A m \in DOMAIN acc : OwesEntry(acc[m]) => \E i \in DOMAIN o : f[i] = m
    /\ \A i, j \in DOMAIN o : i < j <=> f[i] < f[j]
    /\ DOMAIN o = 1 .. Len(o) /\ DOMAIN acc = 1 .. Len(acc)
    /\ Len(o) \in Nat /\ Len(acc) \in Nat

\* Owing keeps the order.
LEMMA SiftedOrder ==
    ASSUME NEW X, NEW acc \in Seq(X), NEW o, o = Owing(acc)
    PROVE  \E f : Ranks(acc, o, f)
<1>1. PICK f : Sifted(acc, o, f)
  BY OwingIs
<1>2. DOMAIN o = 1 .. Len(o) /\ Len(o) \in Nat /\ DOMAIN acc = 1 .. Len(acc) /\ Len(acc) \in Nat
  BY OwingIs
<1>3. /\ \A i \in DOMAIN o : f[i] \in DOMAIN acc /\ o[i] = acc[f[i]]
      /\ \A i, j \in DOMAIN o : i < j => f[i] < f[j]
      /\ \A m \in DOMAIN acc : OwesEntry(acc[m]) => \E i \in DOMAIN o : f[i] = m
  BY <1>1, <1>2 DEF Sifted
<1>4. ASSUME NEW i \in DOMAIN o, NEW j \in DOMAIN o PROVE i < j <=> f[i] < f[j]
  <2>1. i \in Nat /\ j \in Nat /\ f[i] \in Nat /\ f[j] \in Nat
    BY <1>2, <1>3
  <2>2. (i < j => f[i] < f[j]) /\ (j < i => f[j] < f[i])
    BY <1>3
  <2>3. CASE i = j
    BY <2>1, <2>3
  <2> QED BY <2>1, <2>2, <2>3
<1> QED BY <1>2, <1>3, <1>4 DEF Ranks

\* So it keeps everything that is said of the order.
LEMMA OrderSifted ==
    ASSUME NEW X, NEW acc \in Seq(X), NEW o, o = Owing(acc)
    PROVE  /\ Pub(acc) => Pub(o)
           /\ Ord(acc) => Ord(o)
           /\ \A k, S : Cover(k, acc, S) => Cover(k, o, S)
           /\ \A k, t, S : Known(k, acc, t, S) => Known(k, o, t, S)
           /\ \A t, m, p : Sound(acc, t, m, p) => Sound(o, t, m, p)
<1>0. PICK f : Ranks(acc, o, f)
  BY SiftedOrder
<1>1. /\ \A i \in DOMAIN o : f[i] \in DOMAIN acc /\ o[i] = acc[f[i]]
      /\ \A m \in DOMAIN acc : OwesEntry(acc[m]) => \E i \in DOMAIN o : f[i] = m
      /\ \A i, j \in DOMAIN o : i < j <=> f[i] < f[j]
      /\ DOMAIN o = 1 .. Len(o) /\ DOMAIN acc = 1 .. Len(acc)
      /\ Len(o) \in Nat /\ Len(acc) \in Nat
  BY <1>0 DEF Ranks
<1>2. ASSUME Pub(acc) PROVE Pub(o)
  <2> SUFFICES ASSUME NEW j \in DOMAIN o, Publishes(o[j]) PROVE j = Len(o)
    BY DEF Pub
  <2>1. f[j] = Len(acc)
    BY <1>1, <1>2 DEF Pub
  <2>2. Len(o) \in DOMAIN o /\ j \in Nat
    BY <1>1
  <2>3. f[Len(o)] \in 1 .. Len(acc)
    BY <1>1, <2>2
  <2>4. ~(f[j] < f[Len(o)])
    BY <1>1, <2>1, <2>3
  <2>5. ~(j < Len(o))
    BY <1>1, <2>2, <2>4
  <2> QED BY <1>1, <2>2, <2>5
<1>3. ASSUME Ord(acc) PROVE Ord(o)
  BY <1>1, <1>3 DEF Ord
<1>4. \A m \in DOMAIN acc : acc[m].csv # "done" => \E i \in DOMAIN o : f[i] = m
  BY <1>1 DEF OwesEntry
<1>5. ASSUME NEW k, NEW S, Cover(k, acc, S) PROVE Cover(k, o, S)
  <2> SUFFICES ASSUME NEW i \in DOMAIN o, OwesEntry(o[i]), States(k, o[i].ev),
                      ~Unloads(k, o[i].ev), o[i].ev.port \notin S
               PROVE  Leaves(k, o, i, o[i].ev.port)
    BY DEF Cover
  <2>1. f[i] \in DOMAIN acc /\ o[i] = acc[f[i]]
    BY <1>1
  <2>2. Leaves(k, acc, f[i], o[i].ev.port)
    BY <1>5, <2>1 DEF Cover
  <2>3. PICK y \in DOMAIN acc : f[i] < y /\ Removes(k, acc[y], o[i].ev.port) /\ acc[y].csv # "done"
    BY <2>2 DEF Leaves
  <2>4. PICK j \in DOMAIN o : f[j] = y
    BY <2>3, <1>4
  <2>5. o[j] = acc[y] /\ i < j
    BY <2>3, <2>4, <1>1
  <2> QED BY <2>3, <2>5 DEF Leaves
<1>6. ASSUME NEW k, NEW t, NEW S, Known(k, acc, t, S) PROVE Known(k, o, t, S)
  <2> SUFFICES ASSUME NEW p \in PortsKnown(t), p \notin S
               PROVE  \E j \in DOMAIN o : o[j].csv = "pending" /\ Removes(k, o[j], p)
    BY DEF Known
  <2>1. PICK y \in DOMAIN acc : acc[y].csv = "pending" /\ Removes(k, acc[y], p)
    BY <1>6 DEF Known
  <2>2. PICK j \in DOMAIN o : f[j] = y
    BY <2>1, <1>4
  <2>3. o[j] = acc[y]
    BY <2>2, <1>1
  <2> QED BY <2>1, <2>3
<1>7. ASSUME NEW t, NEW m, NEW p, Sound(acc, t, m, p) PROVE Sound(o, t, m, p)
  <2>1. CASE Mine(acc, m, p) /\ Bound(t, m, p)
    <3>1. Mine(o, m, p)
      BY <1>1, <2>1 DEF Mine
    <3> QED BY <2>1, <3>1 DEF Sound
  <2>2. ASSUME NEW w \in DOMAIN acc, StartsAt(acc, w, t, m, p) PROVE Sound(o, t, m, p)
    <3>1. PICK v \in DOMAIN o : f[v] = w
      BY <2>2, <1>4 DEF StartsAt
    <3>2. o[v] = acc[w]
      BY <3>1, <1>1
    <3>3. ASSUME NEW j \in DOMAIN o, v < j
          PROVE  /\ ~Teaches("mg", o[j].ev, m)
                 /\ o[j].ev.port # p \/ o[j].ev.name = "pmStepStarted"
      <4>1. w < f[j] /\ f[j] \in DOMAIN acc /\ o[j] = acc[f[j]]
        BY <3>1, <3>3, <1>1
      <4> QED BY <4>1, <2>2 DEF StartsAt
    <3>4. StartsAt(o, v, t, m, p)
      BY <3>2, <3>3, <2>2 DEF StartsAt
    <3> QED BY <3>4 DEF Sound
  <2> QED BY <1>7, <2>1, <2>2 DEF Sound
<1> QED BY <1>2, <1>3, <1>5, <1>6, <1>7

RowsOnly(k, es) == \A j \in DOMAIN es : es[j].csv # "done" => Rowed(k, es[j].ev)
RowsOther(k, es, i) ==
    \A j \in DOMAIN es : es[j].csv # "done" /\ (j # i \/ es[j].csv = "held") => Rowed(k, es[j].ev)

\* The start of a step at port p, in module m, is still to be published.
StepOwed(es, p, m) ==
    \E j \in DOMAIN es : /\ Publishes(es[j]) /\ es[j].ev.name = "pmStepStarted"
                         /\ es[j].ev.port = p /\ es[j].ev.pm = m

Orderly(k, es, t, S) ==
    /\ Pub(es) /\ Ord(es) /\ Cover(k, es, S) /\ Known(k, es, t, S)

\* Entries whose event has no row owe none.
LEMMA RowsStep ==
    ASSUME NEW k, NEW es, NEW i \in DOMAIN es, NEW acc, NEW W, After(k, es, i, acc, W),
           \A j \in DOMAIN es : es[j].csv \in {"pending", "held", "done"},
           RowsOther(k, es, i)
    PROVE  RowsOnly(k, acc)
<1> SUFFICES ASSUME NEW j \in DOMAIN es, acc[j].csv # "done" PROVE Rowed(k, acc[j].ev)
  BY DEF RowsOnly, After
<1>1. acc[j].ev = es[j].ev /\ es[j].csv # "done"
  BY DEF After
<1>2. CASE j # i
  BY <1>1, <1>2 DEF RowsOther
<1>3. CASE j = i /\ es[j].csv = "held"
  BY <1>1, <1>3 DEF RowsOther
<1>4. CASE j = i /\ es[j].csv = "pending"
  BY <1>1, <1>4 DEF After
<1> QED BY <1>1, <1>2, <1>3, <1>4

\* All of it, for an entry whose turn it is.
LEMMA DispatchOrder ==
    ASSUME NEW es, NEW i \in DOMAIN es, Ready(es), NEW refused \in BOOLEAN,
           Dispatch(es, i, refused), tool' = tool, NEW S,
           Orderly(tool.kind, es, tracker, S), Turn(es, i), RowsOther(tool.kind, es, i)
    PROVE  /\ Orderly(tool.kind, owed', tracker', S)
           /\ RowsOnly(tool.kind, owed')
           /\ \A p, m : StepOwed(owed', p, m) => StepOwed(es, p, m)
           /\ \A p, m : tool.kind = "mg" /\ m # "NA" /\ Sound(es, tracker, m, p)
                           => Sound(owed', tracker', m, p)
<1>1. PICK acc, W, key : Dispatched(es, i, refused, acc, W, key)
  BY DispatchIs
<1>2. /\ acc \in Seq(Entry) /\ owed' = Owing(acc)
      /\ Moves(tool.kind, es, i, acc, W) /\ OnlyPublishes(es, i, acc, refused)
      /\ Writes(tool.kind, es, i, W, key)
      /\ TracksPorts(tool.kind, es[i].ev, tracker', tracker)
      /\ TracksChambers(tool.kind, es[i].ev, tracker', tracker)
  BY <1>1 DEF Dispatched
<1>3. tool.kind \in Kinds /\ es \in Seq(Entry)
  BY DEF Ready
<1>4. After(tool.kind, es, i, acc, W)
  BY <1>2, <1>3, AfterIs
<1>5. DOMAIN es = 1 .. Len(es) /\ Len(es) \in Nat
  BY <1>3, LenProperties
<1>6. DOMAIN es \subseteq Nat
  BY <1>5
<1>7. \A j \in DOMAIN es : IsEvent(tool.kind, es[j].ev) /\ es[j].csv \in {"pending", "held", "done"}
  BY <1>3, EntryFacts, EventFacts
<1>8. PICK o : o = Owing(acc)
  OBVIOUS
<1>9. owed' = o
  BY <1>2, <1>8
<1>10. PICK k, n, t : k = tool.kind /\ n = tracker' /\ t = tracker
  OBVIOUS
<1>11. Pub(es) /\ Ord(es) /\ Cover(k, es, S) /\ Known(k, es, t, S)
  BY <1>10 DEF Orderly
<1>12. Pub(acc) /\ Ord(acc)
  BY <1>4, <1>6, <1>11, PubStep, OrdStep
<1>13. Cover(k, acc, S)
  <2>1. k \in Kinds /\ After(k, es, i, acc, W) /\ Writes(k, es, i, W, key)
    BY <1>2, <1>3, <1>4, <1>10
  <2>2. \A j \in DOMAIN es : IsEvent(k, es[j].ev) /\ es[j].csv \in {"pending", "held", "done"}
    BY <1>7, <1>10
  <2> QED BY <2>1, <2>2, <1>5, <1>6, <1>11, CoverStep
<1>14. Known(k, acc, n, S)
  <2>1. k \in Kinds /\ After(k, es, i, acc, W) /\ TracksPorts(k, es[i].ev, n, t)
    BY <1>2, <1>3, <1>4, <1>10
  <2>2. \A j \in DOMAIN es : IsEvent(k, es[j].ev) /\ es[j].csv \in {"pending", "held", "done"}
    BY <1>7, <1>10
  <2> QED BY <2>1, <2>2, <1>5, <1>6, <1>11, KnownStep
<1>15. Pub(o) /\ Ord(o) /\ Cover(k, o, S) /\ Known(k, o, n, S)
  BY <1>2, <1>8, <1>12, <1>13, <1>14, OrderSifted
<1>16. /\ \A j \in DOMAIN o : \E l \in DOMAIN acc : o[j] = acc[l]
  BY <1>2, <1>8, SiftedBaseOnly
<1>17. RowsOnly(k, o)
  <2>1. RowsOnly(k, acc)
    BY <1>4, <1>7, <1>10, RowsStep
  <2> QED BY <2>1, <1>16 DEF RowsOnly
<1>18. ASSUME NEW p, NEW m, StepOwed(o, p, m) PROVE StepOwed(es, p, m)
  <2>1. PICK j \in DOMAIN o : /\ Publishes(o[j]) /\ o[j].ev.name = "pmStepStarted"
                              /\ o[j].ev.port = p /\ o[j].ev.pm = m
    BY <1>18 DEF StepOwed
  <2>2. PICK l \in DOMAIN acc : o[j] = acc[l]
    BY <1>16
  <2>3. l \in DOMAIN es /\ acc[l].ev = es[l].ev /\ Publishes(es[l])
    BY <2>1, <2>2, <1>4 DEF After
  <2> QED BY <2>1, <2>2, <2>3 DEF StepOwed
<1>19. ASSUME NEW p, NEW m, tool.kind = "mg", m # "NA", Sound(es, tracker, m, p) PROVE Sound(o, n, m, p)
  <2>1. After("mg", es, i, acc, W) /\ Writes("mg", es, i, W, key)
        /\ TracksChambers("mg", es[i].ev, n, t) /\ Sound(es, t, m, p)
    BY <1>2, <1>4, <1>10, <1>19
  <2>2. \A j \in DOMAIN es : IsEvent("mg", es[j].ev) /\ es[j].csv \in {"pending", "held", "done"}
    BY <1>7, <1>19
  <2>3. Sound(acc, n, m, p)
    BY <2>1, <2>2, <1>5, <1>6, <1>11, <1>19, SoundStep
  <2> QED BY <2>3, <1>2, <1>8, OrderSifted
<1>20. Orderly(tool.kind, owed', tracker', S) /\ RowsOnly(tool.kind, owed')
  BY <1>9, <1>10, <1>15, <1>17 DEF Orderly
<1>21. \A p, m : StepOwed(owed', p, m) => StepOwed(es, p, m)
  BY <1>9, <1>18
<1>22. \A p, m : tool.kind = "mg" /\ m # "NA" /\ Sound(es, tracker, m, p) => Sound(owed', tracker', m, p)
  BY <1>9, <1>10, <1>19
<1> QED BY <1>20, <1>21, <1>22

\* Port set S may become T at ev; only ev can still tell of a step's start.
Leads(k, ev, S, T) ==
    /\ \A q \in S : q \in T \/ (Unloads(k, ev) /\ ev.port = q)
    /\ Unloads(k, ev) \/ ev.port \in T

OnlyStep(es, ev) ==
    \A p, m : StepOwed(es, p, m) => ev.name = "pmStepStarted" /\ ev.port = p /\ ev.pm = m

\* An event arrives when every older one has been replayed.
LEMMA AppendOrder ==
    ASSUME owed \in Seq(Entry), tool.kind \in Kinds, Due = {},
           NEW S, Orderly(tool.kind, owed, tracker, S), RowsOnly(tool.kind, owed),
           NEW ev \in Event, NEW a, a = Append(owed, NewEntry(ev)),
           NEW T, Leads(tool.kind, ev, S, T)
    PROVE  /\ Orderly(tool.kind, a, tracker, T) /\ Turn(a, Len(owed) + 1)
           /\ RowsOther(tool.kind, a, Len(owed) + 1) /\ OnlyStep(a, ev)
<1>1. PICK k, n : k = tool.kind /\ n = Len(owed) + 1
  OBVIOUS
<1>2. /\ a \in Seq(Entry) /\ Len(owed) \in Nat /\ DOMAIN owed = 1 .. Len(owed)
      /\ Len(a) = n /\ DOMAIN a = 1 .. n
      /\ \A j \in DOMAIN owed : j \in DOMAIN a /\ a[j] = owed[j] /\ j < n /\ j \in Nat
      /\ \A j \in DOMAIN a : j \in DOMAIN owed \/ j = n
      /\ n \in DOMAIN a
      /\ a[n].ev = ev /\ a[n].csv = "pending"
  BY <1>1, Appending
<1>3. n \in Nat
  BY <1>1, <1>2
<1>4. \A j \in DOMAIN owed : owed[j].csv # "pending" /\ ~Publishes(owed[j])
  BY DEF Due, Unread, Publishes
<1>5. Cover(k, owed, S) /\ Known(k, owed, tracker, S)
  BY <1>1 DEF Orderly
<1>6. Pub(a)
  BY <1>2, <1>4 DEF Pub
<1>7. Ord(a)
  <2> SUFFICES ASSUME NEW x \in DOMAIN a, NEW y \in DOMAIN a, x < y,
                      a[x].csv = "pending", a[y].csv = "held"
               PROVE  FALSE
    BY DEF Ord
  <2>1. x = n
    BY <1>2, <1>4
  <2>2. y = n
    BY <1>2, <2>1, <1>3
  <2> QED BY <1>2, <2>2
<1>8. \A q \in S : q \in T \/ Removes(k, a[n], q)
  BY <1>1, <1>2 DEF Removes, Leads
<1>9. Cover(k, a, T)
  <2> SUFFICES ASSUME NEW x \in DOMAIN a, OwesEntry(a[x]), States(k, a[x].ev),
                      ~Unloads(k, a[x].ev), a[x].ev.port \notin T
               PROVE  Leaves(k, a, x, a[x].ev.port)
    BY DEF Cover
  <2>1. x # n
    BY <1>1, <1>2 DEF Leads
  <2>2. x \in DOMAIN owed /\ a[x] = owed[x] /\ x < n
    BY <2>1, <1>2
  <2>3. CASE owed[x].ev.port \in S
    <3>1. Removes(k, a[n], a[x].ev.port)
      BY <2>2, <2>3, <1>8
    <3> QED BY <2>2, <3>1, <1>2 DEF Leaves
  <2>4. CASE Leaves(k, owed, x, owed[x].ev.port)
    <3>1. PICK y \in DOMAIN owed : x < y /\ Removes(k, owed[y], owed[x].ev.port) /\ owed[y].csv # "done"
      BY <2>4 DEF Leaves
    <3> QED BY <2>2, <3>1, <1>2 DEF Leaves
  <2> QED BY <2>2, <2>3, <2>4, <1>5 DEF Cover
<1>10. Known(k, a, tracker, T)
  <2> SUFFICES ASSUME NEW p \in PortsKnown(tracker), p \notin T
               PROVE  \E j \in DOMAIN a : a[j].csv = "pending" /\ Removes(k, a[j], p)
    BY DEF Known
  <2>1. p \in S
    BY <1>4, <1>5 DEF Known
  <2> QED BY <2>1, <1>2, <1>8
<1>11. Turn(a, n)
  <2>1. \A j \in DOMAIN a : j < n => a[j].csv # "pending"
    BY <1>2, <1>3, <1>4
  <2> QED BY <2>1, <1>2 DEF Turn
<1>12. RowsOther(k, a, n)
  <2> SUFFICES ASSUME NEW j \in DOMAIN a, a[j].csv # "done", j # n \/ a[j].csv = "held"
               PROVE  Rowed(k, a[j].ev)
    BY DEF RowsOther
  <2>1. j # n
    BY <1>2
  <2> QED BY <2>1, <1>1, <1>2 DEF RowsOnly
<1>13. ASSUME NEW p, NEW m, StepOwed(a, p, m)
       PROVE  ev.name = "pmStepStarted" /\ ev.port = p /\ ev.pm = m
  <2>1. PICK j \in DOMAIN a : /\ Publishes(a[j]) /\ a[j].ev.name = "pmStepStarted"
                              /\ a[j].ev.port = p /\ a[j].ev.pm = m
    BY <1>13 DEF StepOwed
  <2>2. j = n
    BY <2>1, <1>2, <1>4
  <2> QED BY <2>1, <2>2, <1>2
<1> QED BY <1>1, <1>6, <1>7, <1>9, <1>10, <1>11, <1>12, <1>13 DEF Orderly, OnlyStep

\* A report of another wafer, or of the step, changes nothing for module m.
LEMMA SoundAppend ==
    ASSUME owed \in Seq(Entry), NEW ev \in Event, NEW a, a = Append(owed, NewEntry(ev)),
           NEW t, NEW m, NEW p, Sound(owed, t, m, p), ~Teaches("mg", ev, m),
           ev.port # p \/ ev.name = "pmStepStarted"
    PROVE  Sound(a, t, m, p)
<1>1. PICK n : n = Len(owed) + 1
  OBVIOUS
<1>2. /\ \A j \in DOMAIN owed : j \in DOMAIN a /\ a[j] = owed[j]
      /\ \A j \in DOMAIN a : j \in DOMAIN owed \/ j = n
      /\ a[n].ev = ev
  BY <1>1, Appending
<1>3. CASE Mine(owed, m, p) /\ Bound(t, m, p)
  <2>1. Mine(a, m, p)
    BY <1>2, <1>3 DEF Mine
  <2> QED BY <2>1, <1>3 DEF Sound
<1>4. ASSUME NEW w \in DOMAIN owed, StartsAt(owed, w, t, m, p) PROVE Sound(a, t, m, p)
  <2>1. ASSUME NEW j \in DOMAIN a, w < j
        PROVE  /\ ~Teaches("mg", a[j].ev, m)
               /\ a[j].ev.port # p \/ a[j].ev.name = "pmStepStarted"
    BY <2>1, <1>2, <1>4 DEF StartsAt
  <2>2. w \in DOMAIN a /\ a[w] = owed[w]
    BY <1>2
  <2>3. StartsAt(a, w, t, m, p)
    BY <2>1, <2>2, <1>4 DEF StartsAt
  <2> QED BY <2>2, <2>3 DEF Sound
<1> QED BY <1>3, <1>4 DEF Sound

\* A wafer start that arrives makes its module sound.
LEMMA SoundStart ==
    ASSUME owed \in Seq(Entry), NEW ev \in Event, NEW a, a = Append(owed, NewEntry(ev)),
           NEW t, NEW m, NEW p, ev.name = "pmWaferStarted", ev.port = p, ev.pm = m
    PROVE  Sound(a, t, m, p)
<1>1. PICK n : n = Len(owed) + 1
  OBVIOUS
<1>2. /\ n \in DOMAIN a /\ a[n].ev = ev /\ a[n].csv = "pending"
      /\ \A j \in DOMAIN a : ~(n < j)
  <2>1. /\ n \in DOMAIN a /\ a[n].ev = ev /\ a[n].csv = "pending" /\ Len(owed) \in Nat
        /\ DOMAIN a = 1 .. n
    BY <1>1, Appending
  <2> QED BY <2>1, <1>1
<1>3. StartsAt(a, n, t, m, p)
  BY <1>2 DEF StartsAt
<1> QED BY <1>2, <1>3 DEF Sound

\* The row of a step's start is the port it is bound to, or none.
LEMMA SoundPort ==
    ASSUME NEW es, NEW i \in DOMAIN es, Ready(es), Turn(es, i), Pub(es),
           ~Rowed(tool.kind, es[i].ev) => es[i].csv = "done" \/ i = Len(es),
           NEW ev, ev = es[i].ev,
           tool.kind = "mg" /\ ~States("mg", ev) => Sound(es, tracker, ev.pm, ev.port) /\ ev.pm # "NA",
           NEW row, RowOf(tool.kind, ev, row, tracker)
    PROVE  row.port \in {"", ev.port}
<1>1. /\ tool.kind \in Kinds /\ es \in Seq(Entry) /\ PortsKnown(tracker) \subseteq Ports
  BY DEF Ready
<1>2. ev \in Event /\ IsEvent(tool.kind, ev) /\ ev.port \in Ports
  BY <1>1, EntryFacts, EventFacts
<1>3. CASE States(tool.kind, ev)
  BY <1>3 DEF RowOf
<1>4. CASE tool.kind = "davinci" /\ ~States(tool.kind, ev)
  <2>1. row.port \in PortsKnown(tracker) \cup {""}
    BY <1>4 DEF RowOf
  <2> QED BY <2>1, <1>1, <1>2, <1>4, PortsAre
<1>5. CASE tool.kind = "mg" /\ ~States(tool.kind, ev) /\ row.port # ""
  <2>1. Sound(es, tracker, ev.pm, ev.port) /\ ev.pm # "NA"
    BY <1>5
  <2>2. PICK x \in DOMAIN tracker.chamberPorts :
           tracker.chamberPorts[x].key = ev.pm /\ tracker.chamberPorts[x].port = row.port
    BY <1>5, <2>1 DEF RowOf
  <2>3. Bound(tracker, ev.pm, ev.port)
    <3>1. ~Rowed("mg", ev)
      BY <1>2, <1>5, ProfileIs DEF Kinds
    <3>2. i = Len(es)
      <4>1. es[i].csv = "done" \/ i = Len(es)
        BY <1>5, <3>1
      <4>2. CASE es[i].csv = "done"
        BY <4>2 DEF Turn, Pub
      <4> QED BY <4>1, <4>2
    <3>3. DOMAIN es = 1 .. Len(es) /\ Len(es) \in Nat
      BY <1>1, LenProperties
    <3>4. ASSUME NEW w \in DOMAIN es, StartsAt(es, w, tracker, ev.pm, ev.port)
          PROVE  Bound(tracker, ev.pm, ev.port)
      <4>1. es[w].ev.name = "pmWaferStarted" /\ es[w].ev.pm = ev.pm
        BY <3>4 DEF StartsAt
      <4>2. States("mg", es[w].ev)
        <5>1. IsEvent("mg", es[w].ev)
          BY <1>1, <1>5, EntryFacts, EventFacts
        <5>2. Teaches("mg", es[w].ev, es[w].ev.pm)
          BY <4>1, <5>1, WaferStartIs
        <5> QED BY <5>2 DEF Teaches
      <4>3. w # i
        BY <4>2, <1>5
      <4>4. w < i
        BY <3>2, <3>3, <4>3
      <4>5. es[w].csv # "pending"
        BY <4>4 DEF Turn
      <4> QED BY <4>5, <3>4 DEF StartsAt
    <3> QED BY <2>1, <3>4 DEF Sound
  <2> QED BY <2>2, <2>3 DEF Bound
<1>6. tool.kind = "mg" \/ tool.kind = "davinci"
  BY <1>1 DEF Kinds
<1> QED BY <1>3, <1>4, <1>5, <1>6

(***************************************************************************)
(* The part of the invariant that holds while nothing was overtaken.       *)
(***************************************************************************)
Placed == lingering \cup {p \in Ports : Active(p)}

\* The next event of port p is the start of a step in m, and will be sent.
StepDue(p, m) ==
    /\ AtStep(p, "pmStepStarted") /\ lots[p].pm = m
    /\ tool.refused # <<"process_module", m>>

StepNamed(es) == \A j \in DOMAIN es : es[j].ev.name = "pmStepStarted" => es[j].ev.pm # "NA"

StepSound ==
    tool.kind = "mg" =>
       \A p \in Ports \ missed, m \in Modules :
          StepDue(p, m) \/ StepOwed(owed, p, m) => Sound(owed, tracker, m, p)

InOrder ==
    ~overtaken =>
       /\ Orderly(tool.kind, owed, tracker, Placed) /\ RowsOnly(tool.kind, owed)
       /\ StepNamed(owed) /\ StepSound

\* More ports may be placed.
LEMMA OrderlyMore ==
    ASSUME NEW k, NEW es, NEW t, NEW S, NEW T, S \subseteq T, Orderly(k, es, t, S)
    PROVE  Orderly(k, es, t, T)
<1>1. Cover(k, es, T)
  BY DEF Orderly, Cover
<1>2. Known(k, es, t, T)
  BY DEF Orderly, Known
<1> QED BY <1>1, <1>2 DEF Orderly

\* A step that tells the host nothing.
LEMMA InOrderQuiet ==
    ASSUME InOrder, tool' = tool, owed' = owed, tracker' = tracker, overtaken' = overtaken,
           missed \subseteq missed', Placed \subseteq Placed',
           \A p \in Ports \ missed', m \in Modules : StepDue(p, m)' => StepDue(p, m)
    PROVE  InOrder'
<1> SUFFICES ASSUME ~overtaken
             PROVE  /\ Orderly(tool'.kind, owed', tracker', Placed') /\ RowsOnly(tool'.kind, owed')
                    /\ StepNamed(owed') /\ StepSound'
  BY DEF InOrder
<1>1. /\ Orderly(tool.kind, owed, tracker, Placed) /\ RowsOnly(tool.kind, owed)
      /\ StepNamed(owed) /\ StepSound
  BY DEF InOrder
<1>2. Orderly(tool.kind, owed, tracker, Placed')
  BY <1>1, OrderlyMore
<1>3. Ports' = Ports
  BY SameTool
<1>4. StepSound'
  <2> SUFFICES ASSUME tool.kind = "mg", NEW p \in Ports \ missed', NEW m \in Modules,
                      StepDue(p, m)' \/ StepOwed(owed, p, m)
               PROVE  Sound(owed, tracker, m, p)
    BY <1>3 DEF StepSound
  <2>1. StepDue(p, m) \/ StepOwed(owed, p, m)
    OBVIOUS
  <2> QED BY <2>1, <1>1 DEF StepSound
<1> QED BY <1>1, <1>2, <1>4

(***************************************************************************)
(* Memory is gone.                                                         *)
(***************************************************************************)
\* Rows that a clean stop wrote: with one of a port all that were held, and
\* with any those of every lot that was named.
Gone(es, gone) ==
    /\ \A j \in DOMAIN es : es[j].ev \in gone => es[j].csv = "held"
    /\ \A j, l \in DOMAIN es :
          /\ es[l].ev \in gone /\ es[j].csv = "held" /\ es[j].ev.port = es[l].ev.port
          /\ States(tool.kind, es[j].ev) /\ States(tool.kind, es[l].ev)
          => es[j].ev \in gone
    /\ gone = {} \/ \A j \in DOMAIN es :
          es[j].csv = "held" /\ States(tool.kind, es[j].ev) /\ Named(tool.kind, es[j].ev)
             => es[j].ev \in gone

\* A crash writes nothing.
LEMMA GoneNone == ASSUME NEW es PROVE Gone(es, {})
BY DEF Gone

\* A clean stop writes every buffer.
LEMMA GoneWritten ==
    ASSUME HostInv, tool.kind \in Kinds, NEW gone,
           gone = UNION {{buffers[k].rows[i].of : i \in DOMAIN buffers[k].rows} : k \in Keys}
    PROVE  Gone(owed, gone)
<1>1. /\ owed \in Seq(Entry) /\ Uniq(owed) /\ ShelvesOK(buffers, preLot)
      /\ ShelvedHeld(owed, buffers, preLot) /\ ShelvedApart(tool.kind, buffers, preLot)
      /\ HeldShelved(tool.kind, owed, buffers, preLot)
  BY DEF HostInv, Shelved
<1>2. \A e : e \in gone <=> \E k \in Keys : e \in Evs(buffers[k].rows)
  BY DEF Evs
<1>3. \A k \in Keys : \A e \in Evs(buffers[k].rows) : e \in Here(buffers[k], preLot[k])
  BY DEF Here
<1>4. ASSUME NEW j \in DOMAIN owed, owed[j].ev \in gone PROVE owed[j].csv = "held"
  <2>1. PICK k \in Keys : owed[j].ev \in Here(buffers[k], preLot[k])
    BY <1>2, <1>3, <1>4
  <2>2. PICK l \in DOMAIN owed : owed[l].ev = owed[j].ev /\ owed[l].csv = "held"
    BY <2>1, <1>1 DEF ShelvedHeld
  <2> QED BY <2>2, <1>1 DEF Uniq
<1>5. \A j \in DOMAIN owed : owed[j].ev.port \in Keys
  BY <1>1, EntryFacts, EventFacts, PortsAre
<1>6. ASSUME NEW j \in DOMAIN owed, NEW l \in DOMAIN owed, owed[l].ev \in gone,
             owed[j].csv = "held", owed[j].ev.port = owed[l].ev.port,
             States(tool.kind, owed[j].ev), States(tool.kind, owed[l].ev)
      PROVE  owed[j].ev \in gone
  <2>1. PICK k \in Keys : owed[l].ev \in Evs(buffers[k].rows)
    BY <1>2, <1>6
  <2>2. k = owed[l].ev.port
    BY <2>1, <1>1, <1>3, <1>6 DEF ShelvedApart
  <2>3. owed[j].ev \in Here(buffers[k], preLot[k])
    BY <2>2, <1>1, <1>6 DEF HeldShelved
  <2>4. buffers[k].rows # <<>>
    BY <2>1, EvsEmpty
  <2>5. preLot[k] = <<>>
    BY <2>4, <1>1 DEF ShelvesOK, ShelfOK
  <2>6. owed[j].ev \in Evs(buffers[k].rows)
    BY <2>3, <2>5, EvsEmpty DEF Here
  <2> QED BY <2>6, <1>2
<1>7. ASSUME NEW j \in DOMAIN owed, owed[j].csv = "held",
             States(tool.kind, owed[j].ev), Named(tool.kind, owed[j].ev)
      PROVE  owed[j].ev \in gone
  <2>1. PICK k \in Keys : k = owed[j].ev.port
    BY <1>5
  <2>2. owed[j].ev \in Here(buffers[k], preLot[k])
    BY <2>1, <1>1, <1>7 DEF HeldShelved
  <2>3. owed[j].ev \notin Evs(preLot[k])
    BY <1>1, <1>7 DEF ShelvedApart
  <2> QED BY <2>2, <2>3, <1>2 DEF Here
<1> QED BY <1>4, <1>6, <1>7 DEF Gone

\* The order is kept when memory is gone: what was held is read again.
LEMMA ForgetOrder ==
    ASSUME tool.kind \in Kinds, owed \in Seq(Entry), NEW S,
           Orderly(tool.kind, owed, tracker, S), RowsOnly(tool.kind, owed),
           NEW gone, Gone(owed, gone), Forget(gone), tool' = tool
    PROVE  /\ Orderly(tool.kind, owed', tracker', S) /\ RowsOnly(tool.kind, owed')
           /\ \A j \in DOMAIN owed' : \E l \in DOMAIN owed : owed'[j].ev = owed[l].ev
           /\ \A p, m : StepOwed(owed', p, m) => StepOwed(owed, p, m)
           /\ \A p, m : tool.kind = "mg" /\ Sound(owed, tracker, m, p)
                           => Sound(owed', tracker', m, p)
<1>1. PICK acc \in Seq(Entry) : owed' = Owing(acc) /\ Forgotten(owed, acc, gone)
  BY ForgetIs
<1>2. PortsKnown(tracker') = {} /\ tracker'.chamberPorts = <<>>
  BY ForgetIs, LoseIs
<1>3. PICK k, es, n, o : /\ k = tool.kind /\ es = owed /\ n = tracker' /\ o = Owing(acc)
  OBVIOUS
<1>4. /\ Pub(es) /\ Ord(es) /\ Cover(k, es, S) /\ RowsOnly(k, es) /\ k \in Kinds /\ es \in Seq(Entry)
  BY <1>3 DEF Orderly
<1>5. DOMAIN es = 1 .. Len(es) /\ Len(es) \in Nat /\ DOMAIN acc = DOMAIN es /\ Len(acc) = Len(es)
  BY <1>1, <1>3, <1>4, LenProperties DEF Forgotten
<1>6. \A j \in DOMAIN es : IsEvent(k, es[j].ev) /\ es[j].csv \in {"pending", "held", "done"}
  BY <1>3, <1>4, EntryFacts, EventFacts
<1>7. ASSUME NEW j \in DOMAIN es
      PROVE  /\ acc[j].ev = es[j].ev
             /\ Publishes(acc[j]) <=> Publishes(es[j])
             /\ acc[j].csv # "held"
             /\ acc[j].csv # "done" <=> es[j].csv # "done" /\ es[j].ev \notin gone
  <2>1. /\ acc[j].ev = es[j].ev /\ acc[j].publish = es[j].publish
        /\ acc[j].csv = IF es[j].ev \in gone THEN "done"
                        ELSE IF es[j].csv = "held" THEN "pending" ELSE es[j].csv
    BY <1>1, <1>3 DEF Forgotten
  <2> QED BY <2>1, <1>6 DEF Publishes
<1>8. /\ \A j \in DOMAIN es : es[j].ev \in gone => es[j].csv = "held"
      /\ \A j, l \in DOMAIN es :
            /\ es[l].ev \in gone /\ es[j].csv = "held" /\ es[j].ev.port = es[l].ev.port
            /\ States(k, es[j].ev) /\ States(k, es[l].ev)
            => es[j].ev \in gone
      /\ gone = {} \/ \A j \in DOMAIN es :
            es[j].csv = "held" /\ States(k, es[j].ev) /\ Named(k, es[j].ev) => es[j].ev \in gone
  BY <1>3 DEF Gone
<1>9. Pub(acc) /\ Ord(acc)
  BY <1>4, <1>5, <1>7 DEF Pub, Ord
\* What comes before another entry and is still owed was not written.
<1>10. ASSUME NEW x \in DOMAIN es, NEW y \in DOMAIN es, x < y, OwesEntry(acc[x])
       PROVE  es[x].csv # "done" /\ es[x].ev \notin gone /\ (es[x].csv = "pending" => es[y].csv # "held")
  <2>1. x # Len(es)
    BY <1>5, <1>10
  <2>2. ~Publishes(acc[x])
    BY <2>1, <1>4, <1>7 DEF Pub
  <2>3. acc[x].csv # "done"
    BY <2>2, <1>10 DEF OwesEntry, Publishes
  <2> QED BY <2>3, <1>4, <1>7, <1>10 DEF Ord
<1>11. Cover(k, acc, S)
  <2> SUFFICES ASSUME NEW x \in DOMAIN es, OwesEntry(acc[x]), States(k, acc[x].ev),
                      ~Unloads(k, acc[x].ev), acc[x].ev.port \notin S
               PROVE  Leaves(k, acc, x, acc[x].ev.port)
    BY <1>5 DEF Cover
  <2>1. acc[x].ev = es[x].ev /\ OwesEntry(es[x])
    BY <1>7 DEF OwesEntry, Publishes
  <2>2. Leaves(k, es, x, es[x].ev.port)
    BY <2>1, <1>4 DEF Cover
  <2>3. PICK y \in DOMAIN es : x < y /\ Removes(k, es[y], es[x].ev.port) /\ es[y].csv # "done"
    BY <2>2 DEF Leaves
  <2>4. Unloads(k, es[y].ev) /\ es[y].ev.port = es[x].ev.port /\ States(k, es[y].ev)
    BY <2>3, <1>4, <1>6, ProfileIs DEF Removes
  <2>5. es[y].ev \notin gone
    <3> SUFFICES ASSUME es[y].ev \in gone PROVE FALSE
      OBVIOUS
    <3>1. es[y].csv = "held"
      BY <1>8
    <3>2. es[x].csv = "held" /\ es[x].ev \notin gone
      BY <3>1, <2>3, <1>6, <1>10
    <3> QED BY <3>2, <2>1, <2>4, <1>8
  <2>6. acc[y].csv # "done" /\ Removes(k, acc[y], es[x].ev.port)
    BY <2>3, <2>5, <1>7 DEF Removes
  <2> QED BY <2>1, <2>3, <2>6, <1>5 DEF Leaves
<1>12. Known(k, acc, n, S)
  BY <1>2, <1>3 DEF Known
<1>13. RowsOnly(k, acc)
  BY <1>4, <1>5, <1>7 DEF RowsOnly
<1>14. \A m, p : Bound(n, m, p)
  BY <1>2, <1>3 DEF Bound
<1>15. ASSUME NEW m, NEW p, k = "mg", Sound(es, tracker, m, p) PROVE Sound(acc, n, m, p)
  <2>1. CASE Mine(es, m, p)
    <3>1. \A j \in DOMAIN es : OwesEntry(acc[j]) => OwesEntry(es[j])
      BY <1>7 DEF OwesEntry, Publishes
    <3>2. Mine(acc, m, p)
      BY <2>1, <3>1, <1>5, <1>7 DEF Mine
    <3> QED BY <3>2, <1>14 DEF Sound
  <2>2. ASSUME NEW w \in DOMAIN es, StartsAt(es, w, tracker, m, p) PROVE Sound(acc, n, m, p)
    <3>1. /\ es[w].ev.name = "pmWaferStarted" /\ es[w].ev.port = p /\ es[w].ev.pm = m
          /\ es[w].csv # "done"
      BY <2>2 DEF StartsAt
    <3>2. \A j \in DOMAIN es : w < j =>
             /\ ~Teaches("mg", es[j].ev, m)
             /\ es[j].ev.port # p \/ es[j].ev.name = "pmStepStarted"
      BY <2>2 DEF StartsAt
    <3>3. CASE es[w].ev \notin gone
      <4>1. acc[w].csv # "done" /\ acc[w].ev = es[w].ev
        BY <3>1, <3>3, <1>7
      <4>2. \A j \in DOMAIN acc : w < j =>
             /\ ~Teaches("mg", acc[j].ev, m)
             /\ acc[j].ev.port # p \/ acc[j].ev.name = "pmStepStarted"
        BY <3>2, <1>5, <1>7
      <4>3. StartsAt(acc, w, n, m, p)
        BY <3>1, <4>1, <4>2, <1>14 DEF StartsAt
      <4> QED BY <4>3, <1>5 DEF Sound
    <3>4. CASE es[w].ev \in gone
      <4>1. es[w].csv = "held" /\ gone # {}
        BY <3>4, <1>8
      <4>2. ASSUME NEW x \in DOMAIN es, OwesEntry(acc[x]), Teaches("mg", es[x].ev, m)
            PROVE  es[x].ev.port = p
        <5>1. x \in Nat /\ w \in Nat
          BY <1>5
        <5>2. CASE x = w
          BY <5>2, <3>1
        <5>3. CASE w < x
          BY <5>3, <4>2, <3>2
        <5>4. CASE x < w
          <6>1. es[x].csv = "held" /\ es[x].ev \notin gone
            BY <5>4, <4>1, <4>2, <1>6, <1>10
          <6>2. Rowed("mg", es[x].ev)
            BY <6>1, <1>4, <1>15 DEF RowsOnly
          <6>3. States("mg", es[x].ev) /\ Teaches("mg", es[x].ev, es[x].ev.pm)
            BY <4>2 DEF Teaches
          <6>4. Named("mg", es[x].ev)
            BY <6>2, <6>3, <1>6, <1>15, ProfileIs DEF Kinds
          <6> QED BY <6>1, <6>3, <6>4, <4>1, <1>8, <1>15
        <5> QED BY <5>1, <5>2, <5>3, <5>4
      <4>3. Mine(acc, m, p)
        BY <4>2, <1>5, <1>7 DEF Mine
      <4> QED BY <4>3, <1>14 DEF Sound
    <3> QED BY <3>3, <3>4
  <2> QED BY <1>15, <2>1, <2>2 DEF Sound
<1>16. Pub(o) /\ Ord(o) /\ Cover(k, o, S) /\ Known(k, o, n, S)
  BY <1>3, <1>9, <1>11, <1>12, OrderSifted
<1>17. \A j \in DOMAIN o : \E l \in DOMAIN acc : o[j] = acc[l]
  BY <1>3, SiftedBaseOnly
<1>18. RowsOnly(k, o)
  BY <1>13, <1>17 DEF RowsOnly
<1>19. \A j \in DOMAIN o : \E l \in DOMAIN es : o[j].ev = es[l].ev
  BY <1>5, <1>7, <1>17
<1>20. ASSUME NEW p, NEW m, StepOwed(o, p, m) PROVE StepOwed(es, p, m)
  <2>1. PICK j \in DOMAIN o : /\ Publishes(o[j]) /\ o[j].ev.name = "pmStepStarted"
                              /\ o[j].ev.port = p /\ o[j].ev.pm = m
    BY <1>20 DEF StepOwed
  <2>2. PICK l \in DOMAIN acc : o[j] = acc[l]
    BY <1>17
  <2>3. l \in DOMAIN es /\ acc[l].ev = es[l].ev /\ Publishes(es[l])
    BY <2>1, <2>2, <1>5, <1>7
  <2> QED BY <2>1, <2>2, <2>3 DEF StepOwed
<1>21. ASSUME NEW p, NEW m, k = "mg", Sound(es, tracker, m, p) PROVE Sound(o, n, m, p)
  BY <1>3, <1>15, <1>21, OrderSifted
<1>22. owed' = o
  BY <1>1, <1>3
<1>23. Orderly(tool.kind, owed', tracker', S) /\ RowsOnly(tool.kind, owed')
  BY <1>3, <1>16, <1>18, <1>22 DEF Orderly
<1>24. \A j \in DOMAIN owed' : \E l \in DOMAIN owed : owed'[j].ev = owed[l].ev
  BY <1>3, <1>19, <1>22
<1>25. \A p, m : StepOwed(owed', p, m) => StepOwed(owed, p, m)
  BY <1>3, <1>20, <1>22
<1>26. \A p, m : tool.kind = "mg" /\ Sound(owed, tracker, m, p) => Sound(owed', tracker', m, p)
  BY <1>3, <1>21, <1>22
<1> QED BY <1>23, <1>24, <1>25, <1>26

\* Of the MG only the start of a step states no port.
LEMMA StatesIs ==
    ASSUME NEW ev, IsEvent("mg", ev)
    PROVE  States("mg", ev) <=> ev.name # "pmStepStarted"
<1>1. ev.name \in MgNames
  BY NamesAre DEF IsEvent
<1>2. PICK a : a = About("mg", ev)
  OBVIOUS
<1>3. a.layout = MgReport(ev.name) /\ (a.namesPort <=> ev.name \in MgNamesPort)
  BY <1>1, <1>2, MgAbout
<1>4. ev.name \in MgNamesPort \/ "port" \in MgReport(ev.name) <=> ev.name # "pmStepStarted"
  BY <1>1, MgTable
<1> QED BY <1>2, <1>3, <1>4 DEF States

\* A removal is an unloading.
LEMMA RemovalsUnload ==
    ASSUME tool.kind \in Kinds, NEW ev, IsEvent(tool.kind, ev), ev.name \in Removals
    PROVE  Unloads(tool.kind, ev)
<1>1. CASE tool.kind = "mg"
  <2>1. ev.name \in MgNames
    BY <1>1, NamesAre DEF IsEvent
  <2>2. ev.name = "portCasRemoved"
    BY <2>1 DEF MgNames, Removals
  <2> QED BY <1>1, <2>2, LastUnloads
<1>2. CASE tool.kind = "davinci"
  <2>1. ev.name \in DavinciNames
    BY <1>2, NamesAre DEF IsEvent
  <2>2. ev.name = "CarrierDeparted"
    BY <2>1 DEF DavinciNames, Removals
  <2>3. About("davinci", ev).transition = DavinciTransition(ev.name)
    BY <2>1, DavinciAbout
  <2>4. DavinciTransition(ev.name) = "lp_deactivate_from_payload"
    BY <2>1, <2>2, DavinciTable
  <2> QED BY <1>2, <2>3, <2>4 DEF Unloads
<1> QED BY <1>1, <1>2 DEF Kinds

\* How far the lots are, after the lot of port p went on.
LEMMA ActiveGoes ==
    ASSUME ToolTyped, NEW p \in Ports, NEW at \in Nat, lots[p].at < at, NEW m, Goes(p, at, m),
           NEW q \in Ports, Active(q)
    PROVE  Active(q)' \/ (q = p /\ at > Len(Script))
<1>1. /\ tool' = tool /\ SameLots(AllPorts \ {p}) /\ lots'[p].at = at
  BY DEF Goes
<1>2. Script' = Script /\ q \in AllPorts /\ p \in AllPorts
  BY <1>1, SameTool, PortsAll
<1>3. CASE q # p
  <2>1. lots'[q] = lots[q]
    BY <1>1, <1>2, <1>3 DEF SameLots
  <2> QED BY <2>1, <1>2 DEF Active, Finished
<1>4. CASE q = p /\ ~(at > Len(Script))
  <2>1. lots[p].at \in Nat
    BY <1>2, LotIs DEF ToolTyped
  <2>2. lots[p].at > 1
    BY <1>4 DEF Active
  <2>3. at > 1
    BY <2>1, <2>2
  <2> QED BY <1>1, <1>2, <1>4, <2>3 DEF Active, Finished
<1> QED BY <1>3, <1>4

\* Which port is at the start of a step, after a lot went on.
LEMMA StepGoes ==
    ASSUME ToolTyped, NEW p \in Ports, NEW at, NEW m, Goes(p, at, m),
           NEW q \in Ports, AtStep(q, "pmStepStarted")'
    PROVE  \/ q # p /\ AtStep(q, "pmStepStarted") /\ lots'[q] = lots[q]
           \/ q = p /\ at \in DOMAIN Script /\ Script[at] = "pmStepStarted" /\ lots'[q].pm = m
<1>1. /\ tool' = tool /\ SameLots(AllPorts \ {p}) /\ lots'[p].at = at /\ lots'[p].pm = m
  BY DEF Goes
<1>2. Script' = Script /\ q \in AllPorts /\ p \in AllPorts
  BY <1>1, SameTool, PortsAll
<1>3. CASE q # p
  <2>1. lots'[q] = lots[q]
    BY <1>1, <1>2, <1>3 DEF SameLots
  <2> QED BY <1>2, <1>3, <2>1 DEF AtStep
<1>4. CASE q = p
  BY <1>1, <1>2, <1>4 DEF AtStep
<1> QED BY <1>3, <1>4

\* An event that is received while every older one has been replayed.
LEMMA ReceiveOrder ==
    ASSUME Base, InOrder, NEW p \in Ports, ReadyToFire(p), NEW pm \in ModuleOf(p), pm \in Modules0,
           Sent(p, pm), NEW refused \in BOOLEAN, Receive(p, pm, refused),
           NEW at \in Nat, lots[p].at < at, NEW m0, Goes(p, at, m0),
           NEW ev, ev = EventOf(p, pm),
           \A q \in Placed : q \in Placed' \/ (Unloads(tool.kind, ev) /\ p = q),
           Unloads(tool.kind, ev) \/ p \in Placed',
           missed' \in {missed, missed \ {p}},
           AtStep(p, "pmStepStarted") => missed' = missed,
           at \in DOMAIN Script /\ Script[at] = "pmStepStarted" =>
              AtStep(p, "pmWaferStarted") /\ m0 = pm
    PROVE  InOrder' /\ AttributionSound'
<1>1. /\ ToolTyped /\ ToolInv /\ HostInv /\ Fresh(owed) /\ tool.kind \in Kinds
      /\ owed \in Seq(Entry) /\ tool' = tool
  BY DEF Base, HostInv, ToolTyped, Goes
<1>2. ev \in Event /\ ev.name = Script[lots[p].at] /\ ev.port = p /\ ev.pm = pm /\ ~Older(ev)
  BY <1>1, NextEvent
<1>3. PICK a, n : a = Append(owed, NewEntry(ev)) /\ n = Len(owed) + 1
  OBVIOUS
<1>4. Ready(a) /\ n \in DOMAIN a
  BY <1>1, <1>2, <1>3, ReadyAppend
<1>5. Dispatch(a, n, refused) /\ overtaken' = (overtaken \/ Overtakes)
  BY <1>3 DEF Receive, NewEntry
<1>6. a[n].ev = ev /\ n = Len(a) /\ (\A j \in DOMAIN a : j \in DOMAIN owed \/ j = n)
      /\ \A j \in DOMAIN owed : a[j] = owed[j]
  BY <1>1, <1>2, <1>3, Appending
<1>7. PICK row : /\ RowOf(tool.kind, ev, row, tracker)
                 /\ last' = [given |-> row.port, true |-> ev.port,
                             sure |-> ev.port \notin missed /\ ~overtaken']
  <2>1. Attributed(ev)
    BY <1>4, <1>5, <1>6, DispatchIs
  <2> QED BY <2>1, Zenon DEF Attributed
<1>8. CASE overtaken'
  <2>1. ~last'.sure
    BY <1>7, <1>8
  <2> QED BY <1>8, <2>1 DEF InOrder, AttributionSound
<1>9. CASE ~overtaken'
  <2>1. ~overtaken /\ Due = {}
    BY <1>5, <1>9 DEF Overtakes
  <2>2. /\ Orderly(tool.kind, owed, tracker, Placed) /\ RowsOnly(tool.kind, owed)
        /\ StepNamed(owed) /\ StepSound
    BY <2>1 DEF InOrder
  <2>3. PICK S, T : S = Placed /\ T = Placed'
    OBVIOUS
  <2>4. Leads(tool.kind, ev, S, T)
    BY <1>2, <2>3 DEF Leads
  <2>5. /\ Orderly(tool.kind, a, tracker, T) /\ Turn(a, n) /\ RowsOther(tool.kind, a, n)
        /\ \A q, m : StepOwed(a, q, m) => ev.name = "pmStepStarted" /\ ev.port = q /\ ev.pm = m
    <3>1. Orderly(tool.kind, owed, tracker, S) /\ RowsOnly(tool.kind, owed)
      BY <2>2, <2>3
    <3>2. /\ owed \in Seq(Entry) /\ tool.kind \in Kinds /\ Due = {} /\ ev \in Event
          /\ a = Append(owed, NewEntry(ev))
      BY <1>1, <1>2, <1>3, <2>1
    <3>3. /\ Orderly(tool.kind, a, tracker, T) /\ Turn(a, Len(owed) + 1)
          /\ RowsOther(tool.kind, a, Len(owed) + 1) /\ OnlyStep(a, ev)
      BY <2>4, <3>1, <3>2, AppendOrder
    <3> QED BY <1>3, <3>3 DEF OnlyStep
  <2>6. /\ Orderly(tool.kind, owed', tracker', T) /\ RowsOnly(tool.kind, owed')
        /\ \A q, m : StepOwed(owed', q, m) => StepOwed(a, q, m)
        /\ \A q, m : tool.kind = "mg" /\ m # "NA" /\ Sound(a, tracker, m, q)
                        => Sound(owed', tracker', m, q)
    BY <1>1, <1>4, <1>5, <2>5, DispatchOrder
  <2>7. lots[p].at \in DOMAIN Script /\ lots[p].pm \in Modules0
    BY <1>1, PortsAll, LotIs DEF ReadyToFire, ToolTyped
  <2>8. ev.name = "pmStepStarted" => AtStep(p, "pmStepStarted") /\ pm = lots[p].pm /\ pm # "NA" /\ pm \in Modules
    <3> SUFFICES ASSUME ev.name = "pmStepStarted"
                 PROVE  AtStep(p, "pmStepStarted") /\ pm = lots[p].pm /\ pm # "NA" /\ pm \in Modules
      OBVIOUS
    <3>1. AtStep(p, "pmStepStarted") /\ ~AtStep(p, "pmWaferStarted")
      BY <1>2, <2>7 DEF AtStep
    <3>2. pm = lots[p].pm
      BY <3>1 DEF ModuleOf
    <3>3. pm # "NA"
      BY <1>1, <3>1, <3>2 DEF ToolInv
    <3> QED BY <3>1, <3>2, <3>3 DEF Modules0
  <2>9. ASSUME tool.kind = "mg", ev.name = "pmStepStarted", p \notin missed
        PROVE  Sound(a, tracker, pm, p)
    <3>1. tool.refused # <<"process_module", pm>>
      <4>1. MgBand(Script[lots[p].at], p, pm) # tool.refused
        BY <2>9 DEF Sent
      <4>2. MgBand("pmStepStarted", p, pm) = <<"process_module", pm>>
        BY DEF MgBand, MgNamesPort, MgNamesModule
      <4> QED BY <4>1, <4>2, <1>2, <2>9
    <3>2. StepDue(p, pm)
      BY <2>8, <2>9, <3>1 DEF StepDue
    <3>3. Sound(owed, tracker, pm, p)
      BY <2>2, <2>8, <2>9, <3>2 DEF StepSound
    <3>4. ~Teaches("mg", ev, pm)
      <4>1. ~States("mg", ev)
        BY <1>2, <2>9, EventFacts, StepIs
      <4> QED BY <4>1 DEF Teaches
    <3> QED BY <1>1, <1>2, <1>3, <2>9, <3>3, <3>4, SoundAppend
  <2>10. "NA" \notin Modules
    BY ToolAssumption
  <2>11. Ports' = Ports
    BY <1>1, SameTool
  <2>12. StepSound'
    <3> SUFFICES ASSUME tool.kind = "mg", NEW q \in Ports \ missed', NEW m \in Modules,
                        StepDue(q, m)' \/ StepOwed(owed', q, m)
                 PROVE  Sound(owed', tracker', m, q)
      BY <1>1, <2>11 DEF StepSound
    <3>1. SUFFICES Sound(a, tracker, m, q)
      BY <2>6, <2>10
    <3>2. CASE StepOwed(owed', q, m)
      <4>1. ev.name = "pmStepStarted" /\ p = q /\ pm = m
        BY <3>2, <2>5, <2>6, <1>2
      <4>2. p \notin missed
        BY <4>1, <2>8
      <4> QED BY <4>1, <4>2, <2>9
    <3>3. CASE StepDue(q, m)'
      <4>1. AtStep(q, "pmStepStarted")' /\ lots'[q].pm = m /\ tool.refused # <<"process_module", m>>
        BY <3>3, <1>1 DEF StepDue
      <4>2. CASE q # p /\ AtStep(q, "pmStepStarted") /\ lots'[q] = lots[q]
        <5>1. StepDue(q, m) /\ q \notin missed
          BY <4>1, <4>2 DEF StepDue
        <5>2. Sound(owed, tracker, m, q)
          BY <5>1, <2>2 DEF StepSound
        <5>3. pm # m
          <6>1. lots[q].pm = m /\ m # "NA"
            BY <4>1, <4>2, <2>10
          <6>2. CASE AtStep(p, "pmWaferStarted")
            BY <6>1, <6>2 DEF ModuleOf, FreeModules
          <6>3. CASE ~AtStep(p, "pmWaferStarted")
            <7>1. pm = lots[p].pm
              BY <6>3 DEF ModuleOf
            <7> QED BY <7>1, <6>1, <4>2, <1>1 DEF ToolInv
          <6> QED BY <6>2, <6>3
        <5>4. ~Teaches("mg", ev, m)
          BY <5>3, <1>2 DEF Teaches
        <5> QED BY <1>1, <1>2, <1>3, <4>2, <5>2, <5>4, SoundAppend
      <4>3. CASE q = p /\ at \in DOMAIN Script /\ Script[at] = "pmStepStarted" /\ lots'[q].pm = m0
        <5>1. AtStep(p, "pmWaferStarted") /\ pm = m
          BY <4>1, <4>3
        <5>2. ev.name = "pmWaferStarted" /\ ev.port = q /\ ev.pm = m
          BY <5>1, <4>3, <1>2 DEF AtStep
        <5> QED BY <1>1, <1>2, <1>3, <5>2, SoundStart
      <4> QED BY <1>1, <4>1, <4>2, <4>3, StepGoes
    <3> QED BY <3>2, <3>3
  <2>13. StepNamed(owed')
    <3>1. Among(owed', a)
      BY <1>1, <1>4, <1>5, DispatchBase
    <3>2. \A j \in DOMAIN a : a[j].ev.name = "pmStepStarted" => a[j].ev.pm # "NA"
      BY <1>2, <1>6, <2>2, <2>8 DEF StepNamed
    <3> QED BY <3>1, <3>2 DEF Among, StepNamed
  <2>14. InOrder'
    BY <1>1, <2>3, <2>6, <2>12, <2>13 DEF InOrder
  <2>15. AttributionSound'
    <3> SUFFICES ASSUME p \notin missed PROVE row.port \in {"", p}
      <4>1. last'.sure => p \notin missed
        BY <1>2, <1>7
      <4>2. last'.given = row.port /\ last'.true = p
        BY <1>2, <1>7
      <4> QED BY <4>1, <4>2 DEF AttributionSound
    <3>1. ASSUME tool.kind = "mg", ~States("mg", ev)
          PROVE  Sound(a, tracker, ev.pm, ev.port) /\ ev.pm # "NA"
      <4>1. IsEvent("mg", ev)
        BY <1>2, <3>1, EventFacts
      <4>2. ev.name = "pmStepStarted"
        BY <3>1, <4>1, StatesIs
      <4> QED BY <3>1, <4>2, <2>8, <2>9, <1>2
    <3>2. row.port \in {"", ev.port}
      <4>1. Pub(a)
        BY <2>5 DEF Orderly
      <4>2. ev = a[n].ev /\ (~Rowed(tool.kind, a[n].ev) => a[n].csv = "done" \/ n = Len(a))
        BY <1>6
      <4> QED BY <1>4, <1>7, <2>5, <3>1, <4>1, <4>2, SoundPort
    <3> QED BY <3>2, <1>2
  <2> QED BY <2>14, <2>15
<1> QED BY <1>8, <1>9

\* The entry that is replayed.
LEMMA ReplayOrder ==
    ASSUME Base, InOrder, AttributionSound, Replay
    PROVE  InOrder' /\ AttributionSound'
<1>1. /\ ToolTyped /\ HostInv /\ tool.kind \in Kinds /\ owed \in Seq(Entry)
  BY DEF Base, HostInv, ToolTyped
<1>2. /\ Due # {} /\ UNCHANGED <<toolVars, service, ghosts>>
  BY DEF Replay
<1>3. PICK refused \in BOOLEAN : Dispatch(owed, FirstDue, refused)
  BY DEF Replay
<1>4. /\ FirstDue \in DOMAIN owed /\ FirstDue \in Due
      /\ \A j \in DOMAIN owed : j < FirstDue => owed[j].csv # "pending"
  BY <1>1, <1>2, FirstDueIs
<1>5. PICK i, ev : i = FirstDue /\ ev = owed[i].ev
  OBVIOUS
<1>6. Ready(owed)
  BY <1>1 DEF Ready, HostInv
<1>7. Turn(owed, i)
  BY <1>4, <1>5 DEF Turn, Due, Unread, Publishes
<1>8. UNCHANGED <<tool, linked, main, lots, started, missed, lingering, overtaken>>
  BY <1>2 DEF toolVars, ghosts
<1>9. PICK row : /\ RowOf(tool.kind, ev, row, tracker)
                 /\ last' = [given |-> row.port, true |-> ev.port,
                             sure |-> ev.port \notin missed /\ ~overtaken']
  <2>1. Attributed(ev)
    BY <1>3, <1>4, <1>5, <1>6, DispatchIs
  <2> QED BY <2>1, Zenon DEF Attributed
<1>10. CASE overtaken
  <2>1. ~last'.sure
    BY <1>8, <1>9, <1>10
  <2> QED BY <1>8, <1>10, <2>1 DEF InOrder, AttributionSound
<1>11. CASE ~overtaken
  <2>1. /\ Orderly(tool.kind, owed, tracker, Placed) /\ RowsOnly(tool.kind, owed)
        /\ StepNamed(owed) /\ StepSound
    BY <1>11 DEF InOrder
  <2>2. RowsOther(tool.kind, owed, i)
    BY <2>1 DEF RowsOnly, RowsOther
  <2>3. i \in DOMAIN owed /\ Dispatch(owed, i, refused)
    BY <1>3, <1>4, <1>5
  <2>4. PICK S : S = Placed
    OBVIOUS
  <2>5. /\ Orderly(tool.kind, owed', tracker', S) /\ RowsOnly(tool.kind, owed')
        /\ \A q, m : StepOwed(owed', q, m) => StepOwed(owed, q, m)
        /\ \A q, m : tool.kind = "mg" /\ m # "NA" /\ Sound(owed, tracker, m, q)
                        => Sound(owed', tracker', m, q)
    <3>1. Orderly(tool.kind, owed, tracker, S) /\ tool' = tool
      BY <1>8, <2>1, <2>4
    <3> QED BY <3>1, <1>6, <1>7, <2>2, <2>3, DispatchOrder
  <2>6. Ports' = Ports /\ Script' = Script
    BY <1>8, SameTool
  <2>7. Placed' = S
    BY <1>8, <2>4, <2>6 DEF Placed, Active, Finished
  <2>8. "NA" \notin Modules
    BY ToolAssumption
  <2>9. StepSound'
    <3> SUFFICES ASSUME tool.kind = "mg", NEW q \in Ports \ missed, NEW m \in Modules,
                        StepDue(q, m)' \/ StepOwed(owed', q, m)
                 PROVE  Sound(owed', tracker', m, q)
      BY <1>8, <2>6 DEF StepSound
    <3>1. StepDue(q, m) \/ StepOwed(owed, q, m)
      BY <1>8, <2>5, <2>6 DEF StepDue, AtStep
    <3>2. Sound(owed, tracker, m, q)
      BY <3>1, <2>1 DEF StepSound
    <3> QED BY <3>2, <2>5, <2>8
  <2>10. StepNamed(owed')
    <3>1. Among(owed', owed)
      BY <1>6, <1>8, <2>3, DispatchBase
    <3> QED BY <3>1, <2>1 DEF Among, StepNamed
  <2>11. InOrder'
    BY <1>8, <2>5, <2>7, <2>9, <2>10 DEF InOrder
  <2>12. ev \in Event /\ ev.port \in Ports
    BY <1>1, <1>5, <2>3, EntryFacts, EventFacts
  <2>13. AttributionSound'
    <3> SUFFICES ASSUME ev.port \notin missed PROVE row.port \in {"", ev.port}
      <4>1. last'.sure => ev.port \notin missed
        BY <1>9
      <4>2. last'.given = row.port /\ last'.true = ev.port
        BY <1>9
      <4> QED BY <4>1, <4>2 DEF AttributionSound
    <3>1. ~Rowed(tool.kind, owed[i].ev) => owed[i].csv = "done" \/ i = Len(owed)
      BY <2>1, <2>3 DEF RowsOnly
    <3>2. ASSUME tool.kind = "mg", ~States("mg", ev)
          PROVE  Sound(owed, tracker, ev.pm, ev.port) /\ ev.pm # "NA"
      <4>1. IsEvent("mg", ev)
        BY <2>12, <3>2, EventFacts
      <4>2. ev.name = "pmStepStarted"
        BY <3>2, <4>1, StatesIs
      <4>3. ev.pm # "NA"
        BY <4>2, <1>5, <2>1, <2>3 DEF StepNamed
      <4>4. ev.pm \in Modules
        BY <2>12, <4>3 DEF Event
      <4>5. ~Rowed("mg", ev)
        BY <4>1, <4>2, StepIs
      <4>6. owed[i].csv = "done"
        BY <1>5, <2>1, <2>3, <3>2, <4>5 DEF RowsOnly
      <4>7. Publishes(owed[i])
        BY <1>7, <4>6 DEF Turn
      <4>8. StepOwed(owed, ev.port, ev.pm)
        BY <1>5, <2>3, <4>2, <4>7 DEF StepOwed
      <4> QED BY <2>1, <2>12, <3>2, <4>3, <4>4, <4>8 DEF StepSound
    <3>3. Pub(owed)
      BY <2>1 DEF Orderly
    <3> QED BY <1>5, <1>6, <1>7, <1>9, <2>3, <3>1, <3>2, <3>3, SoundPort
  <2> QED BY <2>11, <2>13
<1> QED BY <1>10, <1>11

\* At first nothing is owed, and nothing was attributed.
LEMMA OrderInit == Init => InOrder /\ AttributionSound
<1> SUFFICES ASSUME Init PROVE InOrder /\ AttributionSound
  OBVIOUS
<1>1. /\ owed = <<>> /\ tracker = EmptyTracker /\ last = NoRow
      /\ lots = [p \in MgPorts \cup {"1"} |-> NoLot]
  BY DEF Init, ToolInit
<1>2. DOMAIN owed = {}
  BY <1>1
<1>3. PortsKnown(tracker) = {}
  BY <1>1, EmptyTrackerIs
<1>4. Orderly(tool.kind, owed, tracker, Placed) /\ RowsOnly(tool.kind, owed) /\ StepNamed(owed)
  BY <1>2, <1>3 DEF Orderly, Pub, Ord, Cover, Known, RowsOnly, StepNamed
<1>5. \A p, m : ~StepOwed(owed, p, m)
  BY <1>2 DEF StepOwed
<1>6. ASSUME NEW p \in Ports PROVE ~AtStep(p, "pmStepStarted")
  <2>1. lots[p].at = 0
    BY <1>1, PortsAll DEF AllPorts, NoLot
  <2>2. tool.kind \in Kinds
    BY BaseInit DEF Base, ToolTyped
  <2>3. 0 \notin DOMAIN Script
    BY <2>2, ScriptIs
  <2> QED BY <2>1, <2>3 DEF AtStep
<1>7. StepSound
  BY <1>5, <1>6 DEF StepSound, StepDue
<1>8. AttributionSound
  BY <1>1 DEF AttributionSound, NoRow
<1> QED BY <1>4, <1>7, <1>8 DEF InOrder

\* Lots start: no port had a carrier.
LEMMA OrderStarts ==
    ASSUME Base, InOrder, StartLots
    PROVE  InOrder'
<1>1. ToolTyped /\ ToolInv /\ tool.kind \in Kinds
  BY DEF Base, ToolTyped
<1>2. Starts
  BY <1>1, BatchIs, DavinciIs DEF StartLots
<1>3. /\ tool' = tool /\ (\A p \in Ports : ~Active(p))
      /\ \A p \in Ports : lots'[p].at = 1
  BY <1>2 DEF Starts
<1>4. owed' = owed /\ tracker' = tracker /\ UNCHANGED <<missed, lingering, overtaken>>
  BY DEF StartLots, Begin, hostVars
<1>5. Ports' = Ports /\ Script' = Script
  BY <1>3, SameTool
<1>6. Placed \subseteq Placed'
  BY <1>3, <1>4, <1>5 DEF Placed
<1>7. ~(1 \in DOMAIN Script /\ Script[1] = "pmStepStarted")
  <2> SUFFICES ASSUME 1 \in DOMAIN Script, Script[1] = "pmStepStarted" PROVE FALSE
    OBVIOUS
  <2>1. 1 - 1 \in DOMAIN Script
    BY <1>1, StepPlace
  <2>2. DOMAIN Script = 1 .. Len(Script)
    BY <1>1, ScriptIs
  <2> QED BY <2>1, <2>2
<1>8. \A p \in Ports : \A m : ~StepDue(p, m)'
  BY <1>3, <1>5, <1>7 DEF StepDue, AtStep
<1> QED BY <1>3, <1>4, <1>6, <1>8, InOrderQuiet

\* The steps that move no lot and tell the host nothing.
LEMMA OrderSame ==
    ASSUME InOrder, UNCHANGED <<tool, lots, owed, tracker, missed, lingering, overtaken>>
    PROVE  InOrder'
<1>1. Ports' = Ports /\ Script' = Script
  BY SameTool
<1>2. Placed' = Placed
  BY <1>1 DEF Placed, Active, Finished
<1>3. \A p, m : StepDue(p, m)' <=> StepDue(p, m)
  BY <1>1 DEF StepDue, AtStep
<1> QED BY <1>2, <1>3, InOrderQuiet

\* Nothing was attributed.
LEMMA SoundSame ==
    ASSUME AttributionSound, last' = last PROVE AttributionSound'
BY DEF AttributionSound

\* An event is received and answered,
LEMMA OrderDelivers ==
    ASSUME Base, InOrder, NEW p \in Ports, NEW pm \in Modules \cup {"NA"}, Deliver(p, pm)
    PROVE  InOrder' /\ AttributionSound'
<1>1. ToolTyped /\ ToolInv /\ tool.kind \in Kinds /\ LotsTyped
  BY DEF Base, ToolTyped
<1>2. ReadyToFire(p) /\ Sent(p, pm) /\ pm \in ModuleOf(p) /\ Advance(p, pm)
  BY DEF Deliver, Answered
<1>3. PICK at, m0 : /\ at = lots[p].at + 1
                    /\ m0 = IF AtStep(p, "pmWaferFinished") THEN "NA" ELSE pm
  OBVIOUS
<1>4. pm \in Modules0 /\ Goes(p, at, m0)
  BY <1>1, <1>2, <1>3, AdvanceInv
<1>5. /\ DOMAIN Script = 1 .. Len(Script) /\ Len(Script) \in Nat
      /\ lots[p].at \in DOMAIN Script /\ p \in AllPorts
  BY <1>1, <1>2, ScriptIs, PortsAll DEF ReadyToFire
<1>6. at \in Nat /\ lots[p].at < at /\ at > 1 /\ (at > Len(Script) => lots[p].at = Len(Script))
  BY <1>3, <1>5
<1>7. PICK ev : ev = EventOf(p, pm)
  OBVIOUS
<1>8. ev \in Event /\ ev.name = Script[lots[p].at] /\ IsEvent(tool.kind, ev)
  BY <1>1, <1>2, <1>4, <1>7, NextEvent, EventFacts
<1>9. PICK refused \in BOOLEAN : Receive(p, pm, refused)
  BY DEF Deliver
<1>10. /\ missed' = IF Script[lots[p].at] \in Telling THEN missed \ {p} ELSE missed
       /\ lingering' = IF Script[lots[p].at] \in Removals THEN lingering \ {p} ELSE lingering
  BY DEF Deliver, Told
<1>11. tool' = tool /\ lots'[p].at = at
  BY <1>4 DEF Goes
<1>12. Ports' = Ports /\ Script' = Script
  BY <1>11, SameTool
<1>13. at > Len(Script) => Unloads(tool.kind, ev)
  BY <1>1, <1>6, <1>8, ScriptIs
<1>14. Unloads(tool.kind, ev) \/ p \in Placed'
  <2> SUFFICES ASSUME ~(at > Len(Script)) PROVE p \in Placed'
    BY <1>13
  <2>1. Active(p)'
    BY <1>6, <1>11, <1>12 DEF Active, Finished
  <2> QED BY <2>1, <1>12 DEF Placed
<1>15. ASSUME NEW q \in Placed PROVE q \in Placed' \/ (Unloads(tool.kind, ev) /\ p = q)
  <2>1. CASE q \in lingering
    <3>1. q \in lingering' \/ (Script[lots[p].at] \in Removals /\ q = p)
      BY <1>10, <2>1
    <3>2. Script[lots[p].at] \in Removals => Unloads(tool.kind, ev)
      BY <1>1, <1>8, RemovalsUnload
    <3> QED BY <3>1, <3>2 DEF Placed
  <2>2. CASE q \in Ports /\ Active(q)
    <3>1. Active(q)' \/ (q = p /\ at > Len(Script))
      BY <1>1, <1>4, <1>6, <2>2, ActiveGoes
    <3> QED BY <3>1, <1>12, <1>13, <2>2 DEF Placed
  <2> QED BY <2>1, <2>2 DEF Placed
<1>16. missed' \in {missed, missed \ {p}}
  BY <1>10
<1>17. AtStep(p, "pmStepStarted") => missed' = missed
  BY <1>10 DEF AtStep, Telling
<1>18. ASSUME at \in DOMAIN Script, Script[at] = "pmStepStarted"
       PROVE  AtStep(p, "pmWaferStarted") /\ m0 = pm
  <2>1. at - 1 \in DOMAIN Script /\ Script[at - 1] = "pmWaferStarted"
    BY <1>1, <1>18, StepPlace
  <2>2. at - 1 = lots[p].at
    BY <1>3, <1>5
  <2>3. AtStep(p, "pmWaferStarted") /\ ~AtStep(p, "pmWaferFinished")
    BY <2>1, <2>2 DEF AtStep
  <2> QED BY <2>3, <1>3
<1> QED BY <1>2, <1>4, <1>6, <1>7, <1>9, <1>14, <1>15, <1>16, <1>17, <1>18, ReceiveOrder

\* or received, and the tool does not get the answer.
LEMMA OrderReplyLost ==
    ASSUME Base, InOrder, NEW p \in Ports, NEW pm \in Modules \cup {"NA"}, ReplyLost(p, pm)
    PROVE  InOrder' /\ AttributionSound'
<1>1. ToolTyped /\ ToolInv /\ tool.kind \in Kinds /\ LotsTyped
  BY DEF Base, ToolTyped
<1>2. ReadyToFire(p) /\ Sent(p, pm) /\ pm \in ModuleOf(p) /\ Abandon(p) /\ Receive(p, pm, FALSE)
  BY DEF ReplyLost
<1>3. PICK at, m0 : at = Len(Script) + 1 /\ m0 = "NA"
  OBVIOUS
<1>4. Goes(p, at, m0)
  BY <1>1, <1>2, <1>3, AbandonInv
<1>5. /\ DOMAIN Script = 1 .. Len(Script) /\ Len(Script) \in Nat
      /\ lots[p].at \in DOMAIN Script
  BY <1>1, <1>2, ScriptIs DEF ReadyToFire
<1>6. at \in Nat /\ lots[p].at < at /\ at \notin DOMAIN Script /\ pm \in Modules0
  BY <1>3, <1>5 DEF Modules0
<1>7. PICK ev : ev = EventOf(p, pm)
  OBVIOUS
<1>8. missed' = missed /\ lingering' = lingering \cup {p} /\ tool' = tool
  BY <1>4 DEF ReplyLost, Goes
<1>9. Ports' = Ports
  BY <1>8, SameTool
<1>10. p \in Placed'
  BY <1>8 DEF Placed
<1>11. ASSUME NEW q \in Placed PROVE q \in Placed'
  <2>1. CASE q \in lingering
    BY <1>8, <2>1 DEF Placed
  <2>2. CASE q \in Ports /\ Active(q)
    <3>1. Active(q)' \/ q = p
      BY <1>1, <1>4, <1>6, <2>2, ActiveGoes
    <3> QED BY <3>1, <1>9, <1>10, <2>2 DEF Placed
  <2> QED BY <2>1, <2>2 DEF Placed
<1>12. missed' \in {missed, missed \ {p}} /\ FALSE \in BOOLEAN
  BY <1>8
<1> QED BY <1>2, <1>4, <1>6, <1>7, <1>8, <1>10, <1>11, <1>12, ReceiveOrder

\* An event that the host never gets: its port lingers, if that was a removal.
LEMMA QuietGoes ==
    ASSUME Base, InOrder, NEW p \in Ports, NEW at \in Nat, NEW m0, lots[p].at < at, Goes(p, at, m0),
           UNCHANGED <<owed, tracker, overtaken>>, missed \subseteq missed',
           lingering \subseteq lingering', at > Len(Script) => p \in lingering',
           at \in DOMAIN Script /\ Script[at] = "pmStepStarted" =>
              p \in missed' \/ (tool.kind = "mg" => tool.refused = <<"process_module", m0>>)
    PROVE  InOrder'
<1>1. ToolTyped /\ tool' = tool /\ tool.kind \in Kinds
  BY DEF Base, ToolTyped, Goes
<1>2. Ports' = Ports
  BY <1>1, SameTool
<1>3. ASSUME NEW q \in Placed PROVE q \in Placed'
  <2>1. CASE q \in lingering
    BY <2>1 DEF Placed
  <2>2. CASE q \in Ports /\ Active(q)
    <3>1. Active(q)' \/ (q = p /\ at > Len(Script))
      BY <1>1, <2>2, ActiveGoes
    <3> QED BY <3>1, <1>2, <2>2 DEF Placed
  <2> QED BY <2>1, <2>2 DEF Placed
<1>4. ASSUME NEW q \in Ports \ missed', NEW m \in Modules, StepDue(q, m)'
      PROVE  StepDue(q, m)
  <2>1. AtStep(q, "pmStepStarted")' /\ lots'[q].pm = m /\ tool.refused # <<"process_module", m>>
    BY <1>1, <1>4 DEF StepDue
  <2>2. CASE q # p /\ AtStep(q, "pmStepStarted") /\ lots'[q] = lots[q]
    BY <2>1, <2>2 DEF StepDue
  <2>3. CASE q = p /\ at \in DOMAIN Script /\ Script[at] = "pmStepStarted" /\ lots'[q].pm = m0
    <3>1. tool.kind = "mg"
      BY <1>1, <2>3, StepPlace
    <3> QED BY <1>4, <2>1, <2>3, <3>1
  <2> QED BY <1>1, <2>1, <2>2, <2>3, StepGoes
<1> QED BY <1>1, <1>3, <1>4, InOrderQuiet

\* An event the tool filters is one of an MG in the band that it refused.
LEMMA OrderFilters ==
    ASSUME Base, InOrder, NEW p \in Ports, NEW pm \in Modules \cup {"NA"}, Filtered(p, pm)
    PROVE  InOrder'
<1>1. ToolTyped /\ ToolInv /\ tool.kind \in Kinds /\ LotsTyped
  BY DEF Base, ToolTyped
<1>2. ReadyToFire(p) /\ ~Sent(p, pm) /\ pm \in ModuleOf(p) /\ Advance(p, pm)
  BY DEF Filtered, NotSent
<1>3. PICK at, m0 : /\ at = lots[p].at + 1
                    /\ m0 = IF AtStep(p, "pmWaferFinished") THEN "NA" ELSE pm
  OBVIOUS
<1>4. Goes(p, at, m0)
  BY <1>1, <1>2, <1>3, AdvanceInv
<1>5. /\ DOMAIN Script = 1 .. Len(Script) /\ Len(Script) \in Nat
      /\ lots[p].at \in DOMAIN Script
  BY <1>1, <1>2, ScriptIs DEF ReadyToFire
<1>6. at \in Nat /\ lots[p].at < at /\ (at > Len(Script) => lots[p].at = Len(Script))
  BY <1>3, <1>5
<1>7. tool.kind = "mg" /\ MgBand(Script[lots[p].at], p, pm) = tool.refused
  BY <1>2 DEF Sent
<1>8. /\ UNCHANGED <<owed, tracker, overtaken>> /\ missed' = missed
      /\ lingering' = IF Script[lots[p].at] \in Removals THEN lingering \cup {p} ELSE lingering
  BY DEF Filtered, hostVars
<1>9. at > Len(Script) => p \in lingering'
  <2>1. Script = MgSteps /\ MgSteps[Len(MgSteps)] = "portCasRemoved"
    BY <1>7, MgStepsIs DEF Script
  <2> QED BY <1>6, <1>8, <2>1 DEF Removals
<1>10. ASSUME at \in DOMAIN Script, Script[at] = "pmStepStarted"
       PROVE  tool.refused = <<"process_module", m0>>
  <2>1. at - 1 \in DOMAIN Script /\ Script[at - 1] = "pmWaferStarted"
    BY <1>1, <1>10, StepPlace
  <2>2. at - 1 = lots[p].at
    BY <1>3, <1>5
  <2>3. Script[lots[p].at] = "pmWaferStarted" /\ ~AtStep(p, "pmWaferFinished")
    BY <2>1, <2>2 DEF AtStep
  <2>4. MgBand("pmWaferStarted", p, pm) = <<"process_module", pm>>
    BY DEF MgBand, MgNamesPort, MgNamesModule
  <2> QED BY <2>3, <2>4, <1>3, <1>7
<1> QED BY <1>4, <1>6, <1>8, <1>9, <1>10, QuietGoes

\* An event that is lost with the link.
LEMMA OrderNotHeard ==
    ASSUME Base, InOrder, NEW p \in Ports, NEW pm \in Modules \cup {"NA"}, NotHeard(p, pm)
    PROVE  InOrder'
<1>1. ToolTyped /\ ToolInv /\ tool.kind \in Kinds /\ LotsTyped
  BY DEF Base, ToolTyped
<1>2. /\ ReadyToFire(p) /\ pm \in ModuleOf(p) /\ tool.kind = "mg"
      /\ IF tool.gap = "abandon" THEN Abandon(p) ELSE Advance(p, pm)
  BY DEF NotHeard, Unanswered
<1>3. /\ UNCHANGED <<owed, tracker, overtaken>> /\ missed' = missed \cup {p}
      /\ lingering' = IF Script[lots[p].at] \in Removals \/ tool.gap = "abandon"
                      THEN lingering \cup {p} ELSE lingering
  BY DEF NotHeard, Lost, hostVars
<1>4. /\ DOMAIN Script = 1 .. Len(Script) /\ Len(Script) \in Nat
      /\ lots[p].at \in DOMAIN Script
  BY <1>1, <1>2, ScriptIs DEF ReadyToFire
<1>5. CASE tool.gap = "abandon"
  <2>1. PICK at : at = Len(Script) + 1
    OBVIOUS
  <2>2. Goes(p, at, "NA")
    BY <1>1, <1>2, <1>5, <2>1, AbandonInv
  <2>3. at \in Nat /\ lots[p].at < at
    BY <1>4, <2>1
  <2> QED BY <1>3, <1>5, <2>2, <2>3, QuietGoes
<1>6. CASE tool.gap # "abandon"
  <2>1. PICK at, m0 : /\ at = lots[p].at + 1
                      /\ m0 = IF AtStep(p, "pmWaferFinished") THEN "NA" ELSE pm
    OBVIOUS
  <2>2. Goes(p, at, m0)
    BY <1>1, <1>2, <1>6, <2>1, AdvanceInv
  <2>3. at \in Nat /\ lots[p].at < at /\ (at > Len(Script) => lots[p].at = Len(Script))
    BY <1>4, <2>1
  <2>4. at > Len(Script) => p \in lingering'
    <3>1. Script = MgSteps /\ MgSteps[Len(MgSteps)] = "portCasRemoved"
      BY <1>2, MgStepsIs DEF Script
    <3> QED BY <1>3, <2>3, <3>1 DEF Removals
  <2> QED BY <1>3, <2>2, <2>3, <2>4, QuietGoes
<1> QED BY <1>5, <1>6

\* A crash or a clean stop.
LEMMA OrderForgets ==
    ASSUME Base, InOrder, NEW gone, Gone(owed, gone), Forget(gone),
           UNCHANGED <<tool, lots, missed, lingering, overtaken>>
    PROVE  InOrder'
<1> SUFFICES ASSUME ~overtaken PROVE InOrder'
  BY DEF InOrder
<1>1. /\ Orderly(tool.kind, owed, tracker, Placed) /\ RowsOnly(tool.kind, owed)
      /\ StepNamed(owed) /\ StepSound
  BY DEF InOrder
<1>2. owed \in Seq(Entry) /\ tool.kind \in Kinds
  BY DEF Base, HostInv, ToolTyped
<1>3. PICK S : S = Placed
  OBVIOUS
<1>4. /\ Orderly(tool.kind, owed', tracker', S) /\ RowsOnly(tool.kind, owed')
      /\ \A j \in DOMAIN owed' : \E l \in DOMAIN owed : owed'[j].ev = owed[l].ev
      /\ \A p, m : StepOwed(owed', p, m) => StepOwed(owed, p, m)
      /\ \A p, m : tool.kind = "mg" /\ Sound(owed, tracker, m, p)
                      => Sound(owed', tracker', m, p)
  <2>1. Orderly(tool.kind, owed, tracker, S) /\ RowsOnly(tool.kind, owed) /\ tool' = tool
    BY <1>1, <1>3
  <2> QED BY <1>2, <2>1, ForgetOrder
<1>5. Ports' = Ports /\ Script' = Script
  BY SameTool
<1>6. Placed' = S
  BY <1>3, <1>5 DEF Placed, Active, Finished
<1>7. StepNamed(owed')
  BY <1>1, <1>4 DEF StepNamed
<1>8. StepSound'
  <2> SUFFICES ASSUME tool.kind = "mg", NEW p \in Ports \ missed, NEW m \in Modules,
                      StepDue(p, m)' \/ StepOwed(owed', p, m)
               PROVE  Sound(owed', tracker', m, p)
    BY <1>5 DEF StepSound
  <2>1. StepDue(p, m) \/ StepOwed(owed, p, m)
    BY <1>4, <1>5 DEF StepDue, AtStep
  <2>2. Sound(owed, tracker, m, p)
    BY <1>1, <2>1 DEF StepSound
  <2> QED BY <1>4, <2>2
<1> QED BY <1>4, <1>6, <1>7, <1>8 DEF InOrder

\* The part about the order, and the attribution, after every step.
LEMMA OrderNext == Base /\ InOrder /\ AttributionSound /\ [Next]_vars => InOrder' /\ AttributionSound'
<1> SUFFICES ASSUME Base, InOrder, AttributionSound, [Next]_vars
             PROVE  InOrder' /\ AttributionSound'
  OBVIOUS
<1>1. CASE StartLots
  <2>1. last' = last
    BY <1>1 DEF StartLots, Begin
  <2> QED BY <1>1, <2>1, OrderStarts, SoundSame
<1>2. CASE Join \/ Start \/ Connect \/ Disconnect \/ UNCHANGED vars
  <2>1. UNCHANGED <<tool, lots, owed, tracker, last, missed, lingering, overtaken>>
    BY <1>2 DEF Join, MgJoin, Start, Connect, Disconnect, LinkUp, LinkDown,
                vars, toolVars, hostVars, history, ghosts
  <2> QED BY <2>1, OrderSame, SoundSame
<1>3. ASSUME NEW p \in Ports, NEW pm \in Modules \cup {"NA"},
             Deliver(p, pm) \/ Filtered(p, pm) \/ ReplyLost(p, pm) \/ NotHeard(p, pm)
      PROVE  InOrder' /\ AttributionSound'
  <2>1. CASE Deliver(p, pm)
    BY <2>1, OrderDelivers
  <2>2. CASE ReplyLost(p, pm)
    BY <2>2, OrderReplyLost
  <2>3. CASE Filtered(p, pm)
    <3>1. last' = last
      BY <2>3 DEF Filtered
    <3> QED BY <2>3, <3>1, OrderFilters, SoundSame
  <2>4. CASE NotHeard(p, pm)
    <3>1. last' = last
      BY <2>4 DEF NotHeard
    <3> QED BY <2>4, <3>1, OrderNotHeard, SoundSame
  <2> QED BY <1>3, <2>1, <2>2, <2>3, <2>4
<1>4. CASE Replay
  BY <1>4, ReplayOrder
<1>5. CASE Crash
  <2>1. Forget({}) /\ UNCHANGED <<tool, lots, last, missed, lingering, overtaken>>
    BY <1>5 DEF Crash, LinkDown, history, ghosts
  <2> QED BY <2>1, GoneNone, OrderForgets, SoundSame
<1>6. CASE CleanStop
  <2>1. PICK gone : gone = UNION {{buffers[k].rows[i].of : i \in DOMAIN buffers[k].rows} : k \in Keys}
    OBVIOUS
  <2>2. Forget(gone) /\ UNCHANGED <<tool, lots, last, missed, lingering, overtaken>>
    BY <1>6, <2>1 DEF CleanStop, LinkDown
  <2>3. Gone(owed, gone)
    BY <2>1, GoneWritten DEF Base, ToolTyped
  <2> QED BY <2>2, <2>3, OrderForgets, SoundSame
<1> QED BY <1>1, <1>2, <1>3, <1>4, <1>5, <1>6 DEF Next, ToolStep, HostStep, Fault

Inv == Base /\ InOrder /\ AttributionSound

\* The invariant.
LEMMA Invariance == Spec => []Inv
<1>1. Init => Inv
  BY BaseInit, OrderInit DEF Inv
<1>2. Inv /\ [Next]_vars => Inv'
  BY BaseNext, OrderNext DEF Inv
<1> QED BY <1>1, <1>2, PTL DEF Spec

(* No event is put down to a load port it is not of, while no event has  *)
(* overtaken an older one: the mapper asks lookup_lp (324-368), which    *)
(* answers from what note_event was told (job_tracker.py:148-237).       *)
THEOREM NoGuess == Spec => []AttributionSound
<1>1. Inv => AttributionSound
  BY DEF Inv
<1> QED BY <1>1, Invariance, PTL

(* A lot file has the rows of one lot only, whatever was overtaken, lost *)
(* or filtered out: a row of another lot closes it                       *)
(* (csv_store.py:215-219).                                               *)
THEOREM OneLotPerFile == Spec => []FilesDoNotMix
<1>1. Inv => FilesDoNotMix
  BY DEF Inv, Base, FileOK, FilesDoNotMix
<1> QED BY <1>1, Invariance, PTL

(* Once every row is read, and nothing was overtaken, the tracker knows  *)
(* no port whose carrier is gone, but for one whose removal was filtered *)
(* out (deactivate, job_tracker.py:104-127).                             *)
THEOREM NothingOfTheDeparted == Spec => []DepartedForgotten
<1>1. Inv => DepartedForgotten
  <2> SUFFICES ASSUME Inv, Due = {}, ~overtaken, NEW p \in PortsKnown(tracker)
               PROVE  p \in lingering \cup {q \in Ports : lots[q].at > 1 /\ ~Finished(q)}
    BY DEF DepartedForgotten
  <2>1. Known(tool.kind, owed, tracker, Placed)
    BY DEF Inv, InOrder, Orderly
  <2>2. \A i \in DOMAIN owed : owed[i].csv # "pending"
    BY DEF Due, Unread
  <2>3. p \in Placed
    BY <2>1, <2>2 DEF Known
  <2> QED BY <2>3 DEF Placed, Active
<1> QED BY <1>1, Invariance, PTL

(* The tool, the tracker, the entries, the buffers of the writer and the *)
(* history stay in their types.                                          *)
THEOREM TypeCorrect == Spec => []TypeOK
<1>1. Inv => TypeOK
  <2> SUFFICES ASSUME Inv PROVE TypeOK
    OBVIOUS
  <2>1. ToolTyped /\ HostInv /\ GhostsTyped
    BY DEF Inv, Base
  <2>2. /\ PortsKnown(tracker) \subseteq Ports /\ owed \in Seq(Entry)
        /\ ShelvesTyped(buffers, preLot)
    BY <2>1 DEF HostInv
  <2>3. /\ buffers \in [Keys -> [lot : LotNames \cup {""}, rows : Seq(Row)]]
        /\ preLot \in [Keys -> Seq(Row)]
    BY <2>2 DEF ShelvesTyped, L0
  <2>4. tool.kind \in {"mg", "davinci"}
    BY <2>1 DEF ToolTyped, Kinds
  <2>5. lots \in [MgPorts \cup {"1"} -> [at : Nat, lot : Nat, pm : Modules \cup {"NA"}]]
    BY <2>1 DEF ToolTyped, LotsTyped, AllPorts, Modules0
  <2> QED BY <2>1, <2>2, <2>3, <2>4, <2>5 DEF TypeOK, ToolTyped, GhostsTyped
<1> QED BY <1>1, Invariance, PTL
=============================================================================
