-------------------------- MODULE MemoryCacheProofs --------------------------
(***************************************************************************)
(* Theorems about MemoryCache and CatalogRoute, for any keys, values,      *)
(* callers, capacity, times to live and any number of instants: the list   *)
(* and the map of cache.Memory agree, the cache implements LRUCache, and   *)
(* the catalog is loaded only when no live response is held.               *)
(*                                                                         *)
(* Everything rests on one idea: there is a sequence of the held keys that *)
(* the list links, and each operation on the list is one on the sequence.  *)
(***************************************************************************)
EXTENDS CatalogRoute, FiniteSetTheorems, SequenceTheorems,
        WellFoundedInduction, TLAPS

-----------------------------------------------------------------------------
(***************************************************************************)
(* Sequences of keys.                                                      *)
(***************************************************************************)

\* A set of numbers has a least element, which is how the inductions below
\* are made: the least counterexample is no counterexample.
LEMMA Least ==
    ASSUME NEW T, T \subseteq Nat, T # {}
    PROVE  \E x \in T : \A y \in T : x <= y
<1> DEFINE R == {pair \in Nat \X Nat : pair[1] < pair[2]}
<1>1. IsWellFoundedOn(R, Nat)
  BY NatLessThanWellFounded DEF OpToRel
<1>2. \A x, y \in Nat : <<y, x>> \in R <=> y < x
  OBVIOUS
<1> HIDE DEF R
<1>3. PICK x \in T : \A y \in T : ~(<<y, x>> \in R)
  BY <1>1, WFMin
<1>4. \A y \in T : x \in Nat /\ y \in Nat /\ ~(y < x)
  BY <1>2, <1>3
<1>5. \A y \in T : x <= y
  BY <1>4
<1>6. QED
  BY <1>5

\* s holds every element of S once.
Arranges(s, S) ==
    /\ s \in Seq(S)
    /\ \A i, j \in DOMAIN s : s[i] = s[j] => i = j
    /\ \A x \in S : \E i \in DOMAIN s : s[i] = x

\* x before s, and s without its p-th element.
Pushed(x, s) == [i \in 1..Len(s) + 1 |-> IF i = 1 THEN x ELSE s[i - 1]]
Removed(s, p) == [i \in 1..Len(s) - 1 |-> IF i < p THEN s[i] ELSE s[i + 1]]

LEMMA ArrangedSet ==
    ASSUME NEW S, NEW s, Arranges(s, S)
    PROVE  /\ IsFiniteSet(S) /\ Cardinality(S) = Len(s)
           /\ s \in [1..Cardinality(S) -> S] /\ s \in SetToSeqs(S)
<1>1. Len(s) \in Nat /\ s \in [1..Len(s) -> S] /\ DOMAIN s = 1..Len(s)
  BY DEF Arranges
<1>2. s \in Bijection(1..Len(s), S)
  BY <1>1 DEF Arranges, Bijection, Injection, Surjection, IsInjective
<1>3. ExistsBijection(1..Len(s), S)
  BY <1>2 DEF ExistsBijection
<1>4. IsFiniteSet(1..Len(s)) /\ Cardinality(1..Len(s)) = Len(s)
  BY <1>1, FS_Interval
<1>5. IsFiniteSet(S) /\ Cardinality(S) = Len(s)
  BY <1>3, <1>4, FS_Bijection
<1>6. s \in SetToSeqs(S)
  BY <1>1, <1>5 DEF Arranges, SetToSeqs
<1>7. QED
  BY <1>1, <1>5, <1>6

LEMMA PushedFacts ==
    ASSUME NEW T, NEW s \in Seq(T), NEW x \in T
    PROVE  /\ Pushed(x, s) \in Seq(T) /\ Len(Pushed(x, s)) = Len(s) + 1
           /\ DOMAIN Pushed(x, s) = 1..Len(s) + 1
           /\ \A i \in 1..Len(s) + 1 :
                 Pushed(x, s)[i] = IF i = 1 THEN x ELSE s[i - 1]
<1>1. /\ Len(s) + 1 \in Nat
      /\ \A i \in 1..Len(s) + 1 : (IF i = 1 THEN x ELSE s[i - 1]) \in T
  OBVIOUS
<1>2. Pushed(x, s) \in [1..Len(s) + 1 -> T]
  BY <1>1 DEF Pushed
<1>3. Pushed(x, s) \in Seq(T)
  BY <1>1, <1>2
<1>4. QED
  BY <1>1, <1>2, <1>3 DEF Pushed

LEMMA RemovedFacts ==
    ASSUME NEW S, NEW s \in Seq(S), NEW p \in DOMAIN s, NEW T,
           \A i \in DOMAIN s : i # p => s[i] \in T
    PROVE  /\ Removed(s, p) \in Seq(T) /\ Len(Removed(s, p)) = Len(s) - 1
           /\ Len(s) - 1 \in Nat
           /\ DOMAIN Removed(s, p) = 1..Len(s) - 1
           /\ \A i \in 1..Len(s) - 1 :
                 Removed(s, p)[i] = IF i < p THEN s[i] ELSE s[i + 1]
<1>1. /\ Len(s) - 1 \in Nat
      /\ \A i \in 1..Len(s) - 1 : (IF i < p THEN s[i] ELSE s[i + 1]) \in T
  OBVIOUS
<1>2. Removed(s, p) \in [1..Len(s) - 1 -> T]
  BY <1>1 DEF Removed
<1>3. Removed(s, p) \in Seq(T)
  BY <1>1, <1>2
<1>4. QED
  BY <1>1, <1>2, <1>3 DEF Removed

LEMMA PushedArranges ==
    ASSUME NEW S, NEW s, Arranges(s, S), NEW x, x \notin S
    PROVE  Arranges(Pushed(x, s), S \cup {x})
<1>1. s \in Seq(S) /\ Len(s) \in Nat /\ DOMAIN s = 1..Len(s)
  BY DEF Arranges
<1> DEFINE t == Pushed(x, s)
<1>2. /\ t \in Seq(S \cup {x}) /\ DOMAIN t = 1..Len(s) + 1
      /\ \A i \in 1..Len(s) + 1 : t[i] = IF i = 1 THEN x ELSE s[i - 1]
  <2>1. PICK T : T = S \cup {x}
    OBVIOUS
  <2>2. x \in T /\ s \in Seq(T)
    BY <1>1, <2>1
  <2>3. t \in Seq(T)
    BY <2>2, PushedFacts
  <2>4. DOMAIN t = 1..Len(s) + 1
    BY <2>2, PushedFacts
  <2>5. \A i \in 1..Len(s) + 1 : t[i] = IF i = 1 THEN x ELSE s[i - 1]
    BY DEF Pushed
  <2>6. QED
    BY <2>1, <2>3, <2>4, <2>5
<1> HIDE DEF t
<1>3. ASSUME NEW i \in DOMAIN t, NEW j \in DOMAIN t, t[i] = t[j] PROVE i = j
  <2>1. ASSUME NEW h \in 1..Len(s) + 1, h # 1
        PROVE  h - 1 \in DOMAIN s /\ s[h - 1] \in S /\ t[h] = s[h - 1] /\ t[h] # x
    BY <1>1, <1>2, <2>1
  <2>2. i \in 1..Len(s) + 1 /\ j \in 1..Len(s) + 1 /\ t[1] = x
    BY <1>1, <1>2
  <2>3. CASE i = 1 \/ j = 1
    BY <1>3, <2>1, <2>2, <2>3
  <2>4. CASE i # 1 /\ j # 1
    <3>1. i - 1 = j - 1
      BY <1>3, <2>1, <2>2, <2>4 DEF Arranges
    <3>2. QED
      BY <2>2, <3>1
  <2>5. QED
    BY <2>3, <2>4
<1>4. ASSUME NEW y \in S \cup {x} PROVE \E i \in DOMAIN t : t[i] = y
  <2>1. CASE y = x
    BY <1>1, <1>2, <2>1
  <2>2. CASE y \in S
    <3>1. PICK i \in DOMAIN s : s[i] = y
      BY <2>2 DEF Arranges
    <3>2. i + 1 \in DOMAIN t /\ t[i + 1] = y
      BY <1>1, <1>2, <3>1
    <3>3. QED
      BY <3>2
  <2>3. QED
    BY <2>1, <2>2
<1>5. QED
  BY <1>2, <1>3, <1>4 DEF Arranges, t

LEMMA RemovedArranges ==
    ASSUME NEW S, NEW s, Arranges(s, S), NEW p \in DOMAIN s
    PROVE  Arranges(Removed(s, p), S \ {s[p]})
<1>1. s \in Seq(S) /\ Len(s) \in Nat /\ DOMAIN s = 1..Len(s) /\ p \in 1..Len(s)
  BY DEF Arranges
<1> DEFINE t == Removed(s, p)
<1>2. \A i \in DOMAIN s : i # p => s[i] \in S \ {s[p]}
  BY <1>1 DEF Arranges
<1>3. /\ t \in Seq(S \ {s[p]}) /\ DOMAIN t = 1..Len(s) - 1
      /\ \A i \in 1..Len(s) - 1 : t[i] = IF i < p THEN s[i] ELSE s[i + 1]
  BY <1>1, <1>2, RemovedFacts
<1> HIDE DEF t
<1>4. ASSUME NEW i \in DOMAIN t, NEW j \in DOMAIN t, t[i] = t[j] PROVE i = j
  <2>1. ASSUME NEW h \in DOMAIN t
        PROVE  \E g \in DOMAIN s : g = (IF h < p THEN h ELSE h + 1) /\ t[h] = s[g]
    BY <1>1, <1>3
  <2>2. PICK g \in DOMAIN s : g = (IF i < p THEN i ELSE i + 1) /\ t[i] = s[g]
    BY <2>1
  <2>3. PICK h \in DOMAIN s : h = (IF j < p THEN j ELSE j + 1) /\ t[j] = s[h]
    BY <2>1
  <2>4. g = h
    BY <1>4, <2>2, <2>3 DEF Arranges
  <2>5. QED
    BY <1>1, <1>3, <2>2, <2>3, <2>4
<1>5. ASSUME NEW y \in S \ {s[p]} PROVE \E i \in DOMAIN t : t[i] = y
  <2>1. PICK i \in DOMAIN s : s[i] = y
    BY DEF Arranges
  <2>2. CASE i < p
    BY <1>1, <1>3, <2>1, <2>2
  <2>3. CASE i > p
    <3>1. i - 1 \in DOMAIN t /\ t[i - 1] = y
      BY <1>1, <1>3, <2>1, <2>3
    <3>2. QED
      BY <3>1
  <2>4. QED
    BY <1>1, <2>1, <2>2, <2>3
<1>6. QED
  BY <1>3, <1>4, <1>5 DEF Arranges, t

-----------------------------------------------------------------------------
(***************************************************************************)
(* The list.                                                               *)
(***************************************************************************)

Lists == [head : Keys \cup {Nil}, tail : Keys \cup {Nil},
          previous : Links, next : Links]

\* l links keys, which are those of S, and nothing else.
Shape(l, keys, S) ==
    /\ l \in Lists
    /\ Arranges(keys, S)
    /\ l.head = IF Len(keys) = 0 THEN Nil ELSE keys[1]
    /\ l.tail = IF Len(keys) = 0 THEN Nil ELSE keys[Len(keys)]
    /\ \A i \in 1..Len(keys) :
          l.previous[keys[i]] = IF i = 1 THEN Nil ELSE keys[i - 1]
    /\ \A i \in 1..Len(keys) :
          l.next[keys[i]] = IF i = Len(keys) THEN Nil ELSE keys[i + 1]
    /\ \A k \in Keys \ S : l.previous[k] = Nil
    /\ \A k \in Keys \ S : l.next[k] = Nil

\* Nil is no key.
LEMMA NilFacts == Nil \notin Keys
BY CacheAssumption

LEMMA ShapeKeys ==
    ASSUME NEW S \in SUBSET Keys, NEW l, NEW keys, Shape(l, keys, S)
    PROVE  /\ keys \in Seq(S) /\ Len(keys) \in Nat /\ DOMAIN keys = 1..Len(keys)
           /\ \A i \in 1..Len(keys) : keys[i] \in S /\ keys[i] \in Keys
                                      /\ keys[i] # Nil
           /\ \A i, j \in 1..Len(keys) : keys[i] = keys[j] => i = j
<1>1. keys \in Seq(S) /\ Len(keys) \in Nat /\ DOMAIN keys = 1..Len(keys)
  BY DEF Shape, Arranges
<1>2. \A i \in 1..Len(keys) : keys[i] \in S /\ keys[i] \in Keys /\ keys[i] # Nil
  BY <1>1, NilFacts
<1>3. \A i, j \in 1..Len(keys) : keys[i] = keys[j] => i = j
  BY <1>1 DEF Shape, Arranges
<1>4. QED
  BY <1>1, <1>2, <1>3

LEMMA ShapeLinked ==
    ASSUME NEW S \in SUBSET Keys, NEW l, NEW keys, Shape(l, keys, S)
    PROVE  Linked(l, keys)
<1>1. Len(keys) \in Nat /\ DOMAIN keys = 1..Len(keys)
  BY ShapeKeys
<1>2. \A i \in Int : KeyAt(keys, i) = IF 1 <= i /\ i <= Len(keys)
                                      THEN keys[i] ELSE Nil
  BY <1>1 DEF KeyAt
<1>3. l.head = KeyAt(keys, 1) /\ l.tail = KeyAt(keys, Len(keys))
  <2>1. KeyAt(keys, 1) = IF Len(keys) = 0 THEN Nil ELSE keys[1]
    BY <1>1, <1>2
  <2>2. KeyAt(keys, Len(keys)) = IF Len(keys) = 0 THEN Nil ELSE keys[Len(keys)]
    BY <1>1, <1>2
  <2>3. QED
    BY <2>1, <2>2 DEF Shape
<1>4. ASSUME NEW i \in DOMAIN keys
      PROVE  /\ l.previous[keys[i]] = KeyAt(keys, i - 1)
             /\ l.next[keys[i]] = KeyAt(keys, i + 1)
  <2>1. i \in 1..Len(keys) /\ i - 1 \in Int /\ i + 1 \in Int
    BY <1>1
  <2>2. KeyAt(keys, i - 1) = IF i = 1 THEN Nil ELSE keys[i - 1]
    BY <1>1, <1>2, <2>1
  <2>3. KeyAt(keys, i + 1) = IF i = Len(keys) THEN Nil ELSE keys[i + 1]
    BY <1>1, <1>2, <2>1
  <2>4. QED
    BY <2>1, <2>2, <2>3 DEF Shape
<1>5. QED
  BY <1>3, <1>4 DEF Linked

\* insertFront puts k before the others.
LEMMA InsertFrontShape ==
    ASSUME NEW S \in SUBSET Keys, NEW l, NEW keys, Shape(l, keys, S),
           NEW k \in Keys \ S
    PROVE  Shape(insertFront(l, k), Pushed(k, keys), S \cup {k})
<1> DEFINE m == insertFront(l, k)
           after == Pushed(k, keys)
           n == Len(keys)
<1>1. /\ m.head = k
      /\ m.tail = IF l.head = Nil THEN k ELSE l.tail
      /\ m.previous = [x \in Keys |-> CASE x = k -> Nil
                                        [] x # k /\ x = l.head -> k
                                        [] OTHER -> l.previous[x]]
      /\ m.next = [l.next EXCEPT ![k] = l.head]
      /\ m = [head |-> m.head, tail |-> m.tail,
              previous |-> m.previous, next |-> m.next]
  BY DEF insertFront
<1> HIDE DEF m
<1>3. /\ \A i \in 1..n : keys[i] \in S /\ keys[i] # k /\ keys[i] # Nil
      /\ \A i, j \in 1..n : keys[i] = keys[j] => i = j
      /\ n \in Nat
  BY ShapeKeys
<1>4. /\ l.head = IF n = 0 THEN Nil ELSE keys[1]
      /\ l.tail = IF n = 0 THEN Nil ELSE keys[n]
      /\ \A i \in 1..n : l.previous[keys[i]] = IF i = 1 THEN Nil ELSE keys[i - 1]
      /\ \A i \in 1..n : l.next[keys[i]] = IF i = n THEN Nil ELSE keys[i + 1]
      /\ \A x \in Keys \ S : l.previous[x] = Nil /\ l.next[x] = Nil
      /\ l.head \in Keys \cup {Nil} /\ l.tail \in Keys \cup {Nil}
      /\ l.previous \in [Keys -> Keys \cup {Nil}]
      /\ l.next \in [Keys -> Keys \cup {Nil}]
  BY DEF Shape, Lists, Links
<1>5. /\ Arranges(after, S \cup {k}) /\ S \cup {k} \in SUBSET Keys
      /\ Len(after) = n + 1
  <2>1. Arranges(keys, S)
    BY DEF Shape
  <2>2. Arranges(after, S \cup {k})
    BY <2>1, PushedArranges
  <2>3. Len(after) = n + 1
    BY <1>3 DEF Pushed
  <2>4. QED
    BY <2>2, <2>3
<1>6. \A i \in 1..n + 1 : after[i] = IF i = 1 THEN k ELSE keys[i - 1]
  BY DEF Pushed
<1> HIDE DEF after, n
<1>7. m \in Lists
  <2>1. m.previous \in Links /\ m.next \in Links
    BY <1>1, <1>4, NilFacts DEF Links
  <2>2. m.head \in Keys \cup {Nil} /\ m.tail \in Keys \cup {Nil}
    BY <1>1, <1>4
  <2>3. QED
    BY <1>1, <2>1, <2>2 DEF Lists
<1>8. \A i \in 1..n + 1 :
         m.previous[after[i]] = IF i = 1 THEN Nil ELSE after[i - 1]
  <2>1. m.previous[after[1]] = Nil
    BY <1>1, <1>3, <1>4, <1>6
  <2>2. ASSUME NEW i \in 1..n + 1, i # 1
        PROVE  m.previous[after[i]] = after[i - 1]
    <3>1. i - 1 \in 1..n /\ after[i] = keys[i - 1] /\ keys[i - 1] \in Keys
          /\ keys[i - 1] # k
      BY <1>3, <1>6, <2>2
    <3>2. CASE i = 2
      BY <1>1, <1>3, <1>4, <1>6, <3>1, <3>2
    <3>3. CASE i # 2
      <4>1. keys[i - 1] # l.head /\ i - 1 # 1
        BY <1>3, <1>4, <3>1, <3>3
      <4>2. m.previous[after[i]] = l.previous[keys[i - 1]]
        BY <1>1, <3>1, <4>1
      <4>3. after[i - 1] = keys[i - 1 - 1]
        BY <1>3, <1>6, <3>1, <3>3
      <4>4. QED
        BY <1>4, <3>1, <4>1, <4>2, <4>3
    <3>4. QED
      BY <3>2, <3>3
  <2>3. QED
    BY <2>1, <2>2
<1>9. \A i \in 1..n + 1 :
         m.next[after[i]] = IF i = n + 1 THEN Nil ELSE after[i + 1]
  <2>1. m.next[after[1]] = IF 1 = n + 1 THEN Nil ELSE after[2]
    BY <1>1, <1>3, <1>4, <1>6
  <2>2. ASSUME NEW i \in 1..n + 1, i # 1
        PROVE  m.next[after[i]] = IF i = n + 1 THEN Nil ELSE after[i + 1]
    <3>1. i - 1 \in 1..n /\ after[i] = keys[i - 1] /\ keys[i - 1] \in Keys
          /\ keys[i - 1] # k
      BY <1>3, <1>6, <2>2
    <3>2. m.next[after[i]] = l.next[keys[i - 1]]
      BY <1>1, <1>4, <3>1
    <3>3. i # n + 1 => after[i + 1] = keys[i - 1 + 1]
      BY <1>3, <1>6, <3>1
    <3>4. QED
      BY <1>3, <1>4, <3>1, <3>2, <3>3
  <2>3. QED
    BY <2>1, <2>2
<1>10. \A x \in Keys \ (S \cup {k}) : m.previous[x] = Nil /\ m.next[x] = Nil
  <2>1. l.head \in S \cup {Nil}
    BY <1>3, <1>4
  <2>2. QED
    BY <1>1, <1>4, <2>1, NilFacts
<1>11. /\ m.head = IF n + 1 = 0 THEN Nil ELSE after[1]
       /\ m.tail = IF n + 1 = 0 THEN Nil ELSE after[n + 1]
  <2>1. m.head = after[1] /\ n + 1 # 0
    BY <1>1, <1>3, <1>4, <1>6
  <2>2. m.tail = after[n + 1]
    <3>1. CASE n = 0
      BY <1>1, <1>3, <1>4, <1>6, <3>1
    <3>2. CASE n # 0
      BY <1>1, <1>3, <1>4, <1>6, <3>2
    <3>3. QED
      BY <3>1, <3>2
  <2>3. QED
    BY <2>1, <2>2
<1>12. Shape(m, after, S \cup {k})
  BY <1>5, <1>7, <1>8, <1>9, <1>10, <1>11 DEF Shape
<1>13. QED
  BY <1>12 DEF m, after

\* unlink takes the p-th key out.
LEMMA UnlinkShape ==
    ASSUME NEW S \in SUBSET Keys, NEW l, NEW keys, Shape(l, keys, S),
           NEW p \in DOMAIN keys
    PROVE  Shape(unlink(l, keys[p]), Removed(keys, p), S \ {keys[p]})
<1> DEFINE m == unlink(l, keys[p])
           after == Removed(keys, p)
           n == Len(keys)
           before == IF p = 1 THEN Nil ELSE keys[p - 1]
           behind == IF p = n THEN Nil ELSE keys[p + 1]
<1>1. /\ \A i \in 1..n : keys[i] \in S /\ keys[i] \in Keys /\ keys[i] # Nil
      /\ \A i, j \in 1..n : keys[i] = keys[j] => i = j
      /\ n \in Nat /\ p \in 1..n
  BY ShapeKeys
<1>2. /\ l.head = IF n = 0 THEN Nil ELSE keys[1]
      /\ l.tail = IF n = 0 THEN Nil ELSE keys[n]
      /\ \A i \in 1..n : l.previous[keys[i]] = IF i = 1 THEN Nil ELSE keys[i - 1]
      /\ \A i \in 1..n : l.next[keys[i]] = IF i = n THEN Nil ELSE keys[i + 1]
      /\ \A x \in Keys \ S : l.previous[x] = Nil /\ l.next[x] = Nil
      /\ l.head \in Keys \cup {Nil} /\ l.tail \in Keys \cup {Nil}
      /\ l.previous \in [Keys -> Keys \cup {Nil}]
      /\ l.next \in [Keys -> Keys \cup {Nil}]
  BY DEF Shape, Lists, Links
<1>3. /\ l.previous[keys[p]] = before /\ l.next[keys[p]] = behind
      /\ before \in Keys \cup {Nil} /\ behind \in Keys \cup {Nil}
      /\ before = Nil <=> p = 1
      /\ behind = Nil <=> p = n
  <2>1. p # 1 => p - 1 \in 1..n
    BY <1>1
  <2>2. p # n => p + 1 \in 1..n
    BY <1>1
  <2>3. QED
    BY <1>1, <1>2, <2>1, <2>2
<1>4. /\ m.head = IF before = Nil THEN behind ELSE l.head
      /\ m.tail = IF behind = Nil THEN before ELSE l.tail
      /\ m.previous = [x \in Keys |-> CASE x = keys[p] -> Nil
                                     [] x # keys[p] /\ x = behind -> before
                                     [] OTHER -> l.previous[x]]
      /\ m.next = [x \in Keys |-> CASE x = keys[p] -> Nil
                                 [] x # keys[p] /\ x = before -> behind
                                 [] OTHER -> l.next[x]]
      /\ m = [head |-> m.head, tail |-> m.tail,
              previous |-> m.previous, next |-> m.next]
  BY <1>3 DEF unlink
<1>5. /\ Arranges(after, S \ {keys[p]}) /\ Len(after) = n - 1 /\ n - 1 \in Nat
      /\ \A i \in 1..n - 1 : after[i] = IF i < p THEN keys[i] ELSE keys[i + 1]
  <2>1. Arranges(keys, S)
    BY DEF Shape
  <2>2. Arranges(after, S \ {keys[p]})
    BY <2>1, RemovedArranges
  <2>3. n - 1 \in Nat
    BY <1>1
  <2>4. Len(after) = n - 1
    BY <2>3 DEF Removed
  <2>5. \A i \in 1..n - 1 : after[i] = IF i < p THEN keys[i] ELSE keys[i + 1]
    BY DEF Removed
  <2>6. QED
    BY <2>2, <2>3, <2>4, <2>5
<1> HIDE DEF m, after, n
\* Where the keys before and behind are afterwards.
<1>6. \A i \in 1..n - 1 : after[i] \in Keys /\ after[i] # keys[p] /\ after[i] # Nil
  BY <1>1, <1>5
<1>7. ASSUME NEW i \in 1..n - 1
      PROVE  /\ after[i] = behind <=> p # n /\ i = p
             /\ after[i] = before <=> p # 1 /\ i = p - 1
  <2>1. CASE i < p
    <3>1. after[i] = keys[i] /\ i \in 1..n
      BY <1>1, <1>5, <2>1
    <3>2. p # n => p + 1 \in 1..n /\ p + 1 # i
      BY <1>1, <2>1
    <3>3. p # 1 => p - 1 \in 1..n
      BY <1>1
    <3>4. after[i] = behind <=> p # n /\ i = p
      BY <1>1, <2>1, <3>1, <3>2
    <3>5. after[i] = before <=> p # 1 /\ i = p - 1
      BY <1>1, <3>1, <3>3
    <3>6. QED
      BY <3>4, <3>5
  <2>2. CASE i >= p
    <3>1. after[i] = keys[i + 1] /\ i + 1 \in 1..n
      BY <1>1, <1>5, <2>2
    <3>2. p # n => p + 1 \in 1..n
      BY <1>1
    <3>3. p # 1 => p - 1 \in 1..n /\ p - 1 # i + 1 /\ p - 1 # i
      BY <1>1, <2>2
    <3>4. i + 1 = p + 1 <=> i = p
      BY <1>1
    <3>5. p = n => i # p
      BY <1>1
    <3>6. after[i] = behind <=> p # n /\ i = p
      BY <1>1, <3>1, <3>2, <3>4, <3>5
    <3>7. after[i] = before <=> p # 1 /\ i = p - 1
      BY <1>1, <3>1, <3>3
    <3>8. QED
      BY <3>6, <3>7
  <2>3. QED
    BY <1>1, <2>1, <2>2
<1>8. m \in Lists
  <2>1. m.previous \in Links /\ m.next \in Links
    BY <1>2, <1>3, <1>4 DEF Links
  <2>2. m.head \in Keys \cup {Nil} /\ m.tail \in Keys \cup {Nil}
    BY <1>2, <1>3, <1>4
  <2>3. QED
    BY <1>4, <2>1, <2>2 DEF Lists
<1>9. m.head = IF n - 1 = 0 THEN Nil ELSE after[1]
  BY <1>1, <1>2, <1>3, <1>4, <1>5
<1>10. m.tail = IF n - 1 = 0 THEN Nil ELSE after[n - 1]
  BY <1>1, <1>2, <1>3, <1>4, <1>5
<1>11. \A i \in 1..n - 1 :
          m.previous[after[i]] = IF i = 1 THEN Nil ELSE after[i - 1]
  <2> SUFFICES ASSUME NEW i \in 1..n - 1
               PROVE  m.previous[after[i]] = IF i = 1 THEN Nil ELSE after[i - 1]
    OBVIOUS
  <2>1. m.previous[after[i]] = IF p # n /\ i = p THEN before
                               ELSE l.previous[after[i]]
    BY <1>4, <1>6, <1>7
  <2>2. CASE i < p
    <3>1. after[i] = keys[i] /\ i \in 1..n /\ i # p
      BY <1>1, <1>5, <2>2
    <3>2. i # 1 => after[i - 1] = keys[i - 1]
      BY <1>1, <1>5, <2>2
    <3>3. QED
      BY <1>2, <2>1, <3>1, <3>2
  <2>3. CASE i = p
    <3>1. p # n
      BY <1>1, <2>3
    <3>2. i # 1 => after[i - 1] = keys[p - 1]
      BY <1>1, <1>5, <2>3
    <3>3. QED
      BY <2>1, <2>3, <3>1, <3>2
  <2>4. CASE i > p
    <3>1. after[i] = keys[i + 1] /\ i + 1 \in 1..n /\ i # p /\ i # 1 /\ i + 1 # 1
      BY <1>1, <1>5, <2>4
    <3>2. after[i - 1] = keys[i + 1 - 1]
      BY <1>1, <1>5, <2>4
    <3>3. l.previous[keys[i + 1]] = keys[i + 1 - 1]
      BY <1>2, <3>1
    <3>4. QED
      BY <2>1, <3>1, <3>2, <3>3
  <2>5. QED
    BY <1>1, <2>2, <2>3, <2>4
<1>12. \A i \in 1..n - 1 :
          m.next[after[i]] = IF i = n - 1 THEN Nil ELSE after[i + 1]
  <2> SUFFICES ASSUME NEW i \in 1..n - 1
               PROVE  m.next[after[i]] = IF i = n - 1 THEN Nil ELSE after[i + 1]
    OBVIOUS
  <2>1. m.next[after[i]] = IF p # 1 /\ i = p - 1 THEN behind
                           ELSE l.next[after[i]]
    BY <1>4, <1>6, <1>7
  <2>2. CASE i < p - 1
    <3>1. after[i] = keys[i] /\ i \in 1..n /\ i # p - 1 /\ i # n /\ i # n - 1
      BY <1>1, <1>5, <2>2
    <3>2. after[i + 1] = keys[i + 1]
      BY <1>1, <1>5, <2>2
    <3>3. QED
      BY <1>2, <2>1, <3>1, <3>2
  <2>3. CASE i = p - 1
    <3>1. p # 1 /\ (p = n <=> i = n - 1)
      BY <1>1, <2>3
    <3>2. i # n - 1 => after[i + 1] = keys[p + 1]
      BY <1>1, <1>5, <2>3
    <3>3. QED
      BY <2>1, <2>3, <3>1, <3>2
  <2>4. CASE i >= p
    <3>1. after[i] = keys[i + 1] /\ i + 1 \in 1..n /\ i # p - 1
          /\ (i + 1 = n <=> i = n - 1)
      BY <1>1, <1>5, <2>4
    <3>2. i # n - 1 => after[i + 1] = keys[i + 1 + 1]
      BY <1>1, <1>5, <2>4
    <3>3. l.next[keys[i + 1]] = IF i + 1 = n THEN Nil ELSE keys[i + 1 + 1]
      BY <1>2, <3>1
    <3>4. QED
      BY <2>1, <3>1, <3>2, <3>3
  <2>5. QED
    BY <1>1, <2>2, <2>3, <2>4
<1>13. \A x \in Keys \ (S \ {keys[p]}) : m.previous[x] = Nil /\ m.next[x] = Nil
  <2>1. before \in S \cup {Nil} /\ behind \in S \cup {Nil}
    <3>1. (p # 1 => p - 1 \in 1..n) /\ (p # n => p + 1 \in 1..n)
      BY <1>1
    <3>2. QED
      BY <1>1, <3>1
  <2>2. ASSUME NEW x \in Keys \ S PROVE m.previous[x] = Nil /\ m.next[x] = Nil
    <3>1. x # keys[p] /\ x # before /\ x # behind
      BY <1>1, <2>1, NilFacts
    <3>2. QED
      BY <1>2, <1>4, <3>1
  <2>3. m.previous[keys[p]] = Nil /\ m.next[keys[p]] = Nil
    BY <1>1, <1>4
  <2>4. QED
    BY <2>2, <2>3
<1>14. Shape(m, after, S \ {keys[p]})
  BY <1>5, <1>8, <1>9, <1>10, <1>11, <1>12, <1>13 DEF Shape
<1>15. QED
  BY <1>14 DEF m, after

\* moveToFront takes the p-th key to the front.
LEMMA MoveToFrontShape ==
    ASSUME NEW S \in SUBSET Keys, NEW l, NEW keys, Shape(l, keys, S),
           NEW p \in DOMAIN keys
    PROVE  Shape(moveToFront(l, keys[p]), Pushed(keys[p], Removed(keys, p)), S)
<1>1. /\ keys \in Seq(S) /\ Len(keys) \in Nat /\ p \in 1..Len(keys)
      /\ keys[p] \in S
      /\ \A i, j \in 1..Len(keys) : keys[i] = keys[j] => i = j
  BY ShapeKeys
<1>2. CASE keys[p] = l.head
  <2>1. p = 1 /\ l.head = keys[1]
    BY <1>1, <1>2 DEF Shape
  <2>2. Pushed(keys[1], Removed(keys, 1)) = keys
    <3>1. /\ DOMAIN Removed(keys, 1) = 1..Len(keys) - 1
          /\ Len(Removed(keys, 1)) = Len(keys) - 1
          /\ \A i \in 1..Len(keys) - 1 : Removed(keys, 1)[i] = keys[i + 1]
      BY <1>1, <2>1 DEF Removed
    <3>2. Pushed(keys[1], Removed(keys, 1)) =
             [i \in 1..Len(keys) |-> IF i = 1 THEN keys[1]
                                     ELSE Removed(keys, 1)[i - 1]]
      BY <1>1, <2>1, <3>1 DEF Pushed
    <3>3. \A i \in 1..Len(keys) :
             (IF i = 1 THEN keys[1] ELSE Removed(keys, 1)[i - 1]) = keys[i]
      BY <1>1, <3>1
    <3>4. keys = [i \in 1..Len(keys) |-> keys[i]]
      BY <1>1
    <3>5. QED
      BY <3>2, <3>3, <3>4
  <2>3. QED
    BY <1>2, <2>1, <2>2 DEF moveToFront
<1>3. CASE keys[p] # l.head
  <2>1. Shape(unlink(l, keys[p]), Removed(keys, p), S \ {keys[p]})
    BY UnlinkShape
  <2>2. /\ S \ {keys[p]} \in SUBSET Keys /\ keys[p] \in Keys \ (S \ {keys[p]})
        /\ (S \ {keys[p]}) \cup {keys[p]} = S
    BY <1>1
  <2>3. Shape(insertFront(unlink(l, keys[p]), keys[p]),
              Pushed(keys[p], Removed(keys, p)),
              (S \ {keys[p]}) \cup {keys[p]})
    BY <2>1, <2>2, InsertFrontShape
  <2>4. QED
    BY <1>3, <2>2, <2>3 DEF moveToFront
<1>4. QED
  BY <1>2, <1>3

-----------------------------------------------------------------------------
(***************************************************************************)
(* unlinkAll: one removal after the other.                                 *)
(***************************************************************************)

\* f lists what each of the first n removals leaves of l.
Removals(f, n, l, order) ==
    f = [i \in 0..n |-> IF i = 0 THEN l ELSE unlink(f[i - 1], order[i])]

LEMMA RemovalsExist ==
    ASSUME NEW l, NEW order
    PROVE  \A n \in Nat : \E f : Removals(f, n, l, order)
<1> DEFINE T == {n \in Nat : ~ \E f : Removals(f, n, l, order)}
<1> SUFFICES ASSUME T # {} PROVE FALSE
  OBVIOUS
<1>1. PICK n \in T : \A m \in T : n <= m
  <2>1. T \subseteq Nat
    OBVIOUS
  <2>2. QED
    BY <2>1, Least
<1>2. n \in Nat /\ ~ \E f : Removals(f, n, l, order)
  BY <1>1
<1>3. CASE n = 0
  <2> DEFINE f == [i \in 0..n |-> l]
  <2>1. f = [i \in 0..n |-> IF i = 0 THEN l ELSE unlink(f[i - 1], order[i])]
    BY <1>3
  <2> HIDE DEF f
  <2>2. QED
    BY <1>2, <2>1 DEF Removals
<1>4. CASE n # 0
  <2>1. n - 1 \in Nat /\ n - 1 \notin T
    BY <1>1, <1>2, <1>4
  <2>2. PICK g : Removals(g, n - 1, l, order)
    BY <2>1
  <2>3. g = [i \in 0..n - 1 |-> IF i = 0 THEN l ELSE unlink(g[i - 1], order[i])]
    BY <2>2 DEF Removals
  <2> DEFINE f == [i \in 0..n |-> IF i = n THEN unlink(g[n - 1], order[n])
                                  ELSE g[i]]
  <2>4. /\ \A i \in 0..n - 1 : f[i] = g[i]
        /\ f[n] = unlink(g[n - 1], order[n])
    BY <1>2, <2>1
  <2>5. f = [i \in 0..n |-> f[i]]
    OBVIOUS
  <2> HIDE DEF f
  <2>6. ASSUME NEW i \in 0..n
        PROVE  f[i] = IF i = 0 THEN l ELSE unlink(f[i - 1], order[i])
    <3>1. CASE i = n
      <4>1. f[i - 1] = g[n - 1]
        BY <2>1, <2>4, <3>1
      <4>2. QED
        BY <1>4, <2>4, <3>1, <4>1
    <3>2. CASE i # n
      <4>1. i \in 0..n - 1 /\ f[i] = g[i]
        BY <1>2, <2>4, <3>2
      <4>2. i # 0 => f[i - 1] = g[i - 1]
        BY <1>2, <2>4, <4>1
      <4>3. QED
        BY <2>3, <4>1, <4>2
    <3>3. QED
      BY <3>1, <3>2
  <2>7. Removals(f, n, l, order)
    BY <2>5, <2>6 DEF Removals
  <2>8. QED
    BY <1>2, <2>7
<1>5. QED
  BY <1>3, <1>4

LEMMA UnlinkAllRemoves ==
    ASSUME NEW l, NEW order, Len(order) \in Nat
    PROVE  \E f : /\ Removals(f, Len(order), l, order)
                  /\ unlinkAll(l, order) = f[Len(order)]
<1>1. \E f : f = [i \in 0..Len(order) |->
                    IF i = 0 THEN l ELSE unlink(f[i - 1], order[i])]
  <2>1. PICK f : Removals(f, Len(order), l, order)
    BY RemovalsExist
  <2>2. f = [i \in 0..Len(order) |->
               IF i = 0 THEN l ELSE unlink(f[i - 1], order[i])]
    BY <2>1 DEF Removals
  <2>3. QED
    BY <2>2
<1> DEFINE after == CHOOSE f : f = [i \in 0..Len(order) |->
                       IF i = 0 THEN l ELSE unlink(f[i - 1], order[i])]
<1>2. after = [i \in 0..Len(order) |->
                 IF i = 0 THEN l ELSE unlink(after[i - 1], order[i])]
  BY <1>1
<1>3. unlinkAll(l, order) = after[Len(order)]
  BY DEF unlinkAll
<1> HIDE DEF after
<1>4. QED
  BY <1>2, <1>3 DEF Removals

\* s is what is left of t, in the same order: f tells from where.
Kept(s, f, t) ==
    /\ f \in [DOMAIN s -> DOMAIN t]
    /\ \A i, j \in DOMAIN s : i < j => f[i] < f[j]
    /\ \A i \in DOMAIN s : s[i] = t[f[i]]

LEMMA RemovedKept ==
    ASSUME NEW S, NEW s \in Seq(S), NEW T, NEW t \in Seq(T), NEW f, Kept(s, f, t),
           NEW p \in DOMAIN s
    PROVE  \E g : Kept(Removed(s, p), g, t)
<1> DEFINE n == Len(s)
           r == Removed(s, p)
           g == [i \in 1..n - 1 |-> IF i < p THEN f[i] ELSE f[i + 1]]
<1>1. n \in Nat /\ DOMAIN s = 1..n /\ p \in 1..n
  BY Zenon, LenProperties
<1>2. /\ DOMAIN r = 1..n - 1
      /\ \A i \in 1..n - 1 : r[i] = IF i < p THEN s[i] ELSE s[i + 1]
  BY DEF Removed
<1>3. \A i \in 1..n - 1 : g[i] = IF i < p THEN f[i] ELSE f[i + 1]
  OBVIOUS
<1>4. DOMAIN t \subseteq Int
  OBVIOUS
<1>5. g \in [1..n - 1 -> DOMAIN t]
  BY <1>1 DEF Kept
<1> HIDE DEF g, r, n
<1>6. ASSUME NEW i \in 1..n - 1, NEW j \in 1..n - 1, i < j PROVE g[i] < g[j]
  <2>1. PICK h \in 1..n : h = (IF i < p THEN i ELSE i + 1) /\ g[i] = f[h]
    BY <1>1, <1>3
  <2>2. PICK k \in 1..n : k = (IF j < p THEN j ELSE j + 1) /\ g[j] = f[k]
    BY <1>1, <1>3
  <2>3. h < k
    BY <1>1, <1>6, <2>1, <2>2
  <2>4. QED
    BY <1>1, <2>1, <2>2, <2>3 DEF Kept
<1>7. ASSUME NEW i \in 1..n - 1 PROVE r[i] = t[g[i]]
  <2>1. PICK h \in 1..n : h = (IF i < p THEN i ELSE i + 1) /\ g[i] = f[h]
    BY <1>1, <1>3
  <2>2. r[i] = s[h]
    BY <1>2, <2>1
  <2>3. QED
    BY <1>1, <2>1, <2>2 DEF Kept
<1>8. Kept(r, g, t)
  BY <1>2, <1>5, <1>6, <1>7 DEF Kept
<1>9. QED
  BY <1>8 DEF r

\* An order of G visits all of G.
LEMMA OrderArranges ==
    ASSUME NEW G, IsFiniteSet(G), NEW order \in SetToSeqs(G)
    PROVE  Arranges(order, G)
<1>1. /\ Cardinality(G) \in Nat /\ order \in [1..Cardinality(G) -> G]
      /\ \A i, j \in 1..Cardinality(G) : i # j => order[i] # order[j]
  BY FS_CardinalityType DEF SetToSeqs
<1>2. order \in Injection(1..Cardinality(G), G)
  BY <1>1 DEF Injection, IsInjective
<1>3. Cardinality(1..Cardinality(G)) = Cardinality(G)
  BY <1>1, FS_Interval
<1>4. order \in Surjection(1..Cardinality(G), G)
  BY <1>2, <1>3, FS_Injection
<1>5. \A x \in G : \E i \in 1..Cardinality(G) : order[i] = x
  BY <1>4 DEF Surjection
<1>6. order \in Seq(G) /\ DOMAIN order = 1..Cardinality(G)
  BY <1>1
<1>7. QED
  BY <1>1, <1>5, <1>6 DEF Arranges

\* Removing the keys of order one by one leaves the others in their order.
LEMMA UnlinkAllShape ==
    ASSUME NEW S \in SUBSET Keys, NEW l, NEW keys, Shape(l, keys, S),
           NEW G \in SUBSET S, NEW order, Arranges(order, G)
    PROVE  \E rest, f : /\ Shape(unlinkAll(l, order), rest, S \ G)
                        /\ Kept(rest, f, keys)
<1>1. /\ Len(order) \in Nat /\ DOMAIN order = 1..Len(order)
      /\ order \in Seq(G)
      /\ \A i, j \in 1..Len(order) : order[i] = order[j] => i = j
      /\ \A x \in G : \E i \in 1..Len(order) : order[i] = x
  BY DEF Arranges
<1>2. PICK after : /\ Removals(after, Len(order), l, order)
                   /\ unlinkAll(l, order) = after[Len(order)]
  BY <1>1, UnlinkAllRemoves
<1>3. /\ after[0] = l
      /\ \A i \in 1..Len(order) : after[i] = unlink(after[i - 1], order[i])
  BY <1>1, <1>2 DEF Removals
<1> DEFINE Gone(i) == {order[h] : h \in 1..i}
           Done(i) == \E rest, f : /\ Shape(after[i], rest, S \ Gone(i))
                                   /\ Kept(rest, f, keys)
           T == {i \in 0..Len(order) : ~Done(i)}
<1>4. Done(0)
  <2>1. Gone(0) = {}
    OBVIOUS
  <2>2. keys \in Seq(S) /\ DOMAIN keys \subseteq Int
    BY ShapeKeys
  <2>3. Kept(keys, [i \in DOMAIN keys |-> i], keys)
    BY <2>2 DEF Kept
  <2>4. Shape(after[0], keys, S \ Gone(0))
    BY <1>3, <2>1
  <2>5. QED
    BY <2>3, <2>4
<1>5. ASSUME NEW i \in 1..Len(order), Done(i - 1) PROVE Done(i)
  <2>1. PICK rest, f : /\ Shape(after[i - 1], rest, S \ Gone(i - 1))
                       /\ Kept(rest, f, keys)
    BY <1>5
  <2>2. order[i] \in S \ Gone(i - 1)
    BY <1>1
  <2>3. PICK R : R = S \ Gone(i - 1) /\ R \in SUBSET Keys
    OBVIOUS
  <2>4. PICK p \in DOMAIN rest : rest[p] = order[i]
    BY <2>1, <2>2, <2>3 DEF Shape, Arranges
  <2>5. Shape(unlink(after[i - 1], rest[p]), Removed(rest, p), R \ {rest[p]})
    BY <2>1, <2>3, UnlinkShape
  <2>6. R \ {rest[p]} = S \ Gone(i)
    <3>1. Gone(i) = Gone(i - 1) \cup {order[i]}
      <4>1. 1..i = (1..i - 1) \cup {i}
        BY <1>1
      <4>2. QED
        BY <4>1
    <3>2. QED
      BY <2>3, <2>4, <3>1
  <2>7. Shape(after[i], Removed(rest, p), S \ Gone(i))
    BY <1>3, <2>4, <2>5, <2>6
  <2>8. rest \in Seq(R) /\ keys \in Seq(S)
    BY <2>1, <2>3, ShapeKeys
  <2>9. PICK g : Kept(Removed(rest, p), g, keys)
    BY <2>1, <2>8, RemovedKept
  <2>10. QED
    BY <2>7, <2>9
<1> HIDE DEF Done
<1>6. T = {}
  <2> SUFFICES ASSUME T # {} PROVE FALSE
    OBVIOUS
  <2>1. PICK i \in T : \A j \in T : i <= j
    <3>1. T \subseteq Nat
      BY <1>1
    <3>2. QED
      BY <3>1, Least
  <2>2. i \in 0..Len(order) /\ ~Done(i)
    OBVIOUS
  <2>3. i # 0
    BY <1>4, <2>2
  <2>4. i - 1 \in 0..Len(order) /\ i - 1 \notin T /\ i \in 1..Len(order)
    BY <1>1, <2>1, <2>2, <2>3
  <2>5. QED
    BY <1>5, <2>2, <2>4
<1>7. Done(Len(order))
  BY <1>1, <1>6
<1>8. Gone(Len(order)) = G
  BY <1>1
<1>9. QED
  BY <1>2, <1>7, <1>8 DEF Done

-----------------------------------------------------------------------------
(***************************************************************************)
(* The inductive invariant.                                                *)
(***************************************************************************)

\* A call's clock reading is not in the future, and its arguments are those
\* its operation takes.
Calls ==
    /\ clock \in 0..MaxTime
    /\ op \in [Callers -> {"idle", "get", "put", "delete", "purge"}]
    /\ arg \in [Callers -> [key : Keys \cup {Nothing},
                            value : Values \cup {Nothing},
                            ttl : TTLs \cup {0}, now : 0..MaxTime]]
    /\ answer \in [Callers -> Values \cup {Nothing}]
    /\ \A c \in Callers :
          /\ arg[c].now <= clock
          /\ op[c] \in {"get", "put", "delete"} => arg[c].key \in Keys
          /\ op[c] = "put" => arg[c].value \in Values /\ arg[c].ttl \in TTLs

Item == [value : Values, expiresAt : Nat]

\* The list links the held keys, of which there are at most Capacity.
Holds(keys) == Shape(list, keys, Held) /\ Len(keys) <= Capacity

CacheInv ==
    /\ Calls
    /\ items \in [Keys -> {Nil} \cup Item]
    /\ \E keys : Holds(keys)

\* The list links its keys in one order only.
LEMMA OneOrder ==
    ASSUME NEW S \in SUBSET Keys, NEW l, NEW keys, Shape(l, keys, S)
    PROVE  /\ keys \in [1..Cardinality(S) -> S] /\ Linked(l, keys)
           /\ \A order \in [1..Cardinality(S) -> S] :
                 Linked(l, order) => order = keys
<1> DEFINE n == Cardinality(S)
<1>1. Arranges(keys, S)
  BY DEF Shape
<1>2. keys \in [1..n -> S] /\ Len(keys) = n /\ n \in Nat /\ Linked(l, keys)
  BY <1>1, ArrangedSet, ShapeLinked, ShapeKeys
<1> HIDE DEF n
<1>3. ASSUME NEW order \in [1..n -> S], Linked(l, order)
      PROVE  order = keys
  <2> DEFINE T == {i \in 1..n : order[i] # keys[i]}
  <2>1. T = {}
    <3> SUFFICES ASSUME T # {} PROVE FALSE
      OBVIOUS
    <3>1. PICK i \in T : \A j \in T : i <= j
      <4>1. T \subseteq Nat
        BY <1>2
      <4>2. QED
        BY <4>1, Least
    <3>2. i \in 1..n /\ order[i] # keys[i]
      OBVIOUS
    <3>3. CASE i = 1
      <4>1. 1 \in DOMAIN order /\ 1 \in DOMAIN keys
        BY <1>2, <3>2, <3>3
      <4>2. order[1] = l.head /\ keys[1] = l.head
        BY <1>2, <1>3, <4>1 DEF Linked, KeyAt
      <4>3. QED
        BY <3>2, <3>3, <4>2
    <3>4. CASE i # 1
      <4>1. i - 1 \in 1..n /\ i - 1 + 1 = i
        BY <1>2, <3>2, <3>4
      <4>2. order[i - 1] = keys[i - 1]
        BY <1>2, <3>1, <4>1
      <4>3. l.next[order[i - 1]] = order[i]
        BY <1>2, <1>3, <3>2, <4>1 DEF Linked, KeyAt
      <4>4. l.next[keys[i - 1]] = keys[i]
        BY <1>2, <3>2, <4>1 DEF Linked, KeyAt
      <4>5. QED
        BY <3>2, <4>2, <4>3, <4>4
    <3>5. QED
      BY <3>3, <3>4
  <2>2. \A i \in 1..n : order[i] = keys[i]
    BY <2>1
  <2>3. QED
    BY <1>2, <2>2
<1>4. QED
  BY <1>2, <1>3 DEF n

LEMMA InitCache == Init => CacheInv
<1> SUFFICES ASSUME Init PROVE CacheInv
  OBVIOUS
<1>1. Calls
  BY CacheAssumption DEF Init, Calls, NoArg
<1>2. items \in [Keys -> {Nil} \cup Item] /\ Held = {}
  BY DEF Init, Held
<1>3. Shape(list, << >>, {})
  <2>1. EmptyList \in Lists
    BY DEF EmptyList, Lists, Links
  <2>2. Arranges(<< >>, {}) /\ Len(<< >>) = 0
    BY DEF Arranges
  <2>3. QED
    BY <2>1, <2>2 DEF Shape, Init, EmptyList
<1>4. Holds(<< >>)
  BY <1>2, <1>3, CacheAssumption DEF Holds
<1>5. QED
  BY <1>1, <1>2, <1>4 DEF CacheInv

\* A call begins, ends, or time passes.
LEMMA BeginCalls ==
    ASSUME Calls, NEW c \in Callers, NEW call \in {"get", "put", "delete", "purge"},
           NEW k, NEW v, NEW ttl, Begin(c, call, k, v, ttl),
           k \in Keys \cup {Nothing}, v \in Values \cup {Nothing},
           ttl \in TTLs \cup {0},
           call # "purge" => k \in Keys,
           call = "put" => v \in Values /\ ttl \in TTLs
    PROVE  Calls'
<1>1. PICK a : a = [key |-> k, value |-> v, ttl |-> ttl, now |-> clock]
  OBVIOUS
<1>2. /\ a \in [key : Keys \cup {Nothing}, value : Values \cup {Nothing},
                ttl : TTLs \cup {0}, now : 0..MaxTime]
      /\ a.key = k /\ a.value = v /\ a.ttl = ttl /\ a.now = clock
  BY <1>1 DEF Calls
<1>3. /\ op' = [op EXCEPT ![c] = call] /\ arg' = [arg EXCEPT ![c] = a]
      /\ clock' = clock /\ answer' = answer
  BY <1>1 DEF Begin
<1>4. clock \in Nat
  BY CacheAssumption DEF Calls
<1>5. QED
  BY <1>2, <1>3, <1>4 DEF Calls

LEMMA ReturnCalls ==
    ASSUME Calls, NEW c \in Callers, Return(c),
           answer' \in [Callers -> Values \cup {Nothing}]
    PROVE  Calls'
<1>1. /\ NoArg \in [key : Keys \cup {Nothing}, value : Values \cup {Nothing},
                    ttl : TTLs \cup {0}, now : 0..MaxTime]
      /\ NoArg.now = 0
  BY CacheAssumption DEF NoArg
<1>2. clock \in Nat /\ clock' = clock
  BY CacheAssumption DEF Calls, Return
<1>3. op' = [op EXCEPT ![c] = "idle"] /\ arg' = [arg EXCEPT ![c] = NoArg]
  BY DEF Return
<1>4. \A d \in Callers : /\ d # c => op'[d] = op[d] /\ arg'[d] = arg[d]
                         /\ d = c => op'[d] = "idle" /\ arg'[d] = NoArg
  BY <1>3 DEF Calls
<1>5. \A d \in Callers :
         /\ arg'[d].now <= clock'
         /\ op'[d] \in {"get", "put", "delete"} => arg'[d].key \in Keys
         /\ op'[d] = "put" => arg'[d].value \in Values /\ arg'[d].ttl \in TTLs
  BY <1>1, <1>2, <1>4 DEF Calls
<1>6. /\ op' \in [Callers -> {"idle", "get", "put", "delete", "purge"}]
      /\ arg' \in [Callers -> [key : Keys \cup {Nothing},
                               value : Values \cup {Nothing},
                               ttl : TTLs \cup {0}, now : 0..MaxTime]]
  BY <1>1, <1>3 DEF Calls
<1>7. QED
  BY <1>2, <1>5, <1>6 DEF Calls

LEMMA TickCalls == ASSUME Calls, Tick PROVE Calls'
<1>1. /\ clock \in Nat /\ clock' = clock + 1 /\ clock' \in 0..MaxTime
      /\ UNCHANGED <<op, arg, answer>>
  BY CacheAssumption DEF Calls, Tick
<1>2. \A c \in Callers : arg[c].now \in Nat /\ arg[c].now <= clock
  BY CacheAssumption DEF Calls
<1>3. \A c \in Callers : arg'[c].now <= clock'
  BY <1>1, <1>2
<1>4. QED
  BY <1>1, <1>3 DEF Calls

\* An item is not Nil.
LEMMA ItemFacts == Nil \notin Item
BY CacheAssumption DEF Item

\* Where a held key is.
LEMMA HeldAt ==
    ASSUME NEW keys, Holds(keys), NEW k \in Held
    PROVE  \E p \in DOMAIN keys : keys[p] = k
BY DEF Holds, Shape, Arranges

LEMMA HoldsRemoved ==
    ASSUME NEW keys, Holds(keys), NEW p \in DOMAIN keys, NEW l,
           l = unlink(list, keys[p])
    PROVE  Shape(l, Removed(keys, p), Held \ {keys[p]})
           /\ Len(Removed(keys, p)) <= Capacity
<1>1. Held \in SUBSET Keys /\ Shape(list, keys, Held)
  BY DEF Held, Holds
<1>2. Shape(l, Removed(keys, p), Held \ {keys[p]})
  BY <1>1, UnlinkShape
<1>3. keys \in Seq(Held) /\ Len(keys) \in Nat /\ p \in 1..Len(keys)
  BY <1>1, ShapeKeys
<1>4. Len(Removed(keys, p)) = Len(keys) - 1
  BY <1>3 DEF Removed
<1>5. QED
  BY <1>2, <1>3, <1>4, CacheAssumption DEF Holds

LEMMA HoldsMoved ==
    ASSUME NEW keys, Holds(keys), NEW p \in DOMAIN keys, NEW l,
           l = moveToFront(list, keys[p])
    PROVE  LET after == Pushed(keys[p], Removed(keys, p))
           IN  Shape(l, after, Held) /\ Len(after) <= Capacity
<1>1. Held \in SUBSET Keys /\ Shape(list, keys, Held)
  BY DEF Held, Holds
<1>2. keys \in Seq(Held) /\ Len(keys) \in Nat /\ p \in 1..Len(keys)
  BY <1>1, ShapeKeys
<1>3. Len(Removed(keys, p)) = Len(keys) - 1
  BY <1>2 DEF Removed
<1>4. Len(Pushed(keys[p], Removed(keys, p))) = Len(keys)
  BY <1>2, <1>3 DEF Pushed
<1>5. QED
  BY <1>1, <1>4, MoveToFrontShape DEF Holds

-----------------------------------------------------------------------------
(***************************************************************************)
(* What each operation does to the sequence of held keys.                  *)
(***************************************************************************)

LEMMA GetCases ==
    ASSUME Calls, items \in [Keys -> {Nil} \cup Item],
           NEW keys, Holds(keys), NEW c \in Callers, Get(c)
    PROVE  \/ /\ arg[c].key \notin Held
              /\ UNCHANGED <<items, list>>
              /\ answer' = [answer EXCEPT ![c] = Nothing]
           \/ \E p \in DOMAIN keys :
                 /\ keys[p] = arg[c].key
                 /\ expired(items[keys[p]], arg[c].now)
                 /\ items' = [items EXCEPT ![keys[p]] = Nil]
                 /\ Holds(Removed(keys, p))'
                 /\ answer' = [answer EXCEPT ![c] = Nothing]
           \/ \E p \in DOMAIN keys :
                 /\ keys[p] = arg[c].key
                 /\ ~expired(items[keys[p]], arg[c].now)
                 /\ items' = items
                 /\ Holds(Pushed(keys[p], Removed(keys, p)))'
                 /\ answer' = [answer EXCEPT ![c] = items[keys[p]].value]
<1>1. PICK k : k = arg[c].key
  OBVIOUS
<1>2. k \in Keys
  BY <1>1 DEF Calls, Get
<1>3. PICK late \in BOOLEAN : late = expired(items[k], arg[c].now)
  BY DEF expired
<1>4. /\ items' = IF items[k] # Nil /\ late THEN [items EXCEPT ![k] = Nil]
                  ELSE items
      /\ list' = CASE items[k] # Nil /\ late -> unlink(list, k)
                   [] items[k] # Nil /\ ~late -> moveToFront(list, k)
                   [] OTHER -> list
      /\ answer' = [answer EXCEPT ![c] =
                      IF items[k] # Nil /\ ~late THEN items[k].value ELSE Nothing]
  BY <1>1, <1>3 DEF Get, Found
<1>5. CASE items[k] = Nil
  BY <1>1, <1>4, <1>5 DEF Held
<1>6. CASE items[k] # Nil
  <2>1. PICK p \in DOMAIN keys : keys[p] = k
    BY <1>2, <1>6, HeldAt DEF Held
  <2>2. CASE late
    <3>1. items' = [items EXCEPT ![k] = Nil] /\ list' = unlink(list, keys[p])
          /\ answer' = [answer EXCEPT ![c] = Nothing]
      BY <1>4, <1>6, <2>1, <2>2
    <3>2. Held' = Held \ {k}
      BY <1>2, <3>1 DEF Held
    <3>3. PICK l : l = list'
      OBVIOUS
    <3>4. Shape(l, Removed(keys, p), Held \ {keys[p]})
          /\ Len(Removed(keys, p)) <= Capacity
      BY <3>1, <3>3, HoldsRemoved
    <3>5. Holds(Removed(keys, p))'
      BY <2>1, <3>2, <3>3, <3>4 DEF Holds
    <3>6. QED
      BY <1>1, <1>3, <2>1, <2>2, <3>1, <3>5
  <2>3. CASE ~late
    <3>1. items' = items /\ list' = moveToFront(list, keys[p])
          /\ answer' = [answer EXCEPT ![c] = items[k].value]
      BY <1>4, <1>6, <2>1, <2>3
    <3>2. Held' = Held
      BY <3>1 DEF Held
    <3>3. PICK l : l = list'
      OBVIOUS
    <3>4. Shape(l, Pushed(keys[p], Removed(keys, p)), Held)
          /\ Len(Pushed(keys[p], Removed(keys, p))) <= Capacity
      BY <3>1, <3>3, HoldsMoved
    <3>5. Holds(Pushed(keys[p], Removed(keys, p)))'
      BY <3>2, <3>3, <3>4 DEF Holds
    <3>6. QED
      BY <1>1, <1>3, <2>1, <2>3, <3>1, <3>5
  <2>4. QED
    BY <2>2, <2>3
<1>7. QED
  BY <1>5, <1>6

LEMMA DeleteCases ==
    ASSUME Calls, items \in [Keys -> {Nil} \cup Item],
           NEW keys, Holds(keys), NEW c \in Callers, Delete(c)
    PROVE  \/ arg[c].key \notin Held /\ items' = items /\ list' = list
           \/ \E p \in DOMAIN keys :
                 /\ keys[p] = arg[c].key
                 /\ items' = [items EXCEPT ![keys[p]] = Nil]
                 /\ Holds(Removed(keys, p))'
<1>1. PICK k : k = arg[c].key
  OBVIOUS
<1>2. k \in Keys
  BY <1>1 DEF Calls, Delete
<1>3. /\ items' = [items EXCEPT ![k] = Nil]
      /\ list' = IF items[k] = Nil THEN list ELSE unlink(list, k)
  BY <1>1 DEF Delete
<1>4. CASE items[k] = Nil
  <2>1. items' = items
    BY <1>2, <1>3, <1>4
  <2>2. QED
    BY <1>1, <1>3, <1>4, <2>1 DEF Held
<1>5. CASE items[k] # Nil
  <2>1. PICK p \in DOMAIN keys : keys[p] = k
    BY <1>2, <1>5, HeldAt DEF Held
  <2>2. Held' = Held \ {k}
    BY <1>2, <1>3 DEF Held
  <2>3. PICK l : l = list'
    OBVIOUS
  <2>4. Shape(l, Removed(keys, p), Held \ {keys[p]})
        /\ Len(Removed(keys, p)) <= Capacity
    BY <1>3, <1>5, <2>1, <2>3, HoldsRemoved
  <2>5. Holds(Removed(keys, p))'
    BY <2>1, <2>2, <2>3, <2>4 DEF Holds
  <2>6. QED
    BY <1>1, <1>3, <2>1, <2>5
<1>6. QED
  BY <1>4, <1>5

\* The item that Put stores.
NewItem(c) ==
    [value |-> arg[c].value,
     expiresAt |-> IF arg[c].ttl > 0 THEN arg[c].now + arg[c].ttl ELSE 0]

LEMMA NewItemType ==
    ASSUME Calls, NEW c \in Callers, op[c] = "put"
    PROVE  NewItem(c) \in Item /\ NewItem(c) # Nil
<1>1. arg[c].value \in Values /\ arg[c].ttl \in Nat /\ arg[c].now \in Nat
  <2>1. arg[c].value \in Values /\ arg[c].ttl \in TTLs /\ arg[c].now \in 0..MaxTime
    BY DEF Calls
  <2>2. TTLs \subseteq Nat /\ 0..MaxTime \subseteq Nat
    BY CacheAssumption
  <2>3. QED
    BY <2>1, <2>2
<1>2. (IF arg[c].ttl > 0 THEN arg[c].now + arg[c].ttl ELSE 0) \in Nat
  BY <1>1
<1>3. NewItem(c) \in Item
  BY <1>1, <1>2 DEF NewItem, Item
<1>4. QED
  BY <1>3, ItemFacts

\* The insertion that evicts nothing, and the one that evicts the tail.
LEMMA Insertion ==
    ASSUME NEW keys, Holds(keys), NEW k \in Keys \ Held
    PROVE  /\ Cardinality(Held) = Len(keys) /\ Len(keys) \in Nat
           /\ Shape(insertFront(list, k), Pushed(k, keys), Held \cup {k})
           /\ Len(Pushed(k, keys)) = Len(keys) + 1
           /\ DOMAIN Pushed(k, keys) = 1..Len(keys) + 1
           /\ \A i \in 1..Len(keys) + 1 :
                 Pushed(k, keys)[i] = IF i = 1 THEN k ELSE keys[i - 1]
           /\ insertFront(list, k).tail = Pushed(k, keys)[Len(keys) + 1]
           /\ Len(keys) > 0 => /\ keys[Len(keys)] \in Held
                               /\ Pushed(k, keys)[Len(keys) + 1] = keys[Len(keys)]
<1>1. Held \in SUBSET Keys /\ Shape(list, keys, Held)
  BY DEF Held, Holds
<1>2. keys \in Seq(Held) /\ Len(keys) \in Nat /\ DOMAIN keys = 1..Len(keys)
  BY <1>1, ShapeKeys
<1>3. Cardinality(Held) = Len(keys)
  BY <1>1, ArrangedSet DEF Shape
<1>4. Shape(insertFront(list, k), Pushed(k, keys), Held \cup {k})
  BY <1>1, InsertFrontShape
<1>5. /\ Len(Pushed(k, keys)) = Len(keys) + 1
      /\ DOMAIN Pushed(k, keys) = 1..Len(keys) + 1
      /\ \A i \in 1..Len(keys) + 1 :
            Pushed(k, keys)[i] = IF i = 1 THEN k ELSE keys[i - 1]
  BY <1>2 DEF Pushed
<1>6. insertFront(list, k).tail = Pushed(k, keys)[Len(keys) + 1]
  BY <1>2, <1>4, <1>5 DEF Shape
<1>7. Len(keys) > 0 => /\ keys[Len(keys)] \in Held
                       /\ Pushed(k, keys)[Len(keys) + 1] = keys[Len(keys)]
  BY <1>2, <1>5
<1>8. QED
  BY <1>2, <1>3, <1>4, <1>5, <1>6, <1>7

LEMMA PutCases ==
    ASSUME Calls, items \in [Keys -> {Nil} \cup Item],
           NEW keys, Holds(keys), NEW c \in Callers, Put(c), NEW k, k = arg[c].key
    PROVE  \/ \E p \in DOMAIN keys :
                 /\ keys[p] = k
                 /\ items' = [items EXCEPT ![k] = NewItem(c)]
                 /\ Holds(Pushed(keys[p], Removed(keys, p)))'
           \/ /\ k \notin Held /\ Len(keys) + 1 <= Capacity
              /\ items' = [items EXCEPT ![k] = NewItem(c)]
              /\ Holds(Pushed(k, keys))'
           \/ /\ k \notin Held /\ Len(keys) = Capacity
              /\ keys[Len(keys)] \in Held
              /\ items' = [items EXCEPT ![k] = NewItem(c),
                                        ![keys[Len(keys)]] = Nil]
              /\ Holds(Removed(Pushed(k, keys), Len(keys) + 1))'
<1>1. k \in Keys /\ op[c] = "put"
  BY DEF Calls, Put
<1>2. PICK item : item = NewItem(c)
  OBVIOUS
<1>3. item \in Item /\ item # Nil
  BY <1>1, <1>2, NewItemType
<1>4. PICK pushed : pushed = insertFront(list, k)
  OBVIOUS
<1>5. PICK evicts \in BOOLEAN : evicts <=> Cardinality(Held) + 1 > Capacity
  <2>1. PICK more : more <=> Cardinality(Held) + 1 > Capacity
    OBVIOUS
  <2>2. CASE more
    BY <2>1, <2>2
  <2>3. CASE ~more
    BY <2>1, <2>3
  <2>4. QED
    BY <2>2, <2>3
<1>6. IF items[k] # Nil
      THEN /\ items' = [items EXCEPT ![k] = item]
           /\ list' = moveToFront(list, k)
      ELSE /\ items' = [x \in Keys |->
                          CASE x = k -> item
                            [] evicts /\ x = pushed.tail -> Nil
                            [] OTHER -> items[x]]
           /\ list' = IF evicts THEN unlink(pushed, pushed.tail) ELSE pushed
  BY <1>2, <1>4, <1>5 DEF Put, NewItem
<1>7. PICK l : l = list'
  OBVIOUS
<1>8. CASE items[k] # Nil
  <2>1. PICK p \in DOMAIN keys : keys[p] = k
    BY <1>1, <1>8, HeldAt DEF Held
  <2>2. Held' = Held
    BY <1>1, <1>3, <1>6, <1>8 DEF Held
  <2>3. Shape(l, Pushed(keys[p], Removed(keys, p)), Held)
        /\ Len(Pushed(keys[p], Removed(keys, p))) <= Capacity
    BY <1>6, <1>7, <1>8, <2>1, HoldsMoved
  <2>4. Holds(Pushed(keys[p], Removed(keys, p)))'
    BY <1>7, <2>2, <2>3 DEF Holds
  <2>5. QED
    BY <1>2, <1>6, <1>8, <2>1, <2>4
<1>9. CASE items[k] = Nil
  <2>1. k \in Keys \ Held
    BY <1>1, <1>9 DEF Held
  <2>2. PICK next : next = Pushed(k, keys)
    OBVIOUS
  <2>3. PICK n : n = Len(keys)
    OBVIOUS
  <2>4. /\ Cardinality(Held) = n /\ n \in Nat
        /\ Shape(pushed, next, Held \cup {k})
        /\ Len(next) = n + 1 /\ DOMAIN next = 1..n + 1
        /\ pushed.tail = next[n + 1]
        /\ n > 0 => keys[n] \in Held /\ next[n + 1] = keys[n]
    <3>1. /\ Cardinality(Held) = n /\ n \in Nat
          /\ Shape(pushed, next, Held \cup {k})
          /\ Len(next) = n + 1 /\ DOMAIN next = 1..n + 1
          /\ pushed.tail = next[n + 1]
      BY <1>4, <2>1, <2>2, <2>3, Insertion
    <3>2. n > 0 => keys[n] \in Held /\ next[n + 1] = keys[n]
      BY <2>1, <2>2, <2>3, Insertion
    <3>3. QED
      BY <3>1, <3>2
  <2>5. Capacity \in Nat /\ Capacity > 0 /\ n <= Capacity
    BY <2>3, CacheAssumption DEF Holds
  <2>6. CASE ~evicts
    <3>1. n + 1 <= Capacity
      BY <1>5, <2>4, <2>5, <2>6
    <3>2. items' = [items EXCEPT ![k] = item] /\ l = pushed
      BY <1>6, <1>7, <1>9, <2>6
    <3>3. Held' = Held \cup {k}
      BY <1>1, <1>3, <3>2 DEF Held
    <3>4. Holds(next)'
      BY <1>7, <2>4, <3>1, <3>2, <3>3 DEF Holds
    <3>5. QED
      BY <1>2, <2>1, <2>2, <2>3, <3>1, <3>2, <3>4
  <2>7. CASE evicts
    <3>1. n = Capacity /\ n > 0
      BY <1>5, <2>4, <2>5, <2>7
    <3>2. keys[n] \in Held /\ pushed.tail = keys[n] /\ next[n + 1] = keys[n]
          /\ keys[n] # k /\ keys[n] \in Keys
      BY <2>1, <2>4, <3>1 DEF Held
    <3>3. items' = [items EXCEPT ![k] = item, ![keys[n]] = Nil]
          /\ l = unlink(pushed, next[n + 1])
      BY <1>6, <1>7, <1>9, <2>7, <3>2
    <3>4. Held' = (Held \cup {k}) \ {keys[n]}
      BY <1>1, <1>3, <3>2, <3>3 DEF Held
    <3>5. PICK S \in SUBSET Keys : S = Held \cup {k}
      <4>1. Held \cup {k} \in SUBSET Keys
        BY <2>1 DEF Held
      <4>2. QED
        BY <4>1
    <3>6. n + 1 \in DOMAIN next
      BY <2>4
    <3>7. Shape(l, Removed(next, n + 1), S \ {next[n + 1]})
      BY <2>4, <3>3, <3>5, <3>6, UnlinkShape
    <3>8. Len(Removed(next, n + 1)) = n
      BY <2>4 DEF Removed
    <3>9. Holds(Removed(next, n + 1))'
      BY <1>7, <2>5, <3>2, <3>4, <3>5, <3>7, <3>8 DEF Holds
    <3>10. QED
      BY <1>2, <2>1, <2>2, <2>3, <3>1, <3>2, <3>3, <3>9
  <2>8. QED
    BY <2>6, <2>7
<1>10. QED
  BY <1>8, <1>9

LEMMA PurgeCases ==
    ASSUME items \in [Keys -> {Nil} \cup Item],
           NEW keys, Holds(keys), NEW c \in Callers, PurgeExpired(c)
    PROVE  \E rest, f :
              /\ Holds(rest)' /\ Kept(rest, f, keys)
              /\ Held' = {k \in Held : ~expired(items[k], arg[c].now)}
              /\ items' = [k \in Keys |-> IF k \in Held' THEN items[k] ELSE Nil]
<1> DEFINE gone == {k \in Held : expired(items[k], arg[c].now)}
<1>1. PICK order \in SetToSeqs(gone) : list' = unlinkAll(list, order)
  BY DEF PurgeExpired
<1>2. items' = [k \in Keys |-> IF k \in gone THEN Nil ELSE items[k]]
  BY DEF PurgeExpired
<1>3. PICK G : G = gone
  OBVIOUS
<1> HIDE DEF gone
<1>4. Held \in SUBSET Keys /\ Shape(list, keys, Held) /\ Len(keys) <= Capacity
  BY DEF Held, Holds
<1>5. IsFiniteSet(Held) /\ Cardinality(Held) = Len(keys)
  BY <1>4, ArrangedSet DEF Shape
<1>6. G \in SUBSET Held /\ IsFiniteSet(G)
  BY <1>3, <1>5, FS_Subset DEF gone
<1>7. Arranges(order, G)
  BY <1>1, <1>3, <1>6, OrderArranges
<1>8. PICK rest, f : /\ Shape(unlinkAll(list, order), rest, Held \ G)
                     /\ Kept(rest, f, keys)
  BY <1>4, <1>6, <1>7, UnlinkAllShape
<1>9. Held' = Held \ G
  BY <1>2, <1>3, <1>6 DEF Held
<1>10. Len(rest) <= Capacity
  <2>1. PICK R : R = Held \ G /\ R \in SUBSET Held
    OBVIOUS
  <2>2. Cardinality(R) = Len(rest)
    BY <1>8, <2>1, ArrangedSet DEF Shape
  <2>3. Cardinality(R) <= Cardinality(Held)
    BY <1>5, <2>1, FS_Subset
  <2>4. Len(rest) \in Nat /\ Len(keys) \in Nat
    BY <1>4, <1>8, <2>1, ShapeKeys
  <2>5. QED
    BY <1>4, <1>5, <2>2, <2>3, <2>4, CacheAssumption
<1>11. PICK l : l = list'
  OBVIOUS
<1>12. Holds(rest)'
  BY <1>1, <1>8, <1>9, <1>10, <1>11 DEF Holds
<1>13. Held' = {k \in Held : ~expired(items[k], arg[c].now)}
  BY <1>3, <1>9 DEF gone
<1>14. items' = [k \in Keys |-> IF k \in Held' THEN items[k] ELSE Nil]
  BY <1>2, <1>3, <1>9 DEF Held
<1>15. QED
  BY <1>8, <1>12, <1>13, <1>14

\* The invariant of the cache, step by step.
LEMMA GetInv ==
    ASSUME CacheInv, NEW c \in Callers, Get(c)
    PROVE  CacheInv'
<1>1. Calls /\ items \in [Keys -> {Nil} \cup Item]
  BY DEF CacheInv
<1>2. PICK keys : Holds(keys)
  BY DEF CacheInv
<1>3. PICK k \in Keys : k = arg[c].key
  BY <1>1 DEF Calls, Get
<1>4. \E after : Holds(after)'
  <2>1. CASE UNCHANGED <<items, list>>
    BY <1>2, <2>1 DEF Holds, Held
  <2>2. CASE ~UNCHANGED <<items, list>>
    BY <1>1, <1>2, <2>2, GetCases
  <2>3. QED
    BY <2>1, <2>2
<1>5. items' \in [Keys -> {Nil} \cup Item]
  BY <1>1 DEF Get
<1>6. answer' \in [Callers -> Values \cup {Nothing}]
  <2>1. Found(items[k], arg[c].now) \in Values \cup {Nothing}
    BY <1>1 DEF Found, Item
  <2>2. answer' = [answer EXCEPT ![c] = Found(items[k], arg[c].now)]
    BY <1>3 DEF Get
  <2>3. QED
    BY <1>1, <2>1, <2>2 DEF Calls
<1>7. Calls'
  BY <1>1, <1>6, ReturnCalls DEF Get
<1>8. QED
  BY <1>4, <1>5, <1>7 DEF CacheInv

LEMMA PutInv ==
    ASSUME CacheInv, NEW c \in Callers, Put(c)
    PROVE  CacheInv'
<1>1. Calls /\ items \in [Keys -> {Nil} \cup Item]
  BY DEF CacheInv
<1>2. PICK keys : Holds(keys)
  BY DEF CacheInv
<1>3. PICK k : k = arg[c].key
  OBVIOUS
<1>4. PICK item \in Item : item = NewItem(c)
  BY <1>1, NewItemType DEF Put
<1>5. \E after : Holds(after)'
  BY <1>1, <1>2, <1>3, PutCases
<1>6. items' \in [Keys -> {Nil} \cup Item]
  BY <1>1, <1>2, <1>3, <1>4, PutCases
<1>7. Calls'
  BY <1>1, ReturnCalls DEF Put, Calls
<1>8. QED
  BY <1>5, <1>6, <1>7 DEF CacheInv

LEMMA DeleteInv ==
    ASSUME CacheInv, NEW c \in Callers, Delete(c)
    PROVE  CacheInv'
<1>1. Calls /\ items \in [Keys -> {Nil} \cup Item]
  BY DEF CacheInv
<1>2. PICK keys : Holds(keys)
  BY DEF CacheInv
<1>3. \E after : Holds(after)'
  <2>1. CASE UNCHANGED <<items, list>>
    BY <1>2, <2>1 DEF Holds, Held
  <2>2. CASE ~UNCHANGED <<items, list>>
    BY <1>1, <1>2, <2>2, DeleteCases
  <2>3. QED
    BY <2>1, <2>2
<1>4. items' \in [Keys -> {Nil} \cup Item]
  BY <1>1 DEF Delete
<1>5. Calls'
  BY <1>1, ReturnCalls DEF Delete, Calls
<1>6. QED
  BY <1>3, <1>4, <1>5 DEF CacheInv

LEMMA PurgeInv ==
    ASSUME CacheInv, NEW c \in Callers, PurgeExpired(c)
    PROVE  CacheInv'
<1>1. Calls /\ items \in [Keys -> {Nil} \cup Item]
  BY DEF CacheInv
<1>2. PICK keys : Holds(keys)
  BY DEF CacheInv
<1>3. \E after : Holds(after)'
  BY <1>1, <1>2, PurgeCases
<1>4. items' \in [Keys -> {Nil} \cup Item]
  BY <1>1, <1>2, PurgeCases
<1>5. Calls'
  BY <1>1, ReturnCalls DEF PurgeExpired, Calls
<1>6. QED
  BY <1>3, <1>4, <1>5 DEF CacheInv

\* Calls' and an untouched cache.
LEMMA UntouchedInv ==
    ASSUME CacheInv, Calls', UNCHANGED <<items, list>>
    PROVE  CacheInv'
<1>1. PICK keys : Holds(keys)
  BY DEF CacheInv
<1>2. Holds(keys)'
  BY <1>1 DEF Holds, Held
<1>3. QED
  BY <1>2 DEF CacheInv

LEMMA CallInv ==
    ASSUME CacheInv, NEW c \in Callers, Call(c)
    PROVE  CacheInv'
<1>1. Calls
  BY DEF CacheInv
<1>2. CASE \E k \in Keys : Begin(c, "get", k, Nothing, 0)
                           \/ Begin(c, "delete", k, Nothing, 0)
  <2>1. PICK k \in Keys : Begin(c, "get", k, Nothing, 0)
                          \/ Begin(c, "delete", k, Nothing, 0)
    BY <1>2
  <2>2. Calls'
    BY <1>1, <2>1, BeginCalls
  <2>3. QED
    BY <2>1, <2>2, UntouchedInv DEF Begin
<1>3. CASE \E k \in Keys, v \in Values, ttl \in TTLs : Begin(c, "put", k, v, ttl)
  <2>1. PICK k \in Keys, v \in Values, ttl \in TTLs : Begin(c, "put", k, v, ttl)
    BY <1>3
  <2>2. Calls'
    BY <1>1, <2>1, BeginCalls
  <2>3. QED
    BY <2>1, <2>2, UntouchedInv DEF Begin
<1>4. CASE Begin(c, "purge", Nothing, Nothing, 0)
  <2>1. Calls'
    BY <1>1, <1>4, BeginCalls
  <2>2. QED
    BY <1>4, <2>1, UntouchedInv DEF Begin
<1>5. QED
  BY <1>2, <1>3, <1>4 DEF Call

LEMMA TickInv == ASSUME CacheInv, Tick PROVE CacheInv'
<1>1. Calls'
  BY TickCalls DEF CacheInv
<1>2. QED
  BY <1>1, UntouchedInv DEF Tick

LEMMA CacheStep == CacheInv /\ [Next]_vars => CacheInv'
<1> SUFFICES ASSUME CacheInv, [Next]_vars PROVE CacheInv'
  OBVIOUS
<1>1. CASE Tick
  BY <1>1, TickInv
<1>2. ASSUME NEW c \in Callers,
             Call(c) \/ Get(c) \/ Put(c) \/ Delete(c) \/ PurgeExpired(c)
      PROVE  CacheInv'
  BY <1>2, CallInv, GetInv, PutInv, DeleteInv, PurgeInv
<1>3. CASE UNCHANGED vars
  <2>1. Calls'
    BY <1>3 DEF CacheInv, Calls, vars
  <2>2. QED
    BY <1>3, <2>1, UntouchedInv DEF vars
<1>4. QED
  BY <1>1, <1>2, <1>3 DEF Next

\* There is always a sequence of at most Capacity keys, the held ones once
\* each, that the links of cache.Memory follow from head to tail and back.
THEOREM Invariant == Spec => []CacheInv
<1>1. Init => CacheInv
  BY InitCache
<1>2. CacheInv /\ [Next]_vars => CacheInv'
  BY CacheStep
<1>3. QED
  BY <1>1, <1>2, PTL DEF Spec

\* Every variable of cache.Memory keeps its type.
THEOREM TypeCorrect == Spec => []TypeOK
<1>1. CacheInv => TypeOK
  BY DEF CacheInv, Calls, Item, Holds, Shape, Lists, TypeOK
<1>2. QED
  BY <1>1, Invariant, PTL

\* The list and the map of cache.Memory hold the same entries after every
\* sequence of calls by any number of goroutines: the links visit every held
\* key once, from head to tail and back, and no other key is linked.
THEOREM ListAndMapAgree == Spec => []ListMatchesMap
<1>1. CacheInv => ListMatchesMap
  <2> SUFFICES ASSUME CacheInv PROVE ListMatchesMap
    OBVIOUS
  <2>1. PICK keys : Shape(list, keys, Held)
    BY DEF CacheInv, Holds
  <2>2. Linked(list, keys)
    BY <2>1, ShapeLinked DEF Held
  <2>3. keys \in SetToSeqs(Held)
    BY <2>1, ArrangedSet DEF Shape
  <2>4. \A k \in Keys \ Held : list.previous[k] = Nil /\ list.next[k] = Nil
    BY <2>1 DEF Shape
  <2>5. QED
    BY <2>2, <2>3, <2>4 DEF ListMatchesMap
<1>2. QED
  BY <1>1, Invariant, PTL

-----------------------------------------------------------------------------
(***************************************************************************)
(* The catalog route.                                                      *)
(***************************************************************************)

Stages == {"new", "get", "looking", "load", "put", "filling", "done"}

\* The route is configured with a TTL that its cache takes, and fails a
\* request only when its context is done.
Requests ==
    /\ generatedTTL \in TTLs
    /\ stage \in [Callers -> Stages]
    /\ reply \in [Callers -> {"none", "ok", "failed", "refused"}]
    /\ \A r \in Callers : stage[r] = "done" /\ r \notin cancelled
                             => reply[r] \in {"ok", "refused"}

RouteInv == CacheInv /\ Requests

LEMMA RouteInvInit == RouteInit => RouteInv
<1> SUFFICES ASSUME RouteInit PROVE RouteInv
  OBVIOUS
<1>1. CacheInv
  BY InitCache DEF RouteInit
<1>2. QED
  BY <1>1 DEF RouteInit, RouteInv, Requests, Stages

\* The cache through a step of the route.
LEMMA RouteKeepsCache ==
    ASSUME RouteInv, [RouteNext]_routeVars
    PROVE  CacheInv'
<1>1. CacheInv /\ Calls /\ generatedTTL \in TTLs
  BY DEF RouteInv, Requests, CacheInv
<1>2. CASE UNCHANGED vars
  <2>1. Calls'
    BY <1>1, <1>2 DEF Calls, vars
  <2>2. QED
    BY <1>1, <1>2, <2>1, UntouchedInv DEF vars
<1>3. CASE Tick
  BY <1>1, <1>3, TickInv
<1>4. ASSUME NEW r \in Callers, LookUp(r) PROVE CacheInv'
  <2>1. Call(r)
    BY <1>4 DEF LookUp, Call
  <2>2. QED
    BY <1>1, <2>1, CallInv
<1>5. ASSUME NEW r \in Callers, Fill(r) PROVE CacheInv'
  <2>1. Call(r)
    BY <1>1, <1>5 DEF Fill, Call
  <2>2. QED
    BY <1>1, <2>1, CallInv
<1>6. ASSUME NEW r \in Callers, LookedUp(r) PROVE CacheInv'
  BY <1>1, <1>6, GetInv DEF LookedUp
<1>7. ASSUME NEW r \in Callers, Filled(r) PROVE CacheInv'
  BY <1>1, <1>7, PutInv DEF Filled
<1>8. ASSUME NEW r \in Callers, Arrive(r) \/ Cancel(r) \/ Fail(r) \/ Catalog(r)
      PROVE  UNCHANGED vars
  BY <1>8 DEF Arrive, Cancel, Fail, Catalog
<1>9. CASE UNCHANGED routeVars
  BY <1>2, <1>9 DEF routeVars
<1>10. QED
  BY <1>2, <1>3, <1>4, <1>5, <1>6, <1>7, <1>8, <1>9 DEF RouteNext, Handle

\* The requests through a step of the route.
LEMMA RouteKeepsRequests ==
    ASSUME Requests, [RouteNext]_routeVars
    PROVE  Requests'
<1>1. CASE UNCHANGED route
  BY <1>1 DEF route, Requests
<1>2. ASSUME NEW r \in Callers, Arrive(r) PROVE Requests'
  BY <1>2 DEF Arrive, Goto, Answer, Requests, Stages, Waiting
<1>3. ASSUME NEW r \in Callers, Cancel(r) PROVE Requests'
  BY <1>3 DEF Cancel, Requests
<1>4. ASSUME NEW r \in Callers, Fail(r) PROVE Requests'
  BY <1>4 DEF Fail, Goto, Answer, Requests, Stages
<1>5. ASSUME NEW r \in Callers, LookUp(r) \/ Catalog(r) \/ Fill(r)
      PROVE  Requests'
  BY <1>5 DEF LookUp, Catalog, Fill, Goto, Requests, Stages
<1>6. ASSUME NEW r \in Callers, LookedUp(r) PROVE Requests'
  BY <1>6 DEF LookedUp, Goto, Answer, Requests, Stages
<1>7. ASSUME NEW r \in Callers, Filled(r) PROVE Requests'
  BY <1>7 DEF Filled, Goto, Answer, Requests, Stages
<1>8. CASE UNCHANGED routeVars
  BY <1>1, <1>8 DEF routeVars
<1>9. QED
  BY <1>1, <1>2, <1>3, <1>4, <1>5, <1>6, <1>7, <1>8 DEF RouteNext, Handle

LEMMA RouteInvariant == RouteSpec => []RouteInv
<1>1. RouteInit => RouteInv
  BY RouteInvInit
<1>2. RouteInv /\ [RouteNext]_routeVars => RouteInv'
  BY RouteKeepsCache, RouteKeepsRequests DEF RouteInv
<1>3. QED
  BY <1>1, <1>2, PTL DEF RouteSpec

\* GET /catalog calls Controller.Catalog only when the cache holds no live
\* response for it, for any number of concurrent requests, any capacity and
\* any TTL.
THEOREM CatalogLoadedOnlyWhenNeeded == RouteSpec => LoadOnlyWithoutLiveEntry
<1> DEFINE Needed == \A r \in Callers : stage[r] # "load" /\ stage'[r] = "load"
                                          => ~Live(items[arg[r].key])
<1>1. ASSUME RouteInv, [RouteNext]_routeVars PROVE Needed
  <2> SUFFICES ASSUME NEW r \in Callers, stage[r] # "load", stage'[r] = "load"
               PROVE  ~Live(items[arg[r].key])
    OBVIOUS
  <2>1. stage \in [Callers -> Stages] /\ CacheInv
    BY <1>1 DEF RouteInv, Requests
  <2>2. LookedUp(r) /\ answer'[r] = Nothing
    <3>1. ASSUME NEW s \in Callers, Arrive(s) \/ Cancel(s) \/ Fail(s) \/ LookUp(s)
                                      \/ Catalog(s) \/ Fill(s) \/ Filled(s)
          PROVE  FALSE
      BY <2>1, <3>1 DEF Arrive, Cancel, Fail, LookUp, Catalog, Fill, Filled,
                        Goto, Answer
    <3>2. ASSUME NEW s \in Callers, LookedUp(s)
          PROVE  s = r /\ answer'[r] = Nothing
      BY <2>1, <3>2 DEF LookedUp, Goto, Answer
    <3>3. CASE UNCHANGED route
      BY <3>3 DEF route
    <3>4. QED
      BY <1>1, <3>1, <3>2, <3>3 DEF RouteNext, Handle, routeVars, route
  <2>3. PICK k : k = arg[r].key
    OBVIOUS
  <2>4. PICK now : now = arg[r].now
    OBVIOUS
  <2>5. /\ k \in Keys /\ now \in Nat /\ now <= clock /\ clock \in Nat
    <3>1. 0..MaxTime \subseteq Nat
      BY CacheAssumption
    <3>2. QED
      BY <2>1, <2>2, <2>3, <2>4, <3>1 DEF CacheInv, Calls, LookedUp, Get
  <2>6. answer'[r] = Found(items[k], now)
    BY <2>1, <2>2, <2>3, <2>4 DEF CacheInv, Calls, LookedUp, Get
  <2>7. items[k] = Nil \/ (items[k] \in Item /\ expired(items[k], now))
    BY <2>1, <2>2, <2>5, <2>6, CacheAssumption DEF CacheInv, Found, Item
  <2>8. QED
    BY <2>3, <2>5, <2>7 DEF Live, expired, Item
<1>2. QED
  BY <1>1, RouteInvariant, PTL DEF RouteSpec, LoadOnlyWithoutLiveEntry

\* The safety half of CatalogAnswered: a request whose context did not end is
\* never answered with a failure, whatever the other requests do meanwhile.
THEOREM OnlyCancelledRequestsFail ==
    RouteSpec => [](\A r \in Callers :
                       stage[r] = "done" /\ r \notin cancelled
                          => reply[r] \in {"ok", "refused"})
BY RouteInvariant, PTL DEF RouteInv, Requests

-----------------------------------------------------------------------------
(***************************************************************************)
(* The refinement: selected positions of a sequence.                       *)
(***************************************************************************)

\* f counts P upwards.
Counts(f, m, P) ==
    /\ f \in [1..m -> P]
    /\ \A i, j \in 1..m : i < j => f[i] < f[j]
    /\ \A x \in P : \E i \in 1..m : f[i] = x

LEMMA Rank ==
    ASSUME NEW m \in Nat, NEW P \in SUBSET Nat, NEW f, Counts(f, m, P),
           NEW j \in 1..m
    PROVE  Cardinality({h \in P : h <= f[j]}) = j
<1> DEFINE Below == {h \in P : h <= f[j]}
           g == [i \in 1..j |-> f[i]]
<1>1. \A i \in 1..m : f[i] \in P /\ f[i] \in Nat
  BY DEF Counts
<1>2. \A i, h \in 1..m : f[i] <= f[h] <=> i <= h
  <2>1. ASSUME NEW i \in 1..m, NEW h \in 1..m
        PROVE  f[i] <= f[h] <=> i <= h
    <3>1. CASE i < h
      BY <1>1, <3>1 DEF Counts
    <3>2. CASE i = h
      BY <1>1, <3>2
    <3>3. CASE i > h
      <4>1. f[h] < f[i]
        BY <3>3 DEF Counts
      <4>2. QED
        BY <1>1, <3>3, <4>1
    <3>4. QED
      BY <3>1, <3>2, <3>3
  <2>2. QED
    BY <2>1
<1>3. \A i \in 1..j : i \in 1..m /\ i <= j
  OBVIOUS
<1>4. g \in [1..j -> Below]
  BY <1>1, <1>2, <1>3
<1>5. \A i, h \in 1..j : g[i] = g[h] => i = h
  <2>1. ASSUME NEW i \in 1..j, NEW h \in 1..j, g[i] = g[h] PROVE i = h
    <3>1. f[i] = f[h] /\ i \in 1..m /\ h \in 1..m
      BY <1>3, <2>1
    <3>2. f[i] <= f[h] /\ f[h] <= f[i]
      BY <1>1, <3>1
    <3>3. i <= h /\ h <= i
      BY <1>2, <3>1, <3>2
    <3>4. QED
      BY <3>3
  <2>2. QED
    BY <2>1
<1>6. \A x \in Below : \E i \in 1..j : g[i] = x
  <2>1. ASSUME NEW x \in Below PROVE \E i \in 1..j : g[i] = x
    <3>1. PICK i \in 1..m : f[i] = x
      BY DEF Counts
    <3>2. i \in 1..j
      BY <1>2, <3>1
    <3>3. QED
      BY <3>1, <3>2
  <2>2. QED
    BY <2>1
<1> HIDE DEF g, Below
<1>7. g \in Bijection(1..j, Below)
  BY <1>4, <1>5, <1>6 DEF Bijection, Injection, Surjection, IsInjective
<1>8. ExistsBijection(1..j, Below)
  BY <1>7 DEF ExistsBijection
<1>9. IsFiniteSet(1..j) /\ Cardinality(1..j) = j
  BY FS_Interval
<1>10. Cardinality(Below) = j
  BY <1>8, <1>9, FS_Bijection
<1>11. QED
  BY <1>10 DEF Below

\* LRUCache counts as the other modules do.
LEMMA SameCount == \A S : LRU!Cardinality(S) = Cardinality(S)
BY DEF LRU!Cardinality, Cardinality

Selected(s, f, m) == [j \in 1..m |-> s[f[j]]]

LEMMA Picked ==
    ASSUME NEW m \in Nat, NEW P \in SUBSET Nat, NEW f, NEW s, Counts(f, m, P)
    PROVE  LRU!At(s, P) = Selected(s, f, m)
<1>1. \A i \in 1..m : f[i] \in P /\ f[i] \in Nat
  BY DEF Counts
<1>2. Cardinality(P) = m
  <2>1. CASE m = 0
    <3>1. P = {}
      BY <2>1 DEF Counts
    <3>2. QED
      BY <2>1, <3>1, FS_EmptySet
  <2>2. CASE m # 0
    <3>1. m \in 1..m
      BY <2>2
    <3>2. {h \in P : h <= f[m]} = P
      <4>1. ASSUME NEW h \in P PROVE h <= f[m]
        <5>1. PICK i \in 1..m : f[i] = h
          BY DEF Counts
        <5>2. CASE i = m
          BY <1>1, <5>1, <5>2
        <5>3. CASE i # m
          <6>1. i < m
            BY <5>3
          <6>2. f[i] < f[m]
            BY <3>1, <6>1 DEF Counts
          <6>3. QED
            BY <1>1, <3>1, <5>1, <6>2
        <5>4. QED
          BY <5>2, <5>3
      <4>2. QED
        BY <4>1
    <3>3. QED
      BY <3>1, <3>2, Rank
  <2>3. QED
    BY <2>1, <2>2
<1>3. ASSUME NEW j \in 1..m
      PROVE  (CHOOSE i \in P : LRU!Cardinality({h \in P : h <= i}) = j) = f[j]
  <2>1. f[j] \in P /\ LRU!Cardinality({h \in P : h <= f[j]}) = j
    BY <1>1, Rank, SameCount
  <2>2. ASSUME NEW i \in P, LRU!Cardinality({h \in P : h <= i}) = j
        PROVE  i = f[j]
    <3>1. PICK g \in 1..m : f[g] = i
      BY DEF Counts
    <3>2. LRU!Cardinality({h \in P : h <= f[g]}) = g
      BY Rank, SameCount
    <3>3. QED
      BY <2>2, <3>1, <3>2
  <2>3. QED
    BY <2>1, <2>2
<1>4. LRU!Cardinality(P) = m
  BY <1>2, SameCount
<1>5. LRU!At(s, P) =
         [j \in 1..m |->
            s[CHOOSE i \in P : LRU!Cardinality({h \in P : h <= i}) = j]]
  BY <1>4, Zenon DEF LRU!At
<1>6. LRU!At(s, P) = [j \in 1..m |-> s[f[j]]]
  BY <1>3, <1>5, Zenon
<1>7. QED
  BY <1>6 DEF Selected

\* The entries that a map holds for keys.
Ent(it, keys) ==
    [i \in DOMAIN keys |->
       [key |-> keys[i], value |-> it[keys[i]].value,
        expiresAt |-> it[keys[i]].expiresAt]]

\* The held keys in the order of the list are the keys of Holds, before a
\* step and after it.
LEMMA EntriesBefore ==
    ASSUME NEW keys, Holds(keys)
    PROVE  Entries = Ent(items, keys)
<1>1. Order = keys
  <2>1. Held \in SUBSET Keys /\ Shape(list, keys, Held)
    BY DEF Held, Holds
  <2>2. PICK S, l : S = Held /\ l = list
    OBVIOUS
  <2>3. /\ keys \in [1..Cardinality(S) -> S] /\ Linked(l, keys)
        /\ \A order \in [1..Cardinality(S) -> S] :
              Linked(l, order) => order = keys
    BY <2>1, <2>2, OneOrder
  <2>4. QED
    BY <2>2, <2>3, Zenon DEF Order
<1>2. QED
  BY <1>1 DEF Entries, Ent

LEMMA EntriesAfter ==
    ASSUME NEW keys, Holds(keys)'
    PROVE  Entries' = Ent(items', keys)
<1>1. Order' = keys
  <2>1. Held' \in SUBSET Keys /\ Shape(list', keys, Held')
    BY DEF Held, Holds
  <2>2. PICK S, l : S = Held' /\ l = list'
    OBVIOUS
  <2>3. /\ keys \in [1..Cardinality(S) -> S] /\ Linked(l, keys)
        /\ \A order \in [1..Cardinality(S) -> S] :
              Linked(l, order) => order = keys
    BY <2>1, <2>2, OneOrder
  <2>4. QED
    BY <2>2, <2>3, Zenon DEF Order
<1>2. QED
  BY <1>1 DEF Entries, Ent

\* An entry before the others.
LEMMA EntPushed ==
    ASSUME NEW T, NEW keys \in Seq(T), NEW x, NEW old, NEW new,
           \A i \in DOMAIN keys : old[keys[i]] = new[keys[i]],
           NEW e, e = [key |-> x, value |-> new[x].value,
                       expiresAt |-> new[x].expiresAt]
    PROVE  <<e>> \o Ent(old, keys) = Ent(new, Pushed(x, keys))
<1> DEFINE n == Len(keys)
           a == Ent(old, keys)
           b == Ent(new, Pushed(x, keys))
<1>1. n \in Nat /\ DOMAIN keys = 1..n
  OBVIOUS
<1>2. /\ DOMAIN a = 1..n
      /\ \A i \in 1..n : a[i] = [key |-> keys[i], value |-> old[keys[i]].value,
                                 expiresAt |-> old[keys[i]].expiresAt]
  BY <1>1 DEF Ent
<1>3. PICK p : p = Pushed(x, keys)
  OBVIOUS
<1>4. /\ DOMAIN p = 1..n + 1
      /\ \A i \in 1..n + 1 : p[i] = IF i = 1 THEN x ELSE keys[i - 1]
  BY <1>3 DEF Pushed
<1>5. /\ DOMAIN b = 1..n + 1
      /\ \A i \in 1..n + 1 : b[i] = [key |-> p[i], value |-> new[p[i]].value,
                                     expiresAt |-> new[p[i]].expiresAt]
  BY <1>3, <1>4 DEF Ent
<1>6. b = [i \in 1..n + 1 |-> b[i]]
  BY <1>3, <1>4 DEF Ent
<1>7. a \in Seq({a[i] : i \in 1..n}) /\ Len(a) = n
  <2>1. a = [i \in 1..n |-> a[i]]
    BY <1>1 DEF Ent
  <2> HIDE DEF a
  <2>2. QED
    BY <1>1, <2>1
<1> HIDE DEF a, b, n
<1>8. PICK S : a \in Seq(S) /\ e \in S
  <2>1. PICK R : R = {a[i] : i \in 1..n}
    OBVIOUS
  <2>2. a \in Seq(R \cup {e})
    BY <1>7, <2>1
  <2>3. QED
    BY <2>2
<1>9. PICK c : c = <<e>> \o a
  OBVIOUS
<1>10. /\ c \in Seq(S) /\ Len(c) = n + 1
       /\ \A i \in 1..Len(c) : c[i] = IF i <= 1 THEN e ELSE a[i - 1]
  BY <1>1, <1>7, <1>8, <1>9
<1>11. \A i \in 1..n + 1 : c[i] = b[i]
  <2>1. c[1] = b[1]
    BY <1>1, <1>4, <1>5, <1>10
  <2>2. ASSUME NEW i \in 1..n + 1, i # 1 PROVE c[i] = b[i]
    <3>1. i - 1 \in 1..n /\ c[i] = a[i - 1] /\ p[i] = keys[i - 1]
      <4>1. i \in 1..Len(c) /\ ~(i <= 1) /\ i - 1 \in 1..n
        BY <1>1, <1>10, <2>2
      <4>2. QED
        BY <1>4, <1>10, <2>2, <4>1
    <3>2. old[keys[i - 1]] = new[keys[i - 1]]
      BY <1>1, <3>1
    <3>3. QED
      BY <1>2, <1>5, <3>1, <3>2
  <2>3. QED
    BY <2>1, <2>2
<1>12. c = [i \in 1..n + 1 |-> c[i]]
  BY <1>1, <1>10
<1>13. QED
  BY <1>6, <1>9, <1>11, <1>12 DEF a, b

\* What is left of the entries when only the keys of rest remain.
LEMMA EntKept ==
    ASSUME NEW T, NEW keys \in Seq(T), NEW R, NEW rest \in Seq(R),
           NEW f, Kept(rest, f, keys), NEW it, NEW P \in SUBSET Nat,
           Counts(f, Len(rest), P)
    PROVE  LRU!At(Ent(it, keys), P) = Ent(it, rest)
<1>1. PICK m \in Nat : m = Len(rest) /\ DOMAIN rest = 1..m
  OBVIOUS
<1>2. PICK s : s = Ent(it, keys)
  OBVIOUS
<1>3. Counts(f, m, P)
  BY <1>1
<1>4. LRU!At(s, P) = Selected(s, f, m)
  BY <1>3, Picked
<1>5. ASSUME NEW j \in 1..m
      PROVE  s[f[j]] = [key |-> rest[j], value |-> it[rest[j]].value,
                        expiresAt |-> it[rest[j]].expiresAt]
  <2>1. f[j] \in DOMAIN keys /\ keys[f[j]] = rest[j]
    BY <1>1 DEF Kept
  <2>2. QED
    BY <1>2, <2>1 DEF Ent
<1>6. Selected(s, f, m) = Ent(it, rest)
  BY <1>1, <1>5 DEF Ent, Selected
<1>7. QED
  BY <1>2, <1>4, <1>6

LEMMA EntSame ==
    ASSUME NEW keys, NEW old, NEW new,
           \A i \in DOMAIN keys : old[keys[i]] = new[keys[i]]
    PROVE  Ent(old, keys) = Ent(new, keys)
BY DEF Ent

\* The keys of Holds.
LEMMA HoldsKeys ==
    ASSUME NEW keys, Holds(keys)
    PROVE  /\ keys \in Seq(Held) /\ Len(keys) \in Nat
           /\ DOMAIN keys = 1..Len(keys) /\ Len(keys) <= Capacity
           /\ \A i \in 1..Len(keys) : keys[i] \in Held
           /\ \A i, j \in 1..Len(keys) : keys[i] = keys[j] => i = j
           /\ \A k \in Held : \E i \in 1..Len(keys) : keys[i] = k
<1>1. Held \in SUBSET Keys /\ Shape(list, keys, Held)
  BY DEF Held, Holds
<1>2. /\ keys \in Seq(Held) /\ Len(keys) \in Nat /\ DOMAIN keys = 1..Len(keys)
      /\ \A i \in 1..Len(keys) : keys[i] \in Held
      /\ \A i, j \in 1..Len(keys) : keys[i] = keys[j] => i = j
  BY <1>1, ShapeKeys
<1>3. \A k \in Held : \E i \in 1..Len(keys) : keys[i] = k
  BY <1>1, <1>2 DEF Shape, Arranges
<1>4. QED
  BY <1>2, <1>3 DEF Holds

\* Without, of a held key and of another.
LEMMA WithoutHeld ==
    ASSUME NEW keys, Holds(keys), NEW p \in DOMAIN keys
    PROVE  LRU!Without(keys[p]) = Ent(items, Removed(keys, p))
<1> DEFINE n == Len(keys)
           f == [j \in 1..n - 1 |-> IF j < p THEN j ELSE j + 1]
           r == Removed(keys, p)
<1>1. /\ keys \in Seq(Held) /\ n \in Nat /\ DOMAIN keys = 1..n /\ p \in 1..n
      /\ \A i, j \in 1..n : keys[i] = keys[j] => i = j
  BY HoldsKeys
<1>2. /\ r \in Seq(Held) /\ Len(r) = n - 1 /\ n - 1 \in Nat /\ DOMAIN r = 1..n - 1
      /\ \A i \in 1..n - 1 : r[i] = IF i < p THEN keys[i] ELSE keys[i + 1]
  <2>1. PICK T : T = Held
    OBVIOUS
  <2>2. keys \in Seq(T) /\ p \in DOMAIN keys
        /\ \A i \in DOMAIN keys : i # p => keys[i] \in T
    BY <1>1, <2>1
  <2>3. r \in Seq(T) /\ Len(r) = n - 1 /\ n - 1 \in Nat /\ DOMAIN r = 1..n - 1
    BY <2>2, RemovedFacts
  <2>4. \A i \in 1..n - 1 : r[i] = IF i < p THEN keys[i] ELSE keys[i + 1]
    BY DEF Removed
  <2>5. QED
    BY <2>1, <2>3, <2>4
<1> HIDE DEF r
<1>3. PICK P \in SUBSET Nat : P = (1..n) \ {p}
  <2>1. (1..n) \ {p} \in SUBSET Nat
    OBVIOUS
  <2>2. QED
    BY <2>1
<1>4. \A j \in 1..n - 1 : f[j] = IF j < p THEN j ELSE j + 1
  OBVIOUS
<1>5. f \in [1..n - 1 -> P]
  BY <1>1, <1>3
<1> HIDE DEF f, n
<1>6. \A i, j \in 1..n - 1 : i < j => f[i] < f[j]
  BY <1>1, <1>4
<1>7. \A x \in P : \E i \in 1..n - 1 : f[i] = x
  <2>1. ASSUME NEW x \in P PROVE \E i \in 1..n - 1 : f[i] = x
    <3>1. CASE x < p
      BY <1>1, <1>3, <1>4, <3>1
    <3>2. CASE x > p
      <4>1. x - 1 \in 1..n - 1 /\ f[x - 1] = x
        BY <1>1, <1>3, <1>4, <3>2
      <4>2. QED
        BY <4>1
    <3>3. QED
      BY <1>1, <1>3, <3>1, <3>2
  <2>2. QED
    BY <2>1
<1>8. Counts(f, Len(r), P)
  BY <1>2, <1>5, <1>6, <1>7 DEF Counts
<1>9. Kept(r, f, keys)
  <2>1. f \in [DOMAIN r -> DOMAIN keys]
    BY <1>1, <1>2, <1>3, <1>5
  <2>2. \A i \in DOMAIN r : r[i] = keys[f[i]]
    BY <1>2, <1>4
  <2>3. QED
    BY <1>2, <1>6, <2>1, <2>2 DEF Kept
<1>10. PICK T, it : T = Held /\ it = items
  OBVIOUS
<1>11. LRU!At(Ent(it, keys), P) = Ent(it, r)
  <2>1. keys \in Seq(T) /\ r \in Seq(T)
    BY <1>1, <1>2, <1>10
  <2>2. QED
    BY <1>8, <1>9, <2>1, EntKept
<1>12. Entries = Ent(it, keys)
  BY <1>10, EntriesBefore
<1>13. PICK s : s = Ent(it, keys)
  OBVIOUS
<1>14. DOMAIN s = 1..n /\ \A i \in 1..n : s[i].key = keys[i]
  BY <1>1, <1>13 DEF Ent
<1>15. {i \in DOMAIN s : s[i].key # keys[p]} = P
  BY <1>1, <1>3, <1>14
<1>16. PICK Q : Q = {i \in DOMAIN Entries : Entries[i].key # keys[p]}
  OBVIOUS
<1>17. LRU!Without(keys[p]) = LRU!At(Entries, Q)
  BY <1>16, Zenon DEF LRU!Without
<1>18. Q = P
  BY <1>12, <1>13, <1>15, <1>16
<1>19. QED
  BY <1>10, <1>11, <1>12, <1>17, <1>18 DEF r

\* Every entry is kept.
LEMMA KeptAll ==
    ASSUME NEW T, NEW keys \in Seq(T), NEW it
    PROVE  LRU!At(Ent(it, keys), DOMAIN keys) = Ent(it, keys)
<1> DEFINE f == [i \in DOMAIN keys |-> i]
<1>1. Len(keys) \in Nat /\ DOMAIN keys = 1..Len(keys)
  OBVIOUS
<1>2. PICK P \in SUBSET Nat : P = DOMAIN keys
  BY <1>1
<1>3. Kept(keys, f, keys)
  BY <1>1 DEF Kept
<1>4. Counts(f, Len(keys), P)
  BY <1>1, <1>2 DEF Counts
<1>5. LRU!At(Ent(it, keys), P) = Ent(it, keys)
  BY <1>3, <1>4, EntKept
<1>6. QED
  BY <1>2, <1>5

LEMMA WithoutOther ==
    ASSUME NEW keys, Holds(keys), NEW k, k \notin Held
    PROVE  LRU!Without(k) = Ent(items, keys)
<1>1. PICK T, it : T = Held /\ it = items
  OBVIOUS
<1>2. keys \in Seq(T) /\ \A i \in DOMAIN keys : keys[i] # k
  BY <1>1, HoldsKeys
<1>3. PICK s : s = Ent(it, keys)
  OBVIOUS
<1>4. Entries = s
  BY <1>1, <1>3, EntriesBefore
<1>5. DOMAIN s = DOMAIN keys /\ \A i \in DOMAIN keys : s[i].key = keys[i]
  BY <1>3 DEF Ent
<1>6. PICK Q : Q = {i \in DOMAIN Entries : Entries[i].key # k}
  OBVIOUS
<1>7. LRU!Without(k) = LRU!At(Entries, Q)
  BY <1>6, Zenon DEF LRU!Without
<1>8. Q = DOMAIN keys
  BY <1>2, <1>4, <1>5, <1>6
<1>9. LRU!At(Ent(it, keys), DOMAIN keys) = Ent(it, keys)
  BY <1>2, KeptAll
<1>10. QED
  BY <1>1, <1>3, <1>4, <1>7, <1>8, <1>9

-----------------------------------------------------------------------------
(***************************************************************************)
(* The refinement: every step of cache.Memory is one of LRUCache.          *)
(***************************************************************************)

\* A call that returns has done what was asked, and judged expiration at an
\* instant of its duration.
LEMMA ReturnRefines ==
    ASSUME Calls, NEW c \in Callers, Return(c)
    PROVE  /\ LRU!Return(c, op[c])
           /\ Asked[c].key = arg[c].key /\ Asked[c].value = arg[c].value
           /\ Asked[c].ttl = arg[c].ttl
           /\ arg[c].now \in Asked[c].since..clock
<1>1. \A d \in Callers :
         /\ d # c => op'[d] = op[d] /\ arg'[d] = arg[d]
         /\ d = c => op'[d] = "idle" /\ arg'[d] = NoArg
  BY DEF Calls, Return
<1>2. PICK a, b : a = Asked /\ b = Asked'
  OBVIOUS
<1>3. a = [d \in Callers |->
             [call |-> op[d], key |-> arg[d].key, value |-> arg[d].value,
              ttl |-> arg[d].ttl, since |-> arg[d].now]]
  BY <1>2 DEF Asked
<1>4. b = [d \in Callers |->
             [call |-> op'[d], key |-> arg'[d].key, value |-> arg'[d].value,
              ttl |-> arg'[d].ttl, since |-> arg'[d].now]]
  BY <1>2 DEF Asked
<1>5. b[c] = LRU!Idle
  BY <1>1, <1>4 DEF NoArg, LRU!Idle
<1>6. \A d \in Callers : d # c => b[d] = a[d]
  BY <1>1, <1>3, <1>4
<1>7. b = [a EXCEPT ![c] = LRU!Idle]
  BY <1>3, <1>4, <1>5, <1>6
<1>8. /\ a[c].call = op[c] /\ a[c].key = arg[c].key
      /\ a[c].value = arg[c].value /\ a[c].ttl = arg[c].ttl
      /\ a[c].since = arg[c].now
  BY <1>3
<1>9. arg[c].now \in arg[c].now..clock
  <2>1. arg[c].now \in 0..MaxTime /\ clock \in 0..MaxTime /\ arg[c].now <= clock
    BY DEF Calls
  <2>2. MaxTime \in Nat
    BY CacheAssumption
  <2>3. QED
    BY <2>1, <2>2
<1>10. clock' = clock
  BY DEF Return
<1>11. QED
  BY <1>2, <1>7, <1>8, <1>9, <1>10 DEF LRU!Return

\* What the entries say of their keys.
LEMMA EntryFacts ==
    ASSUME NEW keys, Holds(keys)
    PROVE  /\ DOMAIN Entries = DOMAIN keys
           /\ \A i \in DOMAIN keys :
                 /\ Entries[i] = [key |-> keys[i], value |-> items[keys[i]].value,
                                  expiresAt |-> items[keys[i]].expiresAt]
                 /\ keys[i] \in Held
           /\ \A i, j \in DOMAIN keys : keys[i] = keys[j] => i = j
<1>1. /\ DOMAIN keys = 1..Len(keys)
      /\ \A i \in DOMAIN keys : keys[i] \in Held
      /\ \A i, j \in DOMAIN keys : keys[i] = keys[j] => i = j
  BY HoldsKeys
<1>2. Entries = Ent(items, keys)
  BY EntriesBefore
<1>3. QED
  BY <1>1, <1>2 DEF Ent

LEMMA RemovedOther ==
    ASSUME NEW keys, Holds(keys), NEW p \in DOMAIN keys
    PROVE  /\ Removed(keys, p) \in Seq(Held)
           /\ Len(Removed(keys, p)) = Len(keys) - 1
           /\ \A i \in DOMAIN Removed(keys, p) :
                 Removed(keys, p)[i] \in Held \ {keys[p]}
<1>1. PICK S : S = Held
  OBVIOUS
<1>2. Arranges(keys, S)
  BY <1>1 DEF Holds, Shape
<1>3. PICK r : r = Removed(keys, p)
  OBVIOUS
<1>4. Arranges(r, S \ {keys[p]})
  BY <1>2, <1>3, RemovedArranges
<1>5. PICK T : T = S \ {keys[p]}
  OBVIOUS
<1>6. r \in Seq(T)
  BY <1>4, <1>5 DEF Arranges
<1>7. \A i \in DOMAIN r : r[i] \in T
  BY <1>6
<1>8. r \in Seq(S)
  BY <1>5, <1>6
<1>9. Len(r) = Len(keys) - 1
  BY <1>2, <1>3 DEF Removed, Arranges
<1>10. QED
  BY <1>1, <1>3, <1>5, <1>7, <1>8, <1>9

LEMMA GetRefines ==
    ASSUME CacheInv, NEW c \in Callers, Get(c)
    PROVE  LRU!Hit(c) \/ LRU!Miss(c)
<1>1. Calls /\ items \in [Keys -> {Nil} \cup Item]
  BY DEF CacheInv
<1>2. PICK keys : Holds(keys)
  BY DEF CacheInv
<1>3. PICK k \in Keys : k = arg[c].key
  BY <1>1 DEF Calls, Get
<1>4. PICK now : now = arg[c].now
  OBVIOUS
<1>5. /\ LRU!Return(c, "get") /\ Asked[c].key = k
      /\ now \in Asked[c].since..clock
  BY <1>1, <1>3, <1>4, ReturnRefines DEF Get
<1>6. CASE /\ k \notin Held
           /\ UNCHANGED <<items, list>>
           /\ answer' = [answer EXCEPT ![c] = Nothing]
  <2>1. Holds(keys)'
    BY <1>2, <1>6 DEF Holds, Held
  <2>2. Entries' = Ent(items', keys) /\ items' = items
    BY <1>6, <2>1, EntriesAfter
  <2>3. Entries' = LRU!Without(k)
    BY <1>2, <1>6, <2>2, WithoutOther
  <2>4. ASSUME NEW i \in DOMAIN Entries PROVE Entries[i].key # k
    <3>1. i \in DOMAIN keys
      BY <1>2, EntryFacts
    <3>2. /\ Entries[i] = [key |-> keys[i], value |-> items[keys[i]].value,
                           expiresAt |-> items[keys[i]].expiresAt]
          /\ keys[i] \in Held
      BY <1>2, <3>1, EntryFacts
    <3>3. QED
      BY <1>6, <3>2
  <2>5. QED
    BY <1>5, <1>6, <2>3, <2>4 DEF LRU!Miss
<1>7. ASSUME NEW p \in DOMAIN keys, keys[p] = k, expired(items[k], now),
             items' = [items EXCEPT ![k] = Nil], Holds(Removed(keys, p))',
             answer' = [answer EXCEPT ![c] = Nothing]
      PROVE  LRU!Miss(c)
  <2>1. ASSUME NEW i \in DOMAIN Entries, Entries[i].key = k
        PROVE  LRU!IsExpired(Entries[i], now)
    <3>1. i \in DOMAIN keys
      BY <1>2, EntryFacts
    <3>2. Entries[i] = [key |-> keys[i], value |-> items[keys[i]].value,
                        expiresAt |-> items[keys[i]].expiresAt]
      BY <1>2, <3>1, EntryFacts
    <3>3. keys[i] = k
      BY <2>1, <3>2
    <3>4. QED
      BY <1>7, <3>2, <3>3 DEF expired, LRU!IsExpired
  <2>2. \A i \in DOMAIN Removed(keys, p) : Removed(keys, p)[i] \in Held \ {k}
    BY <1>2, <1>7, RemovedOther
  <2>3. PICK r : r = Removed(keys, p)
    OBVIOUS
  <2>4. \A i \in DOMAIN r : items[r[i]] = items'[r[i]]
    BY <1>1, <1>7, <2>2, <2>3 DEF Held
  <2>5. Ent(items, r) = Ent(items', r)
    BY <2>4, EntSame
  <2>6. Entries' = Ent(items', r)
    BY <1>7, <2>3, EntriesAfter
  <2>7. Entries' = LRU!Without(k)
    BY <1>2, <1>7, <2>3, <2>5, <2>6, WithoutHeld
  <2>8. QED
    BY <1>5, <1>7, <2>1, <2>7 DEF LRU!Miss
<1>8. ASSUME NEW p \in DOMAIN keys, keys[p] = k, ~expired(items[k], now),
             items' = items, Holds(Pushed(keys[p], Removed(keys, p)))',
             answer' = [answer EXCEPT ![c] = items[k].value]
      PROVE  LRU!Hit(c)
  <2>1. PICK e : e = Entries[p]
    OBVIOUS
  <2>2. e = [key |-> k, value |-> items[k].value, expiresAt |-> items[k].expiresAt]
        /\ p \in DOMAIN Entries
    BY <1>2, <1>8, <2>1, EntryFacts
  <2>3. PICK r : r = Removed(keys, p)
    OBVIOUS
  <2>4. PICK T, it : T = Held /\ it = items
    OBVIOUS
  <2>5. r \in Seq(T)
    BY <1>2, <2>3, <2>4, RemovedOther
  <2>6. <<e>> \o Ent(it, r) = Ent(it, Pushed(k, r))
    BY <2>2, <2>4, <2>5, EntPushed
  <2>7. Entries' = Ent(it, Pushed(k, r))
    BY <1>8, <2>3, <2>4, EntriesAfter
  <2>8. LRU!Without(k) = Ent(it, r)
    BY <1>2, <1>8, <2>3, <2>4, WithoutHeld
  <2>9. Entries' = <<e>> \o LRU!Without(k)
    BY <2>6, <2>7, <2>8
  <2>10. ~LRU!IsExpired(e, now)
    BY <1>8, <2>2 DEF expired, LRU!IsExpired
  <2>11. answer' = [answer EXCEPT ![c] = e.value]
    BY <1>8, <2>2
  <2>12. p \in DOMAIN Entries /\ e.key = k
    BY <2>2
  <2>13. QED
    BY <1>5, <2>1, <2>9, <2>10, <2>11, <2>12, Zenon DEF LRU!Hit
<1>9. QED
  BY <1>1, <1>2, <1>3, <1>4, <1>6, <1>7, <1>8, GetCases

LEMMA DeleteRefines ==
    ASSUME CacheInv, NEW c \in Callers, Delete(c)
    PROVE  LRU!Invalidate(c)
<1>1. Calls /\ items \in [Keys -> {Nil} \cup Item]
  BY DEF CacheInv
<1>2. PICK keys : Holds(keys)
  BY DEF CacheInv
<1>3. PICK k \in Keys : k = arg[c].key
  BY <1>1 DEF Calls, Delete
<1>4. LRU!Return(c, "delete") /\ Asked[c].key = k /\ UNCHANGED answer
  BY <1>1, <1>3, ReturnRefines DEF Delete
<1>5. CASE k \notin Held /\ items' = items /\ list' = list
  <2>1. Holds(keys)'
    BY <1>2, <1>5 DEF Holds, Held
  <2>2. Entries' = Ent(items', keys) /\ items' = items
    BY <1>5, <2>1, EntriesAfter
  <2>3. Entries' = LRU!Without(k)
    BY <1>2, <1>5, <2>2, WithoutOther
  <2>4. QED
    BY <1>4, <2>3 DEF LRU!Invalidate
<1>6. ASSUME NEW p \in DOMAIN keys, keys[p] = k,
             items' = [items EXCEPT ![k] = Nil], Holds(Removed(keys, p))'
      PROVE  LRU!Invalidate(c)
  <2>1. \A i \in DOMAIN Removed(keys, p) : Removed(keys, p)[i] \in Held \ {k}
    BY <1>2, <1>6, RemovedOther
  <2>2. PICK r : r = Removed(keys, p)
    OBVIOUS
  <2>3. \A i \in DOMAIN r : items[r[i]] = items'[r[i]]
    BY <1>1, <1>6, <2>1, <2>2 DEF Held
  <2>4. Ent(items, r) = Ent(items', r)
    BY <2>3, EntSame
  <2>5. Entries' = Ent(items', r)
    BY <1>6, <2>2, EntriesAfter
  <2>6. Entries' = LRU!Without(k)
    BY <1>2, <1>6, <2>2, <2>4, <2>5, WithoutHeld
  <2>7. QED
    BY <1>4, <2>6 DEF LRU!Invalidate
<1>7. QED
  BY <1>1, <1>2, <1>3, <1>5, <1>6, DeleteCases

\* What Put stores, and the length of what it then holds.
LEMMA StoreRefines ==
    ASSUME Calls, NEW c \in Callers, Put(c), NEW stored,
           stored = <<[key |-> arg[c].key, value |-> arg[c].value,
                       expiresAt |-> IF arg[c].ttl > 0 THEN arg[c].now + arg[c].ttl
                                     ELSE 0]>> \o LRU!Without(arg[c].key),
           Entries' = IF Len(stored) > Capacity THEN SubSeq(stored, 1, Capacity)
                      ELSE stored
    PROVE  LRU!Store(c)
<1>1. PICK k, v, ttl, now : /\ k = arg[c].key /\ v = arg[c].value
                            /\ ttl = arg[c].ttl /\ now = arg[c].now
  OBVIOUS
<1>2. /\ LRU!Return(c, "put") /\ now \in Asked[c].since..clock
      /\ UNCHANGED answer
  BY <1>1, ReturnRefines DEF Put
<1>3. Asked[c].key = k /\ Asked[c].value = v /\ Asked[c].ttl = ttl
  BY <1>1, ReturnRefines DEF Put
<1>4. stored = <<[key |-> k, value |-> v,
                  expiresAt |-> IF ttl > 0 THEN now + ttl ELSE 0]>>
                \o LRU!Without(k)
  BY <1>1
<1>5. QED
  BY <1>2, <1>3, <1>4 DEF LRU!Store

\* All entries but the last.
LEMMA EntCut ==
    ASSUME NEW T, NEW keys \in Seq(T), NEW n \in Nat, Len(keys) = n + 1, NEW it
    PROVE  SubSeq(Ent(it, keys), 1, n) = Ent(it, Removed(keys, n + 1))
<1> DEFINE a == Ent(it, keys)
<1>1. DOMAIN keys = 1..n + 1
  OBVIOUS
<1>2. \A i \in 1..n + 1 : a[i] = [key |-> keys[i], value |-> it[keys[i]].value,
                                  expiresAt |-> it[keys[i]].expiresAt]
  BY <1>1 DEF Ent
<1>3. PICK r : r = Removed(keys, n + 1)
  OBVIOUS
<1>4. DOMAIN r = 1..n /\ \A i \in 1..n : r[i] = keys[i]
  <2>1. Len(keys) - 1 = n
    OBVIOUS
  <2>2. QED
    BY <1>3, <2>1 DEF Removed
<1>5. PICK b : b = Ent(it, r)
  OBVIOUS
<1>6. /\ DOMAIN b = 1..n /\ b = [i \in 1..n |-> b[i]]
      /\ \A i \in 1..n : b[i] = [key |-> r[i], value |-> it[r[i]].value,
                                 expiresAt |-> it[r[i]].expiresAt]
  BY <1>4, <1>5 DEF Ent
<1> HIDE DEF a
<1>7. SubSeq(a, 1, n) = [i \in 1..n |-> a[i]]
  OBVIOUS
<1>8. ASSUME NEW i \in 1..n PROVE a[i] = b[i]
  <2>1. i \in 1..n + 1 /\ r[i] = keys[i]
    BY <1>4
  <2>2. a[i] = [key |-> keys[i], value |-> it[keys[i]].value,
                expiresAt |-> it[keys[i]].expiresAt]
    BY <1>2, <2>1
  <2>3. b[i] = [key |-> r[i], value |-> it[r[i]].value,
                expiresAt |-> it[r[i]].expiresAt]
    BY <1>6
  <2>4. QED
    BY <2>1, <2>2, <2>3
<1>9. QED
  BY <1>3, <1>5, <1>6, <1>7, <1>8 DEF a

LEMMA PutRefines ==
    ASSUME CacheInv, NEW c \in Callers, Put(c)
    PROVE  LRU!Store(c)
<1>1. Calls /\ items \in [Keys -> {Nil} \cup Item]
  BY DEF CacheInv
<1>2. PICK keys : Holds(keys)
  BY DEF CacheInv
<1>3. PICK k : k = arg[c].key
  OBVIOUS
<1>4. PICK item : item = NewItem(c)
  OBVIOUS
<1>5. k \in Keys /\ item \in Item /\ item # Nil
  BY <1>1, <1>3, <1>4, NewItemType DEF Calls, Put
<1>6. PICK e : e = [key |-> k, value |-> item.value, expiresAt |-> item.expiresAt]
  OBVIOUS
<1>7. e = [key |-> arg[c].key, value |-> arg[c].value,
           expiresAt |-> IF arg[c].ttl > 0 THEN arg[c].now + arg[c].ttl ELSE 0]
  BY <1>3, <1>4, <1>6 DEF NewItem
<1>8. PICK stored : stored = <<e>> \o LRU!Without(k)
  OBVIOUS
<1>9. SUFFICES Entries' = IF Len(stored) > Capacity
                          THEN SubSeq(stored, 1, Capacity) ELSE stored
  BY <1>1, <1>3, <1>7, <1>8, StoreRefines
<1>10. /\ keys \in Seq(Held) /\ Len(keys) \in Nat /\ Len(keys) <= Capacity
       /\ \A i \in DOMAIN keys : keys[i] \in Held
       /\ \A i, j \in DOMAIN keys : keys[i] = keys[j] => i = j
       /\ DOMAIN keys = 1..Len(keys)
  BY <1>2, HoldsKeys
<1>11. Capacity \in Nat \ {0}
  BY CacheAssumption
<1>12. PICK T, it, new : T = Held /\ it = items /\ new = [items EXCEPT ![k] = item]
  OBVIOUS
<1>13. \A x \in Held : x # k => new[x] = it[x]
  BY <1>1, <1>5, <1>12 DEF Held
<1>14. new[k] = item
  BY <1>1, <1>5, <1>12
<1>15. e = [key |-> k, value |-> new[k].value, expiresAt |-> new[k].expiresAt]
  BY <1>6, <1>14
<1>16. ASSUME NEW p \in DOMAIN keys, keys[p] = k,
              items' = [items EXCEPT ![k] = item],
              Holds(Pushed(keys[p], Removed(keys, p)))'
       PROVE  /\ Entries' = stored /\ ~(Len(stored) > Capacity)
  <2>1. PICK r : r = Removed(keys, p)
    OBVIOUS
  <2>2. /\ r \in Seq(T) /\ Len(r) = Len(keys) - 1
        /\ \A i \in DOMAIN r : r[i] \in Held \ {k}
    BY <1>2, <1>12, <1>16, <2>1, RemovedOther
  <2>3. \A i \in DOMAIN r : it[r[i]] = new[r[i]]
    BY <1>13, <2>2
  <2>4. LRU!Without(k) = Ent(it, r)
    BY <1>2, <1>12, <1>16, <2>1, WithoutHeld
  <2>5. stored = Ent(new, Pushed(k, r))
    <3>1. <<e>> \o Ent(it, r) = Ent(new, Pushed(k, r))
      BY <1>15, <2>2, <2>3, EntPushed
    <3>2. QED
      BY <1>8, <2>4, <3>1
  <2>6. Entries' = Ent(new, Pushed(k, r))
    BY <1>12, <1>16, <2>1, EntriesAfter
  <2>7. Len(stored) = Len(keys)
    <3>1. DOMAIN Pushed(k, r) = 1..Len(keys)
      BY <1>10, <2>2 DEF Pushed
    <3>2. DOMAIN stored = 1..Len(keys) /\ stored = [i \in 1..Len(keys) |-> stored[i]]
      BY <2>5, <3>1 DEF Ent
    <3>3. QED
      BY <1>10, <3>2
  <2>8. QED
    BY <1>10, <1>11, <2>5, <2>6, <2>7
<1>17. ASSUME k \notin Held
       PROVE  /\ stored = Ent(new, Pushed(k, keys))
              /\ Len(stored) = Len(keys) + 1
  <2>1. \A i \in DOMAIN keys : it[keys[i]] = new[keys[i]]
    BY <1>10, <1>13, <1>17
  <2>2. LRU!Without(k) = Ent(it, keys)
    BY <1>2, <1>12, <1>17, WithoutOther
  <2>3. keys \in Seq(T)
    BY <1>10, <1>12
  <2>4. stored = Ent(new, Pushed(k, keys))
    <3>1. <<e>> \o Ent(it, keys) = Ent(new, Pushed(k, keys))
      BY <1>15, <2>1, <2>3, EntPushed
    <3>2. QED
      BY <1>8, <2>2, <3>1
  <2>5. DOMAIN Pushed(k, keys) = 1..Len(keys) + 1
    BY DEF Pushed
  <2>6. DOMAIN stored = 1..Len(keys) + 1
        /\ stored = [i \in 1..Len(keys) + 1 |-> stored[i]]
    BY <2>4, <2>5 DEF Ent
  <2>7. Len(stored) = Len(keys) + 1
    BY <1>10, <2>6
  <2>8. QED
    BY <2>4, <2>7
<1>18. ASSUME k \notin Held, Len(keys) + 1 <= Capacity,
              items' = [items EXCEPT ![k] = item], Holds(Pushed(k, keys))'
       PROVE  /\ Entries' = stored /\ ~(Len(stored) > Capacity)
  <2>1. Entries' = Ent(new, Pushed(k, keys))
    BY <1>12, <1>18, EntriesAfter
  <2>2. QED
    BY <1>10, <1>11, <1>17, <1>18, <2>1
<1>19. ASSUME k \notin Held, Len(keys) = Capacity, keys[Len(keys)] \in Held,
              items' = [items EXCEPT ![k] = item, ![keys[Len(keys)]] = Nil],
              Holds(Removed(Pushed(k, keys), Len(keys) + 1))'
       PROVE  /\ Len(stored) > Capacity
              /\ Entries' = SubSeq(stored, 1, Capacity)
  <2>1. PICK n \in Nat : n = Len(keys)
    BY <1>10
  <2>2. PICK next, U : next = Pushed(k, keys) /\ U = Held \cup {k}
    OBVIOUS
  <2>3. /\ next \in Seq(U) /\ Len(next) = n + 1
    <3>1. keys \in Seq(U) /\ k \in U
      BY <1>10, <2>2
    <3>2. QED
      BY <2>1, <2>2, <3>1, PushedFacts
  <2>4. SubSeq(stored, 1, n) = Ent(new, Removed(next, n + 1))
    BY <1>17, <1>19, <2>2, <2>3, EntCut
  <2>5. PICK rest : rest = Removed(next, n + 1)
    OBVIOUS
  <2>6. Entries' = Ent(items', rest)
    BY <1>19, <2>1, <2>2, <2>5, EntriesAfter
  <2>7. /\ DOMAIN rest = 1..n
        /\ \A i \in 1..n : rest[i] = IF i = 1 THEN k ELSE keys[i - 1]
    <3>1. \A i \in 1..n + 1 : next[i] = IF i = 1 THEN k ELSE keys[i - 1]
      BY <2>1, <2>2 DEF Pushed
    <3>2. Len(next) - 1 = n
      BY <2>3
    <3>3. DOMAIN rest = 1..n /\ \A i \in 1..n : rest[i] = next[i]
      BY <2>5, <3>2 DEF Removed
    <3>4. QED
      BY <3>1, <3>3
  <2>8. \A i \in DOMAIN rest : rest[i] \in Keys /\ rest[i] # keys[n]
    <3>1. ASSUME NEW i \in 1..n PROVE rest[i] \in Keys /\ rest[i] # keys[n]
      <4>1. CASE i = 1
        BY <1>5, <1>19, <2>1, <2>7, <4>1
      <4>2. CASE i # 1
        <5>1. i - 1 \in DOMAIN keys /\ n \in DOMAIN keys /\ i - 1 # n
              /\ rest[i] = keys[i - 1]
          BY <1>10, <2>1, <2>7, <4>2
        <5>2. QED
          BY <1>10, <5>1 DEF Held
      <4>3. QED
        BY <4>1, <4>2
    <3>2. QED
      BY <2>7, <3>1
  <2>9. \A i \in DOMAIN rest : items'[rest[i]] = new[rest[i]]
    BY <1>1, <1>12, <1>19, <2>1, <2>8
  <2>10. Ent(items', rest) = Ent(new, rest)
    BY <2>9, EntSame
  <2>11. QED
    <3>1. Len(stored) = n + 1 /\ n = Capacity
      BY <1>17, <1>19, <2>1
    <3>2. Len(stored) > Capacity
      BY <3>1
    <3>3. Entries' = SubSeq(stored, 1, n)
      BY <2>4, <2>5, <2>6, <2>10
    <3>4. QED
      BY <3>1, <3>2, <3>3
<1>20. QED
  <2>1. \/ \E p \in DOMAIN keys :
              /\ keys[p] = k
              /\ items' = [items EXCEPT ![k] = item]
              /\ Holds(Pushed(keys[p], Removed(keys, p)))'
        \/ /\ k \notin Held /\ Len(keys) + 1 <= Capacity
           /\ items' = [items EXCEPT ![k] = item]
           /\ Holds(Pushed(k, keys))'
        \/ /\ k \notin Held /\ Len(keys) = Capacity
           /\ keys[Len(keys)] \in Held
           /\ items' = [items EXCEPT ![k] = item,
                                     ![keys[Len(keys)]] = Nil]
           /\ Holds(Removed(Pushed(k, keys), Len(keys) + 1))'
    BY <1>1, <1>2, <1>3, <1>4, PutCases
  <2>2. QED
    BY <1>16, <1>18, <1>19, <2>1

LEMMA PurgeRefines ==
    ASSUME CacheInv, NEW c \in Callers, PurgeExpired(c)
    PROVE  LRU!DropExpired(c)
<1>1. Calls /\ items \in [Keys -> {Nil} \cup Item]
  BY DEF CacheInv
<1>2. PICK keys : Holds(keys)
  BY DEF CacheInv
<1>3. PICK now : now = arg[c].now
  OBVIOUS
<1>4. /\ LRU!Return(c, "purge") /\ now \in Asked[c].since..clock
      /\ UNCHANGED answer
  BY <1>1, <1>3, ReturnRefines DEF PurgeExpired
<1>5. PICK rest, f :
         /\ Holds(rest)' /\ Kept(rest, f, keys)
         /\ Held' = {k \in Held : ~expired(items[k], now)}
         /\ items' = [k \in Keys |-> IF k \in Held' THEN items[k] ELSE Nil]
  BY <1>1, <1>2, <1>3, PurgeCases
<1>6. PICK it, S, R : it = items /\ S = Held /\ R = Held'
  OBVIOUS
<1>7. /\ keys \in Seq(S) /\ DOMAIN keys = 1..Len(keys) /\ Len(keys) \in Nat
      /\ \A i \in DOMAIN keys : keys[i] \in S
      /\ \A i, j \in DOMAIN keys : keys[i] = keys[j] => i = j
  BY <1>2, <1>6, HoldsKeys
<1>8. /\ rest \in Seq(R) /\ DOMAIN rest = 1..Len(rest) /\ Len(rest) \in Nat
      /\ \A i \in DOMAIN rest : rest[i] \in R
      /\ \A k \in R : \E i \in DOMAIN rest : rest[i] = k
  <2>1. Held' \in SUBSET Keys /\ Shape(list', rest, Held')
    BY <1>5 DEF Held, Holds
  <2>2. PICK l : l = list'
    OBVIOUS
  <2>3. R \in SUBSET Keys /\ Shape(l, rest, R)
    BY <1>6, <2>1, <2>2
  <2>4. /\ rest \in Seq(R) /\ DOMAIN rest = 1..Len(rest) /\ Len(rest) \in Nat
        /\ \A i \in 1..Len(rest) : rest[i] \in R
    BY <2>3, ShapeKeys
  <2>5. \A k \in R : \E i \in DOMAIN rest : rest[i] = k
    BY <2>3 DEF Shape, Arranges
  <2>6. QED
    BY <2>4, <2>5
<1>9. R \subseteq S /\ \A k \in S : k \in R <=> ~expired(it[k], now)
  BY <1>5, <1>6
<1>10. PICK P \in SUBSET Nat : P = {i \in DOMAIN keys : keys[i] \in R}
  <2>1. {i \in DOMAIN keys : keys[i] \in R} \in SUBSET Nat
    BY <1>7
  <2>2. QED
    BY <2>1
<1>11. Counts(f, Len(rest), P)
  <2>1. /\ f \in [DOMAIN rest -> DOMAIN keys]
        /\ \A i, j \in DOMAIN rest : i < j => f[i] < f[j]
        /\ \A i \in DOMAIN rest : rest[i] = keys[f[i]]
    BY <1>5 DEF Kept
  <2>2. \A i \in DOMAIN rest : f[i] \in P
    BY <1>8, <1>10, <2>1
  <2>3. f \in [1..Len(rest) -> P]
    BY <1>8, <2>1, <2>2
  <2>4. ASSUME NEW x \in P PROVE \E i \in 1..Len(rest) : f[i] = x
    <3>1. x \in DOMAIN keys /\ keys[x] \in R
      BY <1>10
    <3>2. PICK i \in DOMAIN rest : rest[i] = keys[x]
      BY <1>8, <3>1
    <3>3. f[i] \in DOMAIN keys /\ keys[f[i]] = keys[x]
      BY <2>1, <3>2
    <3>4. f[i] = x
      BY <1>7, <3>1, <3>3
    <3>5. QED
      BY <1>8, <3>2, <3>4
  <2>5. QED
    BY <1>8, <2>1, <2>3, <2>4 DEF Counts
<1>12. LRU!At(Ent(it, keys), P) = Ent(it, rest)
  BY <1>5, <1>7, <1>8, <1>11, EntKept
<1>13. PICK s : s = Ent(it, keys)
  OBVIOUS
<1>14. Entries = s
  BY <1>2, <1>6, <1>13, EntriesBefore
<1>15. PICK Q : Q = {i \in DOMAIN s : ~LRU!IsExpired(s[i], now)}
  OBVIOUS
<1>16. Q = P
  <2>1. DOMAIN s = DOMAIN keys
        /\ \A i \in DOMAIN keys : s[i].expiresAt = it[keys[i]].expiresAt
    BY <1>13 DEF Ent
  <2>2. \A i \in DOMAIN keys : LRU!IsExpired(s[i], now) <=> expired(it[keys[i]], now)
    BY <2>1 DEF LRU!IsExpired, expired
  <2>3. \A i \in DOMAIN keys : keys[i] \in R <=> ~LRU!IsExpired(s[i], now)
    BY <1>7, <1>9, <2>2
  <2>4. QED
    BY <1>10, <1>15, <2>1, <2>3
<1>17. Entries' = LRU!At(s, Q)
  <2>1. Entries' = Ent(items', rest)
    BY <1>5, EntriesAfter
  <2>2. \A i \in DOMAIN rest : items'[rest[i]] = it[rest[i]]
    BY <1>5, <1>6, <1>8 DEF Held
  <2>3. Ent(items', rest) = Ent(it, rest)
    BY <2>2, EntSame
  <2>4. QED
    BY <1>12, <1>13, <1>16, <2>1, <2>3
<1>18. Entries' = LRU!At(Entries, {i \in DOMAIN Entries :
                                     ~LRU!IsExpired(Entries[i], now)})
  BY <1>14, <1>15, <1>17
<1>19. QED
  BY <1>4, <1>18 DEF LRU!DropExpired

\* A call that begins is one that can be asked for.
LEMMA BeginRefines ==
    ASSUME CacheInv, NEW c \in Callers, NEW call, NEW k, NEW v, NEW ttl,
           Begin(c, call, k, v, ttl),
           [call |-> call, key |-> k, value |-> v, ttl |-> ttl,
            since |-> clock] \in LRU!Requests
    PROVE  LRU!Ask(c)
<1>1. Calls
  BY DEF CacheInv
<1>2. PICK now : now = clock
  OBVIOUS
<1>3. PICK request :
         request = [call |-> call, key |-> k, value |-> v, ttl |-> ttl,
                    since |-> now]
  OBVIOUS
<1>4. \A d \in Callers :
         /\ d # c => op'[d] = op[d] /\ arg'[d] = arg[d]
         /\ d = c => /\ op'[d] = call
                     /\ arg'[d] = [key |-> k, value |-> v, ttl |-> ttl,
                                   now |-> now]
  BY <1>1, <1>2 DEF Calls, Begin
<1>5. PICK a, b : a = Asked /\ b = Asked'
  OBVIOUS
<1>6. a = [d \in Callers |->
             [call |-> op[d], key |-> arg[d].key, value |-> arg[d].value,
              ttl |-> arg[d].ttl, since |-> arg[d].now]]
  BY <1>5 DEF Asked
<1>7. b = [d \in Callers |->
             [call |-> op'[d], key |-> arg'[d].key, value |-> arg'[d].value,
              ttl |-> arg'[d].ttl, since |-> arg'[d].now]]
  BY <1>5 DEF Asked
<1>8. b = [a EXCEPT ![c] = request] /\ a[c].call = "idle"
  <2>1. b[c] = request
    BY <1>3, <1>4, <1>7
  <2>2. \A d \in Callers : d # c => b[d] = a[d]
    BY <1>4, <1>6, <1>7
  <2>3. a[c].call = "idle"
    BY <1>6 DEF Begin
  <2>4. QED
    BY <1>6, <1>7, <2>1, <2>2, <2>3
<1>9. Entries' = Entries
  <2>1. PICK keys : Holds(keys)
    BY DEF CacheInv
  <2>2. Holds(keys)' /\ items' = items
    BY <2>1 DEF Begin, Holds, Held
  <2>3. QED
    BY <2>1, <2>2, EntriesBefore, EntriesAfter
<1>10. request \in LRU!Requests
  BY <1>2, <1>3
<1>11. QED
  BY <1>5, <1>8, <1>9, <1>10 DEF LRU!Ask, Begin

\* A step that touches neither the calls nor the cache.
LEMMA Unseen ==
    ASSUME CacheInv, UNCHANGED <<op, arg, items, list>>
    PROVE  Asked' = Asked /\ Entries' = Entries
<1>1. Asked' = Asked
  BY DEF Asked
<1>2. PICK keys : Holds(keys)
  BY DEF CacheInv
<1>3. Holds(keys)' /\ items' = items
  BY <1>2 DEF Holds, Held
<1>4. QED
  BY <1>1, <1>2, <1>3, EntriesBefore, EntriesAfter

LEMMA InitRefines == Init => LRU!Init
<1> SUFFICES ASSUME Init PROVE LRU!Init
  OBVIOUS
<1>1. Asked = [c \in Callers |-> LRU!Idle]
  BY DEF Init, Asked, NoArg, LRU!Idle
<1>2. Entries = << >>
  <2>1. PICK keys : Holds(keys)
    BY InitCache DEF CacheInv
  <2>2. keys \in Seq(Held) /\ Held = {}
    BY <2>1, HoldsKeys DEF Init, Held
  <2>3. DOMAIN keys = {}
    BY <2>2
  <2>4. Ent(items, keys) = << >>
    BY <2>3 DEF Ent
  <2>5. QED
    BY <2>1, <2>4, EntriesBefore
<1>3. QED
  BY <1>1, <1>2 DEF Init, LRU!Init

LEMMA StepRefines ==
    ASSUME CacheInv, [Next]_vars
    PROVE  [LRU!Next]_(LRU!abstractVars)
<1>1. CASE Tick
  <2>1. Asked' = Asked /\ Entries' = Entries
    BY <1>1, Unseen DEF Tick
  <2>2. LRU!Tick
    BY <1>1, <2>1 DEF Tick, LRU!Tick
  <2>3. QED
    BY <2>2 DEF LRU!Next
<1>2. ASSUME NEW c \in Callers, Call(c) PROVE LRU!Next
  <2>1. LRU!Ask(c)
    <3>1. ASSUME NEW k \in Keys, NEW call \in {"get", "delete"},
                 Begin(c, call, k, Nothing, 0)
          PROVE  LRU!Ask(c)
      <4>1. [call |-> call, key |-> k, value |-> Nothing, ttl |-> 0,
             since |-> clock] \in LRU!Requests
        BY DEF LRU!Requests
      <4>2. QED
        BY <3>1, <4>1, BeginRefines
    <3>2. ASSUME NEW k \in Keys, NEW v \in Values, NEW ttl \in TTLs,
                 Begin(c, "put", k, v, ttl)
          PROVE  LRU!Ask(c)
      <4>1. [call |-> "put", key |-> k, value |-> v, ttl |-> ttl,
             since |-> clock] \in LRU!Requests
        BY DEF LRU!Requests
      <4>2. QED
        BY <3>2, <4>1, BeginRefines
    <3>3. ASSUME Begin(c, "purge", Nothing, Nothing, 0)
          PROVE  LRU!Ask(c)
      <4>1. [call |-> "purge", key |-> Nothing, value |-> Nothing, ttl |-> 0,
             since |-> clock] \in LRU!Requests
        BY DEF LRU!Requests
      <4>2. QED
        BY <3>3, <4>1, BeginRefines
    <3>4. QED
      BY <1>2, <3>1, <3>2, <3>3 DEF Call
  <2>2. QED
    BY <2>1 DEF LRU!Next
<1>3. ASSUME NEW c \in Callers, Get(c) PROVE LRU!Next
  BY <1>3, GetRefines DEF LRU!Next
<1>4. ASSUME NEW c \in Callers, Put(c) PROVE LRU!Next
  BY <1>4, PutRefines DEF LRU!Next
<1>5. ASSUME NEW c \in Callers, Delete(c) PROVE LRU!Next
  BY <1>5, DeleteRefines DEF LRU!Next
<1>6. ASSUME NEW c \in Callers, PurgeExpired(c) PROVE LRU!Next
  BY <1>6, PurgeRefines DEF LRU!Next
<1>7. CASE UNCHANGED vars
  <2>1. Asked' = Asked /\ Entries' = Entries
    BY <1>7, Unseen DEF vars
  <2>2. QED
    BY <1>7, <2>1 DEF vars, LRU!abstractVars
<1>8. QED
  BY <1>1, <1>2, <1>3, <1>4, <1>5, <1>6, <1>7 DEF Next

\* cache.Memory implements LRUCache for any number of goroutines, any
\* capacity and any times to live: every call takes effect at once and does
\* what its caller asked for, on one sequence of at most Capacity entries in
\* the order of use, and judges expiration at an instant of its own duration.
THEOREM Refinement == Spec => ImplementsLRU
<1>1. Init => LRU!Init
  BY InitRefines
<1>2. CacheInv /\ [Next]_vars => [LRU!Next]_(LRU!abstractVars)
  BY StepRefines
<1>3. QED
  BY <1>1, <1>2, Invariant, PTL DEF Spec, ImplementsLRU, LRU!Spec
=============================================================================
