----------------------------- MODULE QueueLemmas -----------------------------
(***************************************************************************)
(* Queues of jobs: which jobs a queue holds, and which comes last of those *)
(* that concern somebody.  A queue is only appended to at its end and      *)
(* taken from at its head.  Used by the proofs about the nodes that send   *)
(* messages through Outbox.                                                *)
(***************************************************************************)
EXTENDS Integers, Sequences, TLAPS

\* Every job of the queue is in V; none is in C.
AllOf(s, V) == \A i \in 1 .. Len(s) : s[i] \in V
NoneOf(s, C) == \A i \in 1 .. Len(s) : s[i] \notin C

\* The last job of the queue that is in C, if there is one, is in V.
LastOf(s, C, V) ==
  \A i \in 1 .. Len(s) :
    s[i] \in C /\ (\A n \in i + 1 .. Len(s) : s[n] \notin C) => s[i] \in V

LEMMA EmptyQueue ==
  ASSUME NEW C, NEW V
  PROVE  AllOf(<<>>, V) /\ NoneOf(<<>>, C) /\ LastOf(<<>>, C, V)
BY DEF AllOf, NoneOf, LastOf

LEMMA AppendAll ==
  ASSUME NEW S, NEW s \in Seq(S), NEW x \in S, NEW V
  PROVE  AllOf(Append(s, x), V) <=> AllOf(s, V) /\ x \in V
<1>1. /\ Len(Append(s, x)) = Len(s) + 1 /\ Len(s) \in Nat
      /\ Append(s, x)[Len(s) + 1] = x
      /\ \A i \in 1 .. Len(s) : Append(s, x)[i] = s[i]
  OBVIOUS
<1> QED
  BY <1>1 DEF AllOf

LEMMA AppendNone ==
  ASSUME NEW S, NEW s \in Seq(S), NEW x \in S, NEW C
  PROVE  NoneOf(Append(s, x), C) <=> NoneOf(s, C) /\ x \notin C
<1>1. /\ Len(Append(s, x)) = Len(s) + 1 /\ Len(s) \in Nat
      /\ Append(s, x)[Len(s) + 1] = x
      /\ \A i \in 1 .. Len(s) : Append(s, x)[i] = s[i]
  OBVIOUS
<1> QED
  BY <1>1 DEF NoneOf

LEMMA AppendLast ==
  ASSUME NEW S, NEW s \in Seq(S), NEW x \in S, NEW C, NEW V
  PROVE  LastOf(Append(s, x), C, V) <=> IF x \in C THEN x \in V ELSE LastOf(s, C, V)
<1> DEFINE t == Append(s, x)
           l == Len(s)
<1>1. /\ Len(t) = l + 1 /\ l \in Nat /\ t[l + 1] = x
      /\ \A i \in 1 .. l : t[i] = s[i]
  OBVIOUS
<1> HIDE DEF t
<1>2. CASE x \in C
  BY <1>1, <1>2 DEF LastOf
<1>3. CASE x \notin C
  <2>1. ASSUME LastOf(s, C, V), NEW i \in 1 .. l + 1, t[i] \in C,
               \A n \in i + 1 .. l + 1 : t[n] \notin C
        PROVE  t[i] \in V
    <3>1. i \in 1 .. l
      BY <1>1, <1>3, <2>1
    <3>2. \A n \in i + 1 .. l : s[n] \notin C
      BY <1>1, <2>1, <3>1
    <3> QED
      BY <1>1, <2>1, <3>1, <3>2 DEF LastOf
  <2>2. ASSUME LastOf(t, C, V), NEW i \in 1 .. l, s[i] \in C,
               \A n \in i + 1 .. l : s[n] \notin C
        PROVE  s[i] \in V
    <3>1. \A n \in i + 1 .. l + 1 : t[n] \notin C
      BY <1>1, <1>3, <2>2
    <3> QED
      BY <1>1, <2>2, <3>1 DEF LastOf
  <2>3. LastOf(t, C, V) <=> LastOf(s, C, V)
    BY <1>1, <2>1, <2>2 DEF LastOf
  <2> QED
    BY <1>3, <2>3 DEF t
<1> QED
  BY <1>2, <1>3 DEF t

LEMMA TailAll ==
  ASSUME NEW S, NEW s \in Seq(S), s # <<>>, NEW V
  PROVE  AllOf(s, V) <=> Head(s) \in V /\ AllOf(Tail(s), V)
<1>1. /\ Len(Tail(s)) = Len(s) - 1 /\ Len(s) \in Nat \ {0} /\ Head(s) = s[1]
      /\ \A i \in 1 .. Len(s) - 1 : Tail(s)[i] = s[i + 1]
  OBVIOUS
<1>2. \A i \in 2 .. Len(s) : Tail(s)[i - 1] = s[i]
  BY <1>1
<1> QED
  BY <1>1, <1>2 DEF AllOf

LEMMA TailNone ==
  ASSUME NEW S, NEW s \in Seq(S), s # <<>>, NEW C
  PROVE  NoneOf(s, C) <=> Head(s) \notin C /\ NoneOf(Tail(s), C)
<1> DEFINE t == Tail(s)
           l == Len(s)
<1>1. /\ Len(t) = l - 1 /\ l \in Nat \ {0} /\ Head(s) = s[1]
      /\ \A i \in 1 .. l - 1 : t[i] = s[i + 1]
  OBVIOUS
<1> HIDE DEF t
<1>2. \A i \in 2 .. l : i - 1 \in 1 .. l - 1 /\ t[i - 1] = s[i]
  BY <1>1
<1>3. ASSUME NoneOf(s, C) PROVE s[1] \notin C /\ NoneOf(t, C)
  <2>1. \A i \in 1 .. l - 1 : i + 1 \in 1 .. l
    BY <1>1
  <2> QED
    BY <1>1, <1>3, <2>1 DEF NoneOf
<1>4. ASSUME s[1] \notin C, NoneOf(t, C), NEW i \in 1 .. l
      PROVE  s[i] \notin C
  <2>1. CASE i = 1
    BY <1>4, <2>1
  <2>2. CASE i \in 2 .. l
    BY <1>1, <1>2, <1>4, <2>2 DEF NoneOf
  <2> QED
    BY <1>1, <2>1, <2>2
<1>5. NoneOf(s, C) <=> s[1] \notin C /\ NoneOf(t, C)
  BY <1>3, <1>4 DEF NoneOf
<1> QED
  BY <1>1, <1>5 DEF t

\* The job taken from the head was the last of its kind only if no other follows.
LEMMA TailLast ==
  ASSUME NEW S, NEW s \in Seq(S), s # <<>>, NEW C, NEW V, LastOf(s, C, V)
  PROVE  /\ LastOf(Tail(s), C, V)
         /\ NoneOf(Tail(s), C) /\ Head(s) \in C => Head(s) \in V
<1> DEFINE t == Tail(s)
           l == Len(s)
<1>1. /\ Len(t) = l - 1 /\ l \in Nat \ {0} /\ Head(s) = s[1]
      /\ \A i \in 1 .. l - 1 : t[i] = s[i + 1]
  OBVIOUS
<1> HIDE DEF t
<1>2. ASSUME NEW i \in 1 .. l - 1, t[i] \in C, \A n \in i + 1 .. l - 1 : t[n] \notin C
      PROVE  t[i] \in V
  <2>1. i + 1 \in 1 .. l /\ s[i + 1] = t[i]
    BY <1>1
  <2>2. ASSUME NEW n \in (i + 1) + 1 .. l
        PROVE  s[n] \notin C
    <3>1. n - 1 \in i + 1 .. l - 1 /\ n - 1 \in 1 .. l - 1
      BY <1>1
    <3>2. t[n - 1] = s[(n - 1) + 1] /\ (n - 1) + 1 = n
      BY <1>1, <3>1
    <3> QED
      BY <1>2, <3>1, <3>2
  <2> QED
    BY <1>2, <2>1, <2>2 DEF LastOf
<1>3. LastOf(t, C, V)
  BY <1>1, <1>2 DEF LastOf
<1>4. ASSUME NoneOf(t, C), s[1] \in C
      PROVE  s[1] \in V
  <2>1. ASSUME NEW n \in 1 + 1 .. l
        PROVE  s[n] \notin C
    <3>1. n - 1 \in 1 .. l - 1 /\ (n - 1) + 1 = n
      BY <1>1
    <3> QED
      BY <1>1, <1>4, <3>1 DEF NoneOf
  <2> QED
    BY <1>1, <1>4, <2>1 DEF LastOf
<1> QED
  BY <1>1, <1>3, <1>4 DEF t
==============================================================================
