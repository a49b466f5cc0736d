------------------------------ MODULE QueueProofs ------------------------------
(***************************************************************************)
(* Lemmas about queues, for the proofs about the modules whose processes   *)
(* and controllers take from the head of one and add to its end.           *)
(***************************************************************************)
EXTENDS Integers, Sequences, TLAPS

\* What lies in a sequence.
Elements(s) == {s[k] : k \in DOMAIN s}

\* What a queue holds after its head is taken ...
LEMMA TailElements ==
    ASSUME NEW S, NEW s \in Seq(S), s # <<>>
    PROVE  /\ Elements(s) = {Head(s)} \cup Elements(Tail(s))
           /\ Head(s) \in S /\ Tail(s) \in Seq(S)
  <1>1. /\ Len(s) \in Nat /\ Len(s) >= 1 /\ DOMAIN s = 1 .. Len(s)
        /\ Head(s) = s[1] /\ s[1] \in S /\ Tail(s) \in Seq(S)
        /\ DOMAIN Tail(s) = 1 .. (Len(s) - 1)
        /\ \A k \in 1 .. (Len(s) - 1) : Tail(s)[k] = s[k + 1]
    OBVIOUS
  <1>2. ASSUME NEW k \in DOMAIN s
        PROVE  s[k] \in {Head(s)} \cup Elements(Tail(s))
    <2>1. CASE k = 1
      BY <1>1, <2>1
    <2>2. CASE k # 1
      <3>1. k - 1 \in DOMAIN Tail(s) /\ Tail(s)[k - 1] = s[k]
        BY <1>1, <2>2
      <3> QED
        BY <3>1 DEF Elements
    <2> QED
      BY <2>1, <2>2
  <1>3. ASSUME NEW k \in DOMAIN Tail(s)
        PROVE  Tail(s)[k] \in Elements(s)
    <2>1. k + 1 \in DOMAIN s /\ Tail(s)[k] = s[k + 1]
      BY <1>1
    <2> QED
      BY <2>1 DEF Elements
  <1>4. Head(s) \in Elements(s)
    BY <1>1 DEF Elements
  <1>5. Elements(s) \subseteq {Head(s)} \cup Elements(Tail(s))
    BY <1>2 DEF Elements
  <1>6. Elements(Tail(s)) \subseteq Elements(s)
    BY <1>3 DEF Elements
  <1> QED
    BY <1>1, <1>4, <1>5, <1>6

\* ... and after an element is added.
LEMMA AppendElements ==
    ASSUME NEW S, NEW s \in Seq(S), NEW e \in S
    PROVE  /\ Elements(Append(s, e)) = Elements(s) \cup {e}
           /\ Append(s, e) \in Seq(S)
  <1>1. /\ Len(s) \in Nat /\ DOMAIN s = 1 .. Len(s)
        /\ DOMAIN Append(s, e) = 1 .. (Len(s) + 1)
        /\ \A k \in 1 .. Len(s) : Append(s, e)[k] = s[k]
        /\ Append(s, e)[Len(s) + 1] = e
        /\ Append(s, e) \in Seq(S)
    OBVIOUS
  <1>2. ASSUME NEW k \in DOMAIN Append(s, e)
        PROVE  Append(s, e)[k] \in Elements(s) \cup {e}
    BY <1>1 DEF Elements
  <1>3. ASSUME NEW k \in DOMAIN s
        PROVE  s[k] \in Elements(Append(s, e))
    <2>1. k \in DOMAIN Append(s, e) /\ Append(s, e)[k] = s[k]
      BY <1>1
    <2> QED
      BY <2>1 DEF Elements
  <1>4. e \in Elements(Append(s, e))
    <2>1. Len(s) + 1 \in DOMAIN Append(s, e)
      BY <1>1
    <2> QED
      BY <1>1, <2>1 DEF Elements
  <1>5. Elements(Append(s, e)) \subseteq Elements(s) \cup {e}
    BY <1>2 DEF Elements
  <1>6. Elements(s) \subseteq Elements(Append(s, e))
    BY <1>3 DEF Elements
  <1> QED
    BY <1>1, <1>4, <1>5, <1>6
=============================================================================
