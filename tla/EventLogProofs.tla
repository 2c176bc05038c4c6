--------------------------- MODULE EventLogProofs ---------------------------
(***************************************************************************)
(* Proofs about the transcript rebuilt from a log (Transcript), for every  *)
(* sequence of messages, and about sessions as logs (EventLog), for any    *)
(* sessions, logs, interrupts, turns, compactions, stops and forks.        *)
(***************************************************************************)
EXTENDS EventLog, Recursion, FiniteSetTheorems, SequenceTheorems

----------------------------------------------------------------------------
(* Places of a log as a sequence. *)

\* What InOrder returns for the first n places.
Enumerates(is, places, n) ==
  /\ is \in Seq(Nat)
  /\ \A k \in DOMAIN is : is[k] \in places /\ is[k] \in 1..n
  /\ \A i \in 1..n : i \in places => \E k \in DOMAIN is : is[k] = i
  /\ \A j, k \in DOMAIN is : j < k => is[j] < is[k]

LEMMA EnumeratesOneMore ==
  ASSUME NEW is, NEW places, NEW n \in Nat, Enumerates(is, places, n)
  PROVE  Enumerates(IF n + 1 \in places THEN Append(is, n + 1) ELSE is, places, n + 1)
<1>1. is \in Seq(Nat) /\ Len(is) \in Nat /\ DOMAIN is = 1..Len(is)
  BY DEF Enumerates
<1>2. CASE n + 1 \in places
  <2> DEFINE more == Append(is, n + 1)
  <2>1. more \in Seq(Nat) /\ DOMAIN more = 1..(Len(is) + 1) /\ more[Len(is) + 1] = n + 1
        /\ \A k \in 1..Len(is) : more[k] = is[k]
    BY <1>1
  <2> HIDE DEF more
  <2>2. \A k \in DOMAIN more : more[k] \in places /\ more[k] \in 1..(n + 1)
    <3> SUFFICES ASSUME NEW k \in 1..(Len(is) + 1) PROVE more[k] \in places /\ more[k] \in 1..(n + 1)
      BY <2>1
    <3>1. CASE k = Len(is) + 1
      BY <1>2, <2>1, <3>1
    <3>2. CASE k # Len(is) + 1
      <4>1. k \in 1..Len(is)
        BY <1>1, <3>2
      <4>2. is[k] \in places /\ is[k] \in 1..n
        BY <1>1, <4>1 DEF Enumerates
      <4> QED BY <2>1, <4>1, <4>2
    <3> QED BY <3>1, <3>2
  <2>3. ASSUME NEW i \in 1..(n + 1), i \in places PROVE \E k \in DOMAIN more : more[k] = i
    <3>1. CASE i = n + 1
      <4>1. Len(is) + 1 \in DOMAIN more
        BY <1>1, <2>1
      <4>2. more[Len(is) + 1] = i
        BY <2>1, <3>1
      <4> QED BY <4>1, <4>2
    <3>2. CASE i # n + 1
      <4>1. PICK k \in DOMAIN is : is[k] = i
        BY <2>3, <3>2 DEF Enumerates
      <4> QED
        BY <1>1, <2>1, <4>1
    <3> QED
      BY <3>1, <3>2
  <2>4. ASSUME NEW j \in DOMAIN more, NEW k \in DOMAIN more, j < k PROVE more[j] < more[k]
    <3>0. j \in 1..(Len(is) + 1) /\ k \in 1..(Len(is) + 1)
      BY <2>1
    <3>1. j \in 1..Len(is) /\ more[j] = is[j]
      <4>1. j \in 1..Len(is)
        BY <1>1, <2>4, <3>0
      <4> QED BY <2>1, <4>1
    <3>2. CASE k = Len(is) + 1
      <4>1. is[j] \in 1..n
        BY <1>1, <3>1 DEF Enumerates
      <4> QED
        BY <2>1, <3>1, <3>2, <4>1
    <3>3. CASE k # Len(is) + 1
      <4>1. k \in 1..Len(is)
        BY <1>1, <3>0, <3>3
      <4>2. more[k] = is[k]
        BY <2>1, <4>1
      <4>3. is[j] < is[k]
        BY <1>1, <2>4, <3>1, <4>1 DEF Enumerates
      <4> QED BY <3>1, <4>2, <4>3
    <3> QED
      BY <3>2, <3>3
  <2> QED
    BY <1>2, <2>1, <2>2, <2>3, <2>4 DEF Enumerates, more
<1>3. CASE n + 1 \notin places
  BY <1>1, <1>3 DEF Enumerates
<1> QED
  BY <1>2, <1>3

\* InOrder lists the given places of the log, each once, in the order of the log.
LEMMA InOrderEnumerates ==
  ASSUME NEW places, NEW l, Len(l) \in Nat
  PROVE  Enumerates(InOrder(places, l), places, Len(l))
<1> DEFINE Step(n, v) == IF n \in places THEN Append(v, n) ELSE v
           F(f) == [n \in 0..Len(l) |-> IF n = 0 THEN <<>> ELSE Step(n, f[n - 1])]
           N == [n \in 1..Len(l) |-> [v \in Seq(Nat) |-> Step(n, v)]]
<1>1. N \in [1..Len(l) -> [Seq(Nat) -> Seq(Nat)]]
  OBVIOUS
<1>2. PICK g \in [0..Len(l) -> Seq(Nat)] : g[0] = <<>> /\ \A n \in 1..Len(l) : g[n] = N[n][g[n - 1]]
  <2> DEFINE V == Seq(Nat)
             empty == <<>>
  <2>1. empty \in V /\ N \in [1..Len(l) -> [V -> V]]
    BY <1>1
  <2> HIDE DEF N, V, empty
  <2>2. N \in StepsOn(V, Len(l))
    BY <2>1 DEF StepsOn
  <2>3. PICK g : Unfolds(g, V, empty, Len(l), N)
    BY <2>1, <2>2, RecursiveFunction
  <2> QED
    BY <2>3 DEF V, empty, Unfolds
<1>3. g = F(g)
  <2>1. ASSUME NEW n \in 0..Len(l) PROVE g[n] = IF n = 0 THEN <<>> ELSE Step(n, g[n - 1])
    <3>1. CASE n = 0
      BY <1>2, <3>1
    <3>2. CASE n # 0
      <4>1. n \in 1..Len(l) /\ g[n - 1] \in Seq(Nat)
        BY <1>2, <3>2
      <4> QED
        BY <1>2, <3>2, <4>1
    <3> QED
      BY <3>1, <3>2
  <2> HIDE DEF Step
  <2> QED
    BY <1>2, <2>1
<1> DEFINE upto == CHOOSE f : f = F(f)
<1>4. upto = F(upto)
  <2> HIDE DEF F
  <2> QED
    BY <1>3
<1>5. InOrder(places, l) = upto[Len(l)]
  BY DEF InOrder
<1> HIDE DEF upto, Step
<1>6. \A n \in 0..Len(l) : upto[n] = IF n = 0 THEN <<>> ELSE Step(n, upto[n - 1])
  BY <1>4
<1> DEFINE S == {n \in Nat : n <= Len(l) => Enumerates(upto[n], places, n)}
<1>7. 0 \in S
  <2>1. upto[0] = <<>>
    BY <1>6
  <2>2. Enumerates(<<>>, places, 0)
    BY DEF Enumerates
  <2> QED
    BY <2>1, <2>2
<1>8. ASSUME NEW n \in Nat, n \in S PROVE n + 1 \in S
  <2> SUFFICES ASSUME n + 1 <= Len(l) PROVE Enumerates(upto[n + 1], places, n + 1)
    OBVIOUS
  <2>1. upto[n + 1] = Step(n + 1, upto[n])
    BY <1>6
  <2>2. Enumerates(upto[n], places, n)
    BY <1>8
  <2> QED
    BY <2>1, <2>2, EnumeratesOneMore DEF Step
<1>9. Nat \subseteq S
  <2> HIDE DEF S
  <2> QED
    BY <1>7, <1>8, SetInduction
<1> QED
  BY <1>5, <1>9

----------------------------------------------------------------------------
(* repair_transcript, for every sequence of messages. *)

CallIds == Nat \X Nat
Messages == [seq : Nat, role : {"user", "assistant", "tool"}, calls : Seq(CallIds), call : CallIds]

Heads(ms) == {i \in DOMAIN ms : ms[i].role # "tool"}
Tools(ms, i, e) == \A j \in (i + 1)..e : ms[j].role = "tool"
Answers(ms, i, e) == {ms[j].call : j \in (i + 1)..e}

\* The messages after i up to e are the results of i's calls, and no more results follow.
Complete(ms, i, e) ==
  /\ Tools(ms, i, e)
  /\ Answers(ms, i, e) = ToSet(ms[i].calls)
  /\ e - i = Len(ms[i].calls)
  /\ e = Len(ms) \/ ms[e + 1].role # "tool"

Whole(ms) ==
  /\ ms # <<>> => ms[1].role # "tool"
  /\ \A i \in Heads(ms) : \E e \in i..Len(ms) : Complete(ms, i, e)

\* What the loop of repair_transcript keeps: all but the last head are complete, and the
\* last one lacks the pending calls.
Repairing(out, pending) ==
  /\ out \in Seq(Messages)
  /\ pending \in Seq(CallIds)
  /\ out = <<>> => pending = <<>>
  /\ out # <<>> =>
       /\ out[1].role # "tool"
       /\ \E h \in Heads(out) :
            /\ Tools(out, h, Len(out))
            /\ Answers(out, h, Len(out)) \union ToSet(pending) = ToSet(out[h].calls)
            /\ Len(out) - h + Len(pending) = Len(out[h].calls)
            /\ \A i \in Heads(out) : i < h => \E e \in i..(h - 1) : Complete(out, i, e)

\* validate_transcript's blocks are the results that follow a head.
LEMMA WholeIsValid ==
  ASSUME NEW ms \in Seq(Messages), Whole(ms)
  PROVE  Valid(ms)
<1> DEFINE block(i) == {j \in DOMAIN ms : j > i /\ \A h \in Heads(ms) : h <= i \/ h > j}
<1>1. DOMAIN ms = 1..Len(ms) /\ Len(ms) \in Nat
  OBVIOUS
<1>2. ms # <<>> => 1 \in Heads(ms)
  BY <1>1 DEF Whole, Heads
<1>3. ASSUME NEW i \in Heads(ms)
      PROVE  {ms[j].call : j \in block(i)} = ToSet(ms[i].calls) /\ Cardinality(block(i)) = Len(ms[i].calls)
  <2>1. PICK e \in i..Len(ms) : Complete(ms, i, e)
    BY DEF Whole
  <2>2. i \in 1..Len(ms) /\ e \in Nat
    BY <1>1 DEF Heads
  <2>3. block(i) = (i + 1)..e
    <3>1. ASSUME NEW j \in (i + 1)..e PROVE j \in block(i)
      <4>1. j \in DOMAIN ms /\ j > i
        BY <1>1, <2>2
      <4>2. ASSUME NEW h \in Heads(ms), ~(h <= i), ~(h > j) PROVE FALSE
        <5>1. h \in (i + 1)..e
          BY <1>1, <2>2, <4>2 DEF Heads
        <5> QED
          BY <2>1, <5>1 DEF Complete, Tools, Heads
      <4>3. \A h \in Heads(ms) : h <= i \/ h > j
        BY <4>2
      <4> QED
        BY <4>1, <4>3
    <3>2. ASSUME NEW j \in block(i), j > e PROVE FALSE
      <4>1. j \in 1..Len(ms) /\ \A h \in Heads(ms) : h <= i \/ h > j
        BY <1>1
      <4>2. e + 1 \in 1..Len(ms) /\ e # Len(ms)
        <5> HIDE DEF block
        <5>1. j \in Nat /\ e \in Nat /\ Len(ms) \in Nat /\ j <= Len(ms) /\ e < j
          BY <1>1, <2>2, <3>2, <4>1
        <5>2. e + 1 <= Len(ms) /\ e # Len(ms) /\ 1 <= e + 1 /\ e + 1 \in Int
          BY <5>1
        <5> QED
          BY <5>1, <5>2
      <4>3. e + 1 \in Heads(ms)
        BY <1>1, <2>1, <4>2 DEF Complete, Heads
      <4> QED
        BY <2>2, <3>2, <4>1, <4>3
    <3> QED
      BY <1>1, <2>2, <3>1, <3>2
  <2>4. Cardinality((i + 1)..e) = e - i
    BY <2>2, FS_Interval
  <2> HIDE DEF block
  <2> QED
    BY <2>1, <2>3, <2>4 DEF Complete, Answers
<1> QED
  BY <1>2, <1>3 DEF Valid, Heads

\* A completed head stays so when the sequence goes on with another head.
LEMMA CompleteStays ==
  ASSUME NEW ms \in Seq(Messages), NEW more \in Seq(Messages), NEW i \in DOMAIN ms, NEW e \in i..Len(ms),
         Len(ms) <= Len(more), \A j \in 1..Len(ms) : more[j] = ms[j],
         Complete(ms, i, e), e = Len(ms) => e = Len(more) \/ more[e + 1].role # "tool"
  PROVE  Complete(more, i, e)
<1>1. i \in 1..Len(ms) /\ e \in 1..Len(ms) /\ more[i] = ms[i]
  OBVIOUS
<1>2. \A j \in (i + 1)..e : more[j] = ms[j]
  BY <1>1
<1>3. Tools(more, i, e) /\ Answers(more, i, e) = Answers(ms, i, e)
  <2>1. Tools(ms, i, e)
    BY DEF Complete
  <2>2. Tools(more, i, e)
    BY <1>2, <2>1 DEF Tools
  <2>3. Answers(more, i, e) = Answers(ms, i, e)
    BY <1>2 DEF Answers
  <2> QED BY <2>2, <2>3
<1>4. e # Len(ms) => more[e + 1] = ms[e + 1]
  BY <1>1
<1> QED
  BY <1>1, <1>3, <1>4 DEF Complete

\* flush: the fillers answer what is pending.
LEMMA FlushIsWhole ==
  ASSUME NEW out, NEW pending, Repairing(out, pending)
  PROVE  LET flushed == Flush([out |-> out, pending |-> pending])
         IN flushed.out \in Seq(Messages) /\ flushed.pending = <<>> /\ Whole(flushed.out)
<1> DEFINE fillers == [k \in DOMAIN pending |-> Filler(pending[k])]
           all == out \o fillers
<1>1. out \in Seq(Messages) /\ pending \in Seq(CallIds)
  BY DEF Repairing
<1>2. \A c \in CallIds : Filler(c) \in Messages /\ Filler(c).role = "tool" /\ Filler(c).call = c
  BY DEF Filler, Message, Messages, NoSeq, CallIds
<1>3. fillers \in Seq(Messages) /\ Len(fillers) = Len(pending)
      /\ \A k \in 1..Len(pending) : fillers[k].role = "tool" /\ fillers[k].call = pending[k]
  BY <1>1, <1>2
<1>4. Flush([out |-> out, pending |-> pending]) = [out |-> all, pending |-> <<>>]
  BY DEF Flush
<1> HIDE DEF fillers
<1>5. /\ all \in Seq(Messages) /\ Len(all) = Len(out) + Len(pending)
      /\ \A j \in 1..Len(out) : all[j] = out[j]
      /\ \A j \in (Len(out) + 1)..Len(all) : all[j] = fillers[j - Len(out)]
  <2>1. all \in Seq(Messages) /\ Len(all) = Len(out) + Len(pending) /\ Len(out) \in Nat /\ Len(pending) \in Nat
    <3>1. Len(out) \in Nat /\ Len(pending) \in Nat /\ out \in Seq(Messages) /\ fillers \in Seq(Messages)
      BY <1>1, <1>3
    <3>2. all \in Seq(Messages) /\ Len(all) = Len(out) + Len(fillers)
      BY <3>1
    <3> QED BY <1>3, <3>1, <3>2
  <2>2. \A j \in 1..(Len(out) + Len(pending)) :
          all[j] = IF j <= Len(out) THEN out[j] ELSE fillers[j - Len(out)]
    BY <1>1, <1>3
  <2> HIDE DEF all
  <2> QED
    BY <2>1, <2>2
<1>6. \A j \in (Len(out) + 1)..Len(all) : all[j].role = "tool" /\ all[j].call = pending[j - Len(out)]
  BY <1>1, <1>3, <1>5
<1> HIDE DEF all
<1>7. Whole(all)
  <2>1. CASE out = <<>>
    <3>1. pending = <<>>
      BY <2>1 DEF Repairing
    <3>2. Len(all) = 0 /\ all = <<>>
      BY <1>5, <2>1, <3>1
    <3> QED
      BY <3>2 DEF Whole, Heads
  <2>2. CASE out # <<>>
    <3>1. PICK h \in Heads(out) :
            /\ Tools(out, h, Len(out))
            /\ Answers(out, h, Len(out)) \union ToSet(pending) = ToSet(out[h].calls)
            /\ Len(out) - h + Len(pending) = Len(out[h].calls)
            /\ \A i \in Heads(out) : i < h => \E e \in i..(h - 1) : Complete(out, i, e)
      BY <2>2 DEF Repairing
    <3>2. h \in 1..Len(out) /\ Len(out) \in Nat /\ Len(pending) \in Nat /\ all[h] = out[h]
      BY <1>1, <1>5 DEF Heads
    <3>3. Complete(all, h, Len(all))
      <4>1. Tools(all, h, Len(all))
        <5> SUFFICES ASSUME NEW j \in (h + 1)..Len(all) PROVE all[j].role = "tool"
          BY DEF Tools
        <5>1. CASE j <= Len(out)
          <6>1. j \in (h + 1)..Len(out) /\ j \in 1..Len(out)
            BY <1>5, <3>2, <5>1
          <6> QED BY <1>5, <3>1, <6>1 DEF Tools
        <5>2. CASE j > Len(out)
          <6>1. j \in (Len(out) + 1)..Len(all)
            BY <1>5, <3>2, <5>2
          <6> QED BY <1>6, <6>1
        <5> QED BY <1>5, <3>2, <5>1, <5>2
      <4>2. Answers(all, h, Len(all)) = Answers(out, h, Len(out)) \union ToSet(pending)
        <5>1. ASSUME NEW j \in (h + 1)..Len(all)
              PROVE  all[j].call \in Answers(out, h, Len(out)) \union ToSet(pending)
          <6>1. CASE j <= Len(out)
            BY <1>5, <3>2, <6>1 DEF Answers
          <6>2. CASE j > Len(out)
            <7>1. j - Len(out) \in DOMAIN pending
              BY <1>1, <1>5, <3>2, <6>2
            <7>2. all[j].call = pending[j - Len(out)]
              BY <1>5, <1>6, <3>2, <6>2
            <7> QED
              BY <7>1, <7>2 DEF ToSet
          <6> QED
            BY <3>2, <6>1, <6>2
        <5>2. ASSUME NEW j \in (h + 1)..Len(out) PROVE out[j].call \in Answers(all, h, Len(all))
          <6>1. j \in (h + 1)..Len(all) /\ all[j] = out[j]
            BY <1>5, <3>2
          <6> QED
            BY <6>1 DEF Answers
        <5>3. ASSUME NEW k \in DOMAIN pending PROVE pending[k] \in Answers(all, h, Len(all))
          <6>1. k \in 1..Len(pending) /\ Len(out) + k \in (h + 1)..Len(all)
                /\ Len(out) + k \in (Len(out) + 1)..Len(all) /\ (Len(out) + k) - Len(out) = k
            BY <1>1, <1>5, <3>2
          <6>2. all[Len(out) + k].call = pending[k]
            BY <1>6, <6>1
          <6> QED
            BY <6>1, <6>2 DEF Answers
        <5> QED
          BY <5>1, <5>2, <5>3 DEF Answers, ToSet
      <4>3. Answers(all, h, Len(all)) = ToSet(all[h].calls)
        BY <3>1, <3>2, <4>2
      <4>4. Len(all) - h = Len(all[h].calls)
        BY <1>5, <3>1, <3>2
      <4> QED
        BY <4>1, <4>3, <4>4 DEF Complete
    <3>4. ASSUME NEW i \in Heads(all) PROVE \E e \in i..Len(all) : Complete(all, i, e)
      <4>1. i \in 1..Len(out) /\ all[i] = out[i] /\ i \in Heads(out)
        BY <1>5, <1>6, <3>2 DEF Heads
      <4>2. CASE i = h
        BY <1>5, <3>2, <3>3, <4>2
      <4>3. CASE i < h
        <5>1. PICK e \in i..(h - 1) : Complete(out, i, e)
          BY <3>1, <4>1, <4>3
        <5>2. e \in i..Len(out) /\ e # Len(out) /\ e \in i..Len(all)
          BY <1>5, <3>2, <4>1
        <5>3. i \in DOMAIN out /\ Len(out) <= Len(all)
          BY <1>5, <3>2, <4>1 DEF Heads
        <5>4. Complete(all, i, e)
          BY <1>1, <1>5, <5>1, <5>2, <5>3, CompleteStays
        <5> QED
          BY <5>2, <5>4
      <4>4. CASE i > h
        BY <3>1, <3>2, <4>1, <4>4 DEF Tools, Heads
      <4> QED
        BY <3>2, <4>1, <4>2, <4>3, <4>4
    <3>5. all[1].role # "tool"
      <4>1. out[1].role # "tool"
        BY <2>2 DEF Repairing
      <4>2. 1 \in 1..Len(out)
        BY <3>2
      <4> QED BY <1>5, <4>1, <4>2
    <3> QED
      BY <3>4, <3>5 DEF Whole
  <2> QED
    BY <2>1, <2>2
<1> QED
  BY <1>4, <1>5, <1>7

\* Removing an element that is there makes the sequence shorter by it.
LEMMA RemoveFirstRemoves ==
  ASSUME NEW s \in Seq(CallIds), NEW c, Contains(s, c)
  PROVE  /\ RemoveFirst(s, c) \in Seq(CallIds)
         /\ Len(RemoveFirst(s, c)) = Len(s) - 1
         /\ ToSet(s) = ToSet(RemoveFirst(s, c)) \union {c}
<1> DEFINE I == {i \in 1..Len(s) : s[i] = c}
           k == Min(I)
           r == RemoveFirst(s, c)
<1>1. Len(s) \in Nat /\ DOMAIN s = 1..Len(s) /\ I \subseteq Nat /\ I # {}
  BY DEF Contains
<1>2. k \in I
  <2> HIDE DEF I
  <2>1. \E n \in I : \A m \in I : n <= m
    BY <1>1, LeastNumber
  <2> QED
    BY <2>1 DEF Min
<1>3. r = SubSeq(s, 1, k - 1) \o SubSeq(s, k + 1, Len(s))
  BY <1>1 DEF RemoveFirst, SelectInSeq, RemoveAt
<1>4. k \in 1..Len(s) /\ s[k] = c
  BY <1>2
<1> HIDE DEF I, k, r
<1>5. /\ SubSeq(s, 1, k - 1) \in Seq(CallIds) /\ Len(SubSeq(s, 1, k - 1)) = k - 1
      /\ \A j \in 1..(k - 1) : SubSeq(s, 1, k - 1)[j] = s[j]
  BY <1>1, <1>4
<1>6. /\ SubSeq(s, k + 1, Len(s)) \in Seq(CallIds) /\ Len(SubSeq(s, k + 1, Len(s))) = Len(s) - k
      /\ \A j \in 1..(Len(s) - k) : SubSeq(s, k + 1, Len(s))[j] = s[k + j]
  <2>1. k + 1 \in Int /\ Len(s) \in Int /\ \A i \in (k + 1)..Len(s) : s[i] \in CallIds
    BY <1>1, <1>4
  <2> DEFINE back == SubSeq(s, k + 1, Len(s))
  <2>2. /\ back \in Seq(CallIds) /\ Len(back) = IF k + 1 <= Len(s) THEN Len(s) - (k + 1) + 1 ELSE 0
        /\ \A j \in 1..(Len(s) - (k + 1) + 1) : back[j] = s[(k + 1) + j - 1]
    BY <2>1, SubSeqProperties
  <2> HIDE DEF back
  <2>3. \A j \in 1..(Len(s) - k) : back[j] = s[k + j]
    <3> SUFFICES ASSUME NEW j \in 1..(Len(s) - k) PROVE back[j] = s[k + j]
      OBVIOUS
    <3>1. j \in 1..(Len(s) - (k + 1) + 1) /\ (k + 1) + j - 1 = k + j
      BY <1>1, <1>4
    <3> QED
      BY <2>2, <3>1
  <2>4. Len(back) = Len(s) - k
    <3>1. Len(s) \in Nat /\ k \in Nat /\ k <= Len(s)
      BY <1>1, <1>4
    <3>2. Len(back) = IF k + 1 <= Len(s) THEN Len(s) - (k + 1) + 1 ELSE 0
      BY <2>2
    <3>3. CASE k + 1 <= Len(s)
      BY <3>1, <3>2, <3>3
    <3>4. CASE ~(k + 1 <= Len(s))
      <4>1. k = Len(s)
        BY <3>1, <3>4
      <4> QED
        BY <3>1, <3>2, <3>4, <4>1
    <3> QED
      BY <3>3, <3>4
  <2> QED
    BY <2>2, <2>3, <2>4 DEF back
<1>7. r \in Seq(CallIds) /\ Len(r) = Len(s) - 1
  <2> DEFINE front == SubSeq(s, 1, k - 1)
             back == SubSeq(s, k + 1, Len(s))
  <2>1. front \in Seq(CallIds) /\ back \in Seq(CallIds) /\ Len(front) = k - 1 /\ Len(back) = Len(s) - k
    BY <1>5, <1>6
  <2> HIDE DEF front, back
  <2>2. front \o back \in Seq(CallIds) /\ Len(front \o back) = Len(front) + Len(back)
    BY <2>1, ConcatProperties
  <2>3. Len(front) + Len(back) = Len(s) - 1
    BY <1>1, <1>4, <2>1
  <2> QED
    BY <1>3, <2>2, <2>3 DEF front, back
<1>8. \A j \in 1..(Len(s) - 1) : r[j] = IF j < k THEN s[j] ELSE s[j + 1]
  <2> DEFINE front == SubSeq(s, 1, k - 1)
             back == SubSeq(s, k + 1, Len(s))
  <2>1. /\ front \in Seq(CallIds) /\ back \in Seq(CallIds) /\ Len(front) = k - 1 /\ Len(back) = Len(s) - k
        /\ \A j \in 1..(k - 1) : front[j] = s[j]
        /\ \A j \in 1..(Len(s) - k) : back[j] = s[k + j]
    BY <1>5, <1>6
  <2> HIDE DEF front, back
  <2>2. ASSUME NEW j \in 1..(Len(s) - 1) PROVE (front \o back)[j] = IF j < k THEN s[j] ELSE s[j + 1]
    <3>1. (front \o back)[j] = IF j <= k - 1 THEN front[j] ELSE back[j - (k - 1)]
      BY <1>1, <1>4, <2>1
    <3>2. CASE j < k
      BY <1>1, <1>4, <2>1, <3>1, <3>2
    <3>3. CASE ~(j < k)
      <4>1. j - (k - 1) \in 1..(Len(s) - k) /\ k + (j - (k - 1)) = j + 1 /\ ~(j <= k - 1)
        BY <1>1, <1>4, <3>3
      <4>2. back[j - (k - 1)] = s[j + 1]
        BY <2>1, <4>1
      <4> QED
        BY <3>1, <3>3, <4>1, <4>2
    <3> QED
      BY <3>2, <3>3
  <2> QED
    BY <1>3, <2>2 DEF front, back
<1>9. ToSet(s) = ToSet(r) \union {c}
  <2>1. DOMAIN r = 1..(Len(s) - 1)
    BY <1>7
  <2>2. ASSUME NEW j \in 1..(Len(s) - 1) PROVE r[j] \in ToSet(s)
    <3>1. j \in 1..Len(s) /\ j + 1 \in 1..Len(s) /\ DOMAIN s = 1..Len(s)
      BY <1>1, <1>4
    <3>2. s[j] \in ToSet(s) /\ s[j + 1] \in ToSet(s)
      BY <3>1 DEF ToSet
    <3> QED
      BY <1>8, <3>2
  <2>3. ASSUME NEW i \in 1..Len(s), i # k PROVE s[i] \in ToSet(r)
    <3>1. CASE i < k
      BY <1>1, <1>4, <1>8, <2>1, <3>1 DEF ToSet
    <3>2. CASE i > k
      <4>1. i - 1 \in 1..(Len(s) - 1) /\ ~(i - 1 < k) /\ (i - 1) + 1 = i
        BY <1>1, <1>4, <3>2
      <4>2. r[i - 1] = s[i]
        BY <1>8, <4>1
      <4> QED
        BY <2>1, <4>1, <4>2 DEF ToSet
    <3> QED
      BY <1>4, <2>3, <3>1, <3>2
  <2>4. c \in ToSet(s)
    BY <1>1, <1>4 DEF ToSet
  <2>5. ToSet(r) \subseteq ToSet(s)
    BY <2>1, <2>2 DEF ToSet
  <2>6. ToSet(s) \subseteq ToSet(r) \union {c}
    BY <1>1, <1>4, <2>3 DEF ToSet
  <2> QED
    BY <2>4, <2>5, <2>6
<1> QED
  BY <1>7, <1>9 DEF r

\* One more result, of a call that is pending.
LEMMA ResultKeeps ==
  ASSUME NEW out, NEW pending, Repairing(out, pending), NEW m \in Messages,
         m.role = "tool", Contains(pending, m.call)
  PROVE  Repairing(Append(out, m), RemoveFirst(pending, m.call))
<1> DEFINE more == Append(out, m)
           rest == RemoveFirst(pending, m.call)
<1>1. out \in Seq(Messages) /\ pending \in Seq(CallIds) /\ Len(out) \in Nat /\ Len(pending) \in Nat
  BY DEF Repairing
<1>2. rest \in Seq(CallIds) /\ Len(rest) = Len(pending) - 1 /\ ToSet(pending) = ToSet(rest) \union {m.call}
  BY <1>1, RemoveFirstRemoves
<1>3. more \in Seq(Messages) /\ Len(more) = Len(out) + 1 /\ more[Len(out) + 1] = m
      /\ \A j \in 1..Len(out) : more[j] = out[j]
  BY <1>1
<1>4. out # <<>> /\ more # <<>>
  <2>1. pending # <<>>
    BY <1>1 DEF Contains
  <2>2. out # <<>>
    BY <2>1 DEF Repairing
  <2>3. Len(more) # 0
    BY <1>1, <1>3
  <2> QED
    BY <2>2, <2>3
<1> HIDE DEF more, rest
<1>5. PICK h \in Heads(out) :
        /\ Tools(out, h, Len(out))
        /\ Answers(out, h, Len(out)) \union ToSet(pending) = ToSet(out[h].calls)
        /\ Len(out) - h + Len(pending) = Len(out[h].calls)
        /\ \A i \in Heads(out) : i < h => \E e \in i..(h - 1) : Complete(out, i, e)
  BY <1>4 DEF Repairing
<1>6. h \in 1..Len(out) /\ more[h] = out[h] /\ h \in Heads(more)
  BY <1>1, <1>3 DEF Heads
<1>7. Tools(more, h, Len(more))
  <2>1. ASSUME NEW j \in (h + 1)..Len(more) PROVE more[j].role = "tool"
    <3>1. CASE j = Len(out) + 1
      BY <1>3, <3>1
    <3>2. CASE j # Len(out) + 1
      <4>1. j \in (h + 1)..Len(out) /\ j \in 1..Len(out)
        BY <1>1, <1>3, <1>6, <3>2
      <4> QED
        BY <1>3, <1>5, <4>1 DEF Tools
    <3> QED
      BY <3>1, <3>2
  <2> QED
    BY <2>1 DEF Tools
<1>8. Answers(more, h, Len(more)) = Answers(out, h, Len(out)) \union {m.call}
  <2>1. (h + 1)..Len(more) = ((h + 1)..Len(out)) \union {Len(out) + 1}
    <3> DEFINE a == h + 1
               b == Len(out)
    <3>1. a \in Int /\ b \in Int /\ a <= b + 1 /\ Len(more) = b + 1
      BY <1>1, <1>3, <1>6
    <3> HIDE DEF a, b
    <3>2. a..(b + 1) = (a..b) \union {b + 1}
      BY <3>1
    <3> QED BY <3>1, <3>2 DEF a, b
  <2>2. \A j \in (h + 1)..Len(out) : more[j] = out[j]
    BY <1>1, <1>3, <1>6
  <2> QED
    BY <1>3, <2>1, <2>2 DEF Answers
<1>9. Answers(more, h, Len(more)) \union ToSet(rest) = ToSet(more[h].calls)
  BY <1>2, <1>5, <1>6, <1>8
<1>10. Len(more) - h + Len(rest) = Len(more[h].calls)
  BY <1>1, <1>2, <1>3, <1>5, <1>6
<1>11. ASSUME NEW i \in Heads(more), i < h PROVE \E e \in i..(h - 1) : Complete(more, i, e)
  <2>1. i \in 1..Len(out) /\ i \in Heads(out) /\ i \in DOMAIN out
    BY <1>1, <1>3, <1>6, <1>11 DEF Heads
  <2>2. PICK e \in i..(h - 1) : Complete(out, i, e)
    BY <1>5, <1>11, <2>1
  <2>3. e \in i..Len(out) /\ e # Len(out) /\ Len(out) <= Len(more)
    BY <1>1, <1>3, <1>6, <2>1
  <2>4. Complete(more, i, e)
    BY <1>1, <1>3, <2>1, <2>2, <2>3, CompleteStays
  <2> QED
    BY <2>4
<1>12. more[1].role # "tool"
  BY <1>1, <1>3, <1>4, <1>6 DEF Repairing
<1> QED
  BY <1>2, <1>3, <1>4, <1>6, <1>7, <1>9, <1>10, <1>11, <1>12 DEF Repairing, more, rest

\* A message that is no result: what is pending is filled first, then the message is the last head.
LEMMA HeadKeeps ==
  ASSUME NEW out, NEW pending, Repairing(out, pending), NEW m \in Messages, m.role # "tool"
  PROVE  Repairing(Append(Flush([out |-> out, pending |-> pending]).out, m), m.calls)
<1> DEFINE flushed == Flush([out |-> out, pending |-> pending]).out
           more == Append(flushed, m)
<1>1. flushed \in Seq(Messages) /\ Whole(flushed)
  BY FlushIsWhole
<1> HIDE DEF flushed
<1>2. m.calls \in Seq(CallIds) /\ Len(m.calls) \in Nat /\ Len(flushed) \in Nat
  BY <1>1 DEF Messages
<1>3. more \in Seq(Messages) /\ Len(more) = Len(flushed) + 1 /\ more[Len(flushed) + 1] = m
      /\ \A j \in 1..Len(flushed) : more[j] = flushed[j]
  BY <1>1
<1> HIDE DEF more
<1> DEFINE h == Len(flushed) + 1
<1>4. h \in Heads(more) /\ more # <<>>
  BY <1>2, <1>3 DEF Heads
<1>5. (h + 1)..Len(more) = {}
  BY <1>2, <1>3
<1>6. Tools(more, h, Len(more)) /\ Answers(more, h, Len(more)) = {}
  BY <1>5 DEF Tools, Answers
<1>7. Answers(more, h, Len(more)) \union ToSet(m.calls) = ToSet(more[h].calls)
  BY <1>3, <1>6
<1>8. Len(more) - h + Len(m.calls) = Len(more[h].calls)
  BY <1>2, <1>3
<1>9. ASSUME NEW i \in Heads(more), i < h PROVE \E e \in i..(h - 1) : Complete(more, i, e)
  <2>1. i \in 1..Len(flushed) /\ i \in Heads(flushed) /\ i \in DOMAIN flushed
    BY <1>1, <1>2, <1>3, <1>9 DEF Heads
  <2>2. PICK e \in i..Len(flushed) : Complete(flushed, i, e)
    BY <1>1, <2>1 DEF Whole
  <2>3. e = Len(flushed) => more[e + 1].role # "tool"
    BY <1>3
  <2>4. Complete(more, i, e)
    BY <1>1, <1>2, <1>3, <2>1, <2>2, <2>3, CompleteStays
  <2>5. e \in i..(h - 1)
    BY <1>2
  <2> QED
    BY <2>4, <2>5
<1>10. more[1].role # "tool"
  <2>1. CASE flushed = <<>>
    <3>1. Len(flushed) = 0
      BY <2>1
    <3> QED
      BY <1>3, <3>1
  <2>2. CASE flushed # <<>>
    <3>1. 1 \in 1..Len(flushed)
      BY <1>1, <2>2
    <3> QED
      BY <1>1, <1>3, <2>2, <3>1 DEF Whole
  <2> QED
    BY <2>1, <2>2
<1> HIDE DEF h
<1>11. Repairing(more, m.calls)
  BY <1>2, <1>3, <1>4, <1>6, <1>7, <1>8, <1>9, <1>10 DEF Repairing
<1> QED
  BY <1>11 DEF more, flushed

Repairs == {acc \in [out : Seq(Messages), pending : Seq(CallIds)] : Repairing(acc.out, acc.pending)}

LEMMA RepairsMade ==
  ASSUME NEW out, NEW pending, Repairing(out, pending)
  PROVE  [out |-> out, pending |-> pending] \in Repairs
<1>1. out \in Seq(Messages) /\ pending \in Seq(CallIds)
  BY DEF Repairing
<1> QED
  BY <1>1 DEF Repairs

LEMMA StepKeeps ==
  ASSUME NEW acc \in Repairs, NEW m \in Messages
  PROVE  RepairStep(acc, m) \in Repairs
<1>1. acc = [out |-> acc.out, pending |-> acc.pending] /\ Repairing(acc.out, acc.pending)
  BY DEF Repairs
<1>2. CASE m.role = "tool" /\ Contains(acc.pending, m.call)
  <2>1. RepairStep(acc, m) = [out |-> Append(acc.out, m), pending |-> RemoveFirst(acc.pending, m.call)]
    BY <1>2 DEF RepairStep
  <2>2. Repairing(Append(acc.out, m), RemoveFirst(acc.pending, m.call))
    BY <1>1, <1>2, ResultKeeps
  <2> QED
    BY <2>1, <2>2, RepairsMade
<1>3. CASE m.role = "tool" /\ ~Contains(acc.pending, m.call)
  BY <1>3 DEF RepairStep
<1>4. CASE m.role # "tool"
  <2>1. RepairStep(acc, m) = [out |-> Append(Flush(acc).out, m), pending |-> m.calls]
    BY <1>4 DEF RepairStep
  <2>2. Repairing(Append(Flush(acc).out, m), m.calls)
    BY <1>1, <1>4, HeadKeeps
  <2> QED
    BY <2>1, <2>2, RepairsMade
<1> QED
  BY <1>2, <1>3, <1>4

\* The loop of repair_transcript as a sequence of states.
LEMMA RepairRuns ==
  ASSUME NEW ms \in Seq(Messages)
  PROVE  \E acc \in [0..Len(ms) -> Repairs] :
           /\ acc[0] = [out |-> <<>>, pending |-> <<>>]
           /\ \A n \in 1..Len(ms) : acc[n] = RepairStep(acc[n - 1], ms[n])
           /\ RepairTranscript(ms) = Flush(acc[Len(ms)]).out
<1> DEFINE start == [out |-> <<>>, pending |-> <<>>]
           F(f) == [n \in 0..Len(ms) |-> IF n = 0 THEN start ELSE RepairStep(f[n - 1], ms[n])]
           N == [n \in 1..Len(ms) |-> [acc \in Repairs |-> RepairStep(acc, ms[n])]]
           after == CHOOSE f : f = F(f)
<1>1. Len(ms) \in Nat /\ \A n \in 1..Len(ms) : ms[n] \in Messages
  OBVIOUS
<1>2. start \in Repairs
  <2>1. Repairing(<<>>, <<>>)
    BY DEF Repairing
  <2> QED
    BY <2>1, RepairsMade
<1>3. N \in [1..Len(ms) -> [Repairs -> Repairs]]
  BY <1>1, StepKeeps
<1>4. PICK g \in [0..Len(ms) -> Repairs] : g[0] = start /\ \A n \in 1..Len(ms) : g[n] = N[n][g[n - 1]]
  <2> DEFINE len == Len(ms)
  <2>1. len \in Nat /\ N \in [1..len -> [Repairs -> Repairs]]
    BY <1>1, <1>3
  <2> HIDE DEF N, start, len
  <2>2. N \in StepsOn(Repairs, len)
    BY <2>1 DEF StepsOn
  <2>3. PICK g : Unfolds(g, Repairs, start, len, N)
    BY <1>2, <2>1, <2>2, RecursiveFunction
  <2> QED
    BY <2>3 DEF len, Unfolds
<1> HIDE DEF start
<1>5. g = F(g)
  <2>1. ASSUME NEW n \in 0..Len(ms) PROVE g[n] = IF n = 0 THEN start ELSE RepairStep(g[n - 1], ms[n])
    <3>1. CASE n = 0
      BY <1>4, <3>1
    <3>2. CASE n # 0
      <4>1. n \in 1..Len(ms) /\ g[n - 1] \in Repairs
        BY <1>1, <1>4, <3>2
      <4> QED
        BY <1>4, <3>2, <4>1
    <3> QED
      BY <3>1, <3>2
  <2> HIDE DEF N
  <2> QED
    BY <1>4, <2>1
<1>6. after = F(after)
  <2> HIDE DEF F
  <2> QED
    BY <1>5
<1>7. RepairTranscript(ms) = Flush(after[Len(ms)]).out
  BY DEF RepairTranscript, start
<1> HIDE DEF after
<1>8. \A n \in 0..Len(ms) : after[n] = IF n = 0 THEN start ELSE RepairStep(after[n - 1], ms[n])
  BY <1>6
<1>9. \A n \in 1..Len(ms) : after[n] = RepairStep(after[n - 1], ms[n])
  BY <1>1, <1>8
<1>10. after[0] = start /\ DOMAIN after = 0..Len(ms) /\ after = [n \in 0..Len(ms) |-> after[n]]
  <2>1. after[0] = start
    BY <1>1, <1>8
  <2> DEFINE G(n) == IF n = 0 THEN start ELSE RepairStep(after[n - 1], ms[n])
  <2>2. after = [n \in 0..Len(ms) |-> G(n)]
    BY <1>6
  <2> HIDE DEF G
  <2>3. DOMAIN after = 0..Len(ms) /\ after = [n \in 0..Len(ms) |-> after[n]]
    BY <2>2
  <2> QED
    BY <2>1, <2>3
<1>11. \A n \in 0..Len(ms) : after[n] \in Repairs
  <2>1. \A n \in 1..Len(ms) : after[n - 1] \in Repairs => after[n] = N[n][after[n - 1]]
    BY <1>1, <1>9
  <2>2. after[0] \in Repairs
    BY <1>2, <1>10
  <2> HIDE DEF N
  <2> QED
    BY <1>1, <1>3, <2>1, <2>2, RecursiveValues
<1>12. after \in [0..Len(ms) -> Repairs]
  BY <1>10, <1>11
<1> QED
  BY <1>7, <1>9, <1>10, <1>12 DEF start

\* repair_transcript makes every sequence of messages one that validate_transcript accepts.
THEOREM RepairedIsValid ==
  ASSUME NEW ms \in Seq(Messages)
  PROVE  RepairTranscript(ms) \in Seq(Messages) /\ Valid(RepairTranscript(ms))
<1>1. PICK acc \in [0..Len(ms) -> Repairs] : RepairTranscript(ms) = Flush(acc[Len(ms)]).out
  BY RepairRuns
<1>2. acc[Len(ms)] \in Repairs
  <2>1. Len(ms) \in Nat
    OBVIOUS
  <2> DEFINE len == Len(ms)
  <2> HIDE DEF len
  <2>2. len \in 0..len /\ acc \in [0..len -> Repairs]
    BY <1>1, <2>1 DEF len
  <2> QED
    BY <2>2 DEF len
<1> DEFINE final == acc[Len(ms)]
<1>3. final \in Repairs /\ RepairTranscript(ms) = Flush(final).out
  BY <1>1, <1>2
<1> HIDE DEF final
<1>4. final = [out |-> final.out, pending |-> final.pending] /\ Repairing(final.out, final.pending)
  BY <1>3 DEF Repairs
<1>5. Flush(final).out \in Seq(Messages) /\ Whole(Flush(final).out)
  BY <1>4, FlushIsWhole
<1> QED
  BY <1>3, <1>5, WholeIsValid

----------------------------------------------------------------------------
(* The logs of the sessions: their types. *)

Compactions == [type : {"compaction"}, summary : BOOLEAN, firstKept : Nat,
                pinned : SUBSET Nat, pruned : SUBSET CallIds]

Events ==
  [type : {"user_msg"}, queuedId : Sessions \X Nat]
    \union [type : {"assistant_msg"}, calls : Seq(CallIds)]
    \union [type : {"tool_result"}, call : CallIds]
    \union [type : {"interrupt_queued"}]
    \union Compactions

Working == Prompting \union {"answered", "calling"}
Places == AtRest \union Working \union {"top", "draining", "copying"}

TypeInv ==
  /\ log \in [Sessions -> Seq(Events)]
  /\ pc \in [Sessions -> Places]
  /\ todo \in [Sessions -> Seq(Nat)]
  /\ open \in [Sessions -> Seq(CallIds)]
  /\ fork \in [Sessions -> [from : Sessions, upto : Nat]]
  /\ listed \in [Sessions -> Nat]
  /\ \A s \in Sessions : pc[s] = "calling" => open[s] # <<>>

(* What the logs have said and what they still owe. *)

Said(l) == {i \in DOMAIN l : Is("user_msg", l[i]) /\ l[i].queuedId # NoId}
Left(s, l) == {i \in Queued(l) : EventId(s, i) \notin Consumed(l)}

\* A session that does not exist has no events, and a fork that is being copied is a
\* prefix of its source, however that one goes on.
CopiesArePrefixes ==
  \A t \in Sessions :
    /\ pc[t] = "absent" => log[t] = <<>>
    /\ pc[t] = "copying" =>
         /\ fork[t].from # t
         /\ fork[t].upto <= Len(log[fork[t].from])
         /\ Len(log[t]) <= fork[t].upto
         /\ \A i \in 1..Len(log[t]) : log[t][i] = log[fork[t].from][i]

\* A message that names a queued event names one that was queued before, of a session
\* that has begun.
NamesStand ==
  \A s \in Sessions : \A i \in Said(log[s]) :
    LET id == log[s][i].queuedId IN
    /\ pc[id[1]] \notin {"absent", "copying"}
    /\ id[2] \in 1..Len(log[id[1]])
    /\ id[1] = s => id[2] < i

\* The messages that name events of one session name them in their order.
Ordered(l) ==
  \A i, j \in Said(l) :
    j < i /\ l[j].queuedId[1] = l[i].queuedId[1] => l[j].queuedId[2] < l[i].queuedId[2]

\* What a session still owes came after what it has delivered.
OldestFirst(s, l) ==
  \A i \in Said(l), u \in Left(s, l) : l[i].queuedId[1] = s => l[i].queuedId[2] < u

\* What a drain has still to deliver is what was queued when it read the log.
Drains(s) ==
  /\ listed[s] <= Len(log[s])
  /\ pc[s] = "draining" => Enumerates(todo[s], Left(s, log[s]), listed[s])
  /\ pc[s] \in Working => \A u \in Left(s, log[s]) : u > listed[s]

LogInv ==
  /\ CopiesArePrefixes
  /\ NamesStand
  /\ \A s \in Sessions : Ordered(log[s]) /\ OldestFirst(s, log[s]) /\ Drains(s)

EventLogInv == TypeInv /\ LogInv

LEMMA EventKinds ==
  ASSUME NEW e \in Events
  PROVE  /\ Is("user_msg", e) => e.queuedId \in Sessions \X Nat
         /\ Is("assistant_msg", e) => e.calls \in Seq(CallIds)
         /\ Is("tool_result", e) => e.call \in CallIds
         /\ Is("compaction", e) => e.pruned \subseteq CallIds
BY DEF Events, Compactions, Is

\* An event more at the end of a log.
LEMMA OneMore ==
  ASSUME NEW l \in Seq(Events), NEW e \in Events
  PROVE  /\ Append(l, e) \in Seq(Events)
         /\ Len(l) \in Nat /\ DOMAIN l = 1..Len(l)
         /\ Len(Append(l, e)) = Len(l) + 1 /\ DOMAIN Append(l, e) = 1..(Len(l) + 1)
         /\ Append(l, e)[Len(l) + 1] = e
         /\ \A i \in 1..Len(l) : Append(l, e)[i] = l[i] /\ l[i] \in Events
OBVIOUS

\* An event that neither queues anything nor says what was queued.
Quiet(e) == ~Is("interrupt_queued", e) /\ (Is("user_msg", e) => e.queuedId = NoId)

LEMMA QuietAppend ==
  ASSUME NEW s \in Sessions, NEW l \in Seq(Events), NEW e \in Events, Quiet(e)
  PROVE  Said(Append(l, e)) = Said(l) /\ Left(s, Append(l, e)) = Left(s, l)
<1> DEFINE m == Append(l, e)
<1>1. /\ DOMAIN l = 1..Len(l) /\ DOMAIN m = 1..(Len(l) + 1) /\ Len(l) \in Nat
      /\ m[Len(l) + 1] = e /\ \A i \in 1..Len(l) : m[i] = l[i]
  BY OneMore
<1> HIDE DEF m
<1>2. Said(m) = Said(l)
  BY <1>1 DEF Said, Quiet
<1>3. Queued(m) = Queued(l)
  BY <1>1 DEF Queued, Quiet
<1>4. Consumed(l) \subseteq Consumed(m)
  BY <1>1 DEF Consumed
<1>5. Consumed(m) \subseteq Consumed(l) \union {NoId}
  <2> SUFFICES ASSUME NEW i \in DOMAIN m, Is("user_msg", m[i])
               PROVE  m[i].queuedId \in Consumed(l) \union {NoId}
    BY DEF Consumed
  <2>1. CASE i = Len(l) + 1
    BY <1>1, <2>1 DEF Quiet
  <2>2. CASE i # Len(l) + 1
    BY <1>1, <2>2 DEF Consumed
  <2> QED
    BY <2>1, <2>2
<1>6. \A i \in Queued(l) : EventId(s, i) # NoId
  BY <1>1 DEF Queued, EventId, NoId
<1>7. Left(s, m) = Left(s, l)
  BY <1>3, <1>4, <1>5, <1>6 DEF Left
<1> QED
  BY <1>2, <1>7 DEF m

\* Queueing an event: it is owed, and nothing else changes.
LEMMA QueueAppend ==
  ASSUME NEW s \in Sessions, NEW l \in Seq(Events), \A i \in Said(l) : l[i].queuedId # EventId(s, Len(l) + 1)
  PROVE  /\ Said(Append(l, InterruptQueued)) = Said(l)
         /\ Left(s, Append(l, InterruptQueued)) = Left(s, l) \union {Len(l) + 1}
<1> DEFINE e == InterruptQueued
           m == Append(l, e)
<1>1. e \in Events /\ Is("interrupt_queued", e) /\ ~Is("user_msg", e)
  BY DEF InterruptQueued, Events, Is
<1>2. /\ DOMAIN l = 1..Len(l) /\ DOMAIN m = 1..(Len(l) + 1) /\ Len(l) \in Nat
      /\ m[Len(l) + 1] = e /\ \A i \in 1..Len(l) : m[i] = l[i]
  BY <1>1, OneMore
<1> HIDE DEF m, e
<1>3. Said(m) = Said(l)
  BY <1>1, <1>2 DEF Said
<1>4. Queued(m) = Queued(l) \union {Len(l) + 1}
  BY <1>1, <1>2 DEF Queued
<1>5. {j \in DOMAIN m : Is("user_msg", m[j])} = {j \in DOMAIN l : Is("user_msg", l[j])}
  BY <1>1, <1>2
<1>6. Consumed(m) = Consumed(l)
  BY <1>2, <1>5 DEF Consumed
<1>7. EventId(s, Len(l) + 1) \notin Consumed(l)
  <2>1. EventId(s, Len(l) + 1) # NoId
    BY <1>2 DEF EventId, NoId
  <2> QED
    BY <2>1 DEF Consumed, Said
<1> QED
  BY <1>3, <1>4, <1>6, <1>7 DEF Left, m, e

\* Saying what is owed.
LEMMA SayAppend ==
  ASSUME NEW s \in Sessions, NEW l \in Seq(Events), NEW h \in Left(s, l)
  PROVE  LET e == UserMsg(EventId(s, h)) IN
         /\ e \in Events /\ e.queuedId = EventId(s, h)
         /\ Said(Append(l, e)) = Said(l) \union {Len(l) + 1}
         /\ Left(s, Append(l, e)) = Left(s, l) \ {h}
<1> DEFINE e == UserMsg(EventId(s, h))
           m == Append(l, e)
<1>1. h \in 1..Len(l) /\ Len(l) \in Nat
  BY DEF Left, Queued
<1>2. e \in Events /\ Is("user_msg", e) /\ ~Is("interrupt_queued", e) /\ e.queuedId = EventId(s, h)
      /\ EventId(s, h) # NoId
  BY <1>1 DEF UserMsg, EventId, Events, Is, NoId
<1>3. /\ DOMAIN l = 1..Len(l) /\ DOMAIN m = 1..(Len(l) + 1) /\ Len(l) \in Nat
      /\ m[Len(l) + 1] = e /\ \A i \in 1..Len(l) : m[i] = l[i]
  BY <1>2, OneMore
<1> HIDE DEF m, e
<1>4. Said(m) = Said(l) \union {Len(l) + 1}
  BY <1>2, <1>3 DEF Said
<1>5. Queued(m) = Queued(l)
  BY <1>2, <1>3 DEF Queued
<1>6. Consumed(m) = Consumed(l) \union {EventId(s, h)}
  <2>1. {j \in DOMAIN m : Is("user_msg", m[j])} = {j \in DOMAIN l : Is("user_msg", l[j])} \union {Len(l) + 1}
    BY <1>2, <1>3
  <2> QED
    BY <1>2, <1>3, <2>1 DEF Consumed
<1>7. \A i \in Queued(l) : EventId(s, i) = EventId(s, h) => i = h
  BY DEF EventId
<1>8. Left(s, m) = Left(s, l) \ {h}
  BY <1>5, <1>6, <1>7 DEF Left
<1> QED
  BY <1>2, <1>4, <1>8 DEF m, e

----------------------------------------------------------------------------
(* The logs of the sessions: steps. *)

\* Logs only grow.
Grows ==
  \A r \in Sessions :
    /\ Len(log[r]) \in Nat /\ Len(log'[r]) \in Nat /\ Len(log[r]) <= Len(log'[r])
    /\ DOMAIN log[r] = 1..Len(log[r])
    /\ \A i \in 1..Len(log[r]) : log'[r][i] = log[r][i]

LEMMA AppendGrows ==
  ASSUME TypeInv, NEW s \in Sessions, NEW e \in Events, log' = [log EXCEPT ![s] = Append(@, e)]
  PROVE  /\ Grows /\ log' \in [Sessions -> Seq(Events)]
         /\ log'[s] = Append(log[s], e)
         /\ \A r \in Sessions \ {s} : log'[r] = log[r]
<1>1. log \in [Sessions -> Seq(Events)]
  BY DEF TypeInv
<1>2. log'[s] = Append(log[s], e) /\ \A r \in Sessions \ {s} : log'[r] = log[r]
  BY <1>1
<1>3. log' \in [Sessions -> Seq(Events)]
  BY <1>1, OneMore
<1>4. Grows
  <2> SUFFICES ASSUME NEW r \in Sessions
               PROVE  /\ Len(log[r]) \in Nat /\ Len(log'[r]) \in Nat /\ Len(log[r]) <= Len(log'[r])
                      /\ DOMAIN log[r] = 1..Len(log[r])
                      /\ \A i \in 1..Len(log[r]) : log'[r][i] = log[r][i]
    BY DEF Grows
  <2>1. log[r] \in Seq(Events)
    BY <1>1
  <2>2. CASE r = s
    BY <1>2, <2>1, <2>2, OneMore
  <2>3. CASE r # s
    BY <1>2, <2>1, <2>3
  <2> QED
    BY <2>2, <2>3
<1> QED
  BY <1>2, <1>3, <1>4

LEMMA SameGrows == ASSUME TypeInv, log' = log PROVE Grows
BY DEF TypeInv, Grows

\* A fork's source may grow; who is not the one that moves stays what it was.
LEMMA CopiesStay ==
  ASSUME TypeInv, CopiesArePrefixes, Grows, NEW t \in Sessions,
         log'[t] = log[t], pc'[t] = pc[t], fork'[t] = fork[t]
  PROVE  /\ pc'[t] = "absent" => log'[t] = <<>>
         /\ pc'[t] = "copying" =>
              /\ fork'[t].from # t
              /\ fork'[t].upto <= Len(log'[fork'[t].from])
              /\ Len(log'[t]) <= fork'[t].upto
              /\ \A i \in 1..Len(log'[t]) : log'[t][i] = log'[fork'[t].from][i]
<1>1. pc'[t] = "absent" => log'[t] = <<>>
  BY DEF CopiesArePrefixes
<1>2. ASSUME pc'[t] = "copying"
      PROVE  /\ fork'[t].from # t
             /\ fork'[t].upto <= Len(log'[fork'[t].from])
             /\ Len(log'[t]) <= fork'[t].upto
             /\ \A i \in 1..Len(log'[t]) : log'[t][i] = log'[fork'[t].from][i]
  <2> DEFINE x == fork[t].from
  <2>1. x \in Sessions /\ fork[t].upto \in Nat
    BY DEF TypeInv
  <2>2. /\ x # t /\ fork[t].upto <= Len(log[x]) /\ Len(log[t]) <= fork[t].upto
        /\ \A i \in 1..Len(log[t]) : log[t][i] = log[x][i]
    <3>1. pc[t] = "copying"
      BY <1>2
    <3>2. pc[t] = "copying" =>
            /\ fork[t].from # t
            /\ fork[t].upto <= Len(log[fork[t].from])
            /\ Len(log[t]) <= fork[t].upto
            /\ \A i \in 1..Len(log[t]) : log[t][i] = log[fork[t].from][i]
      BY DEF CopiesArePrefixes
    <3> QED BY <3>1, <3>2
  <2> HIDE DEF x
  <2>3. /\ Len(log[x]) \in Nat /\ Len(log'[x]) \in Nat /\ Len(log[x]) <= Len(log'[x]) /\ Len(log[t]) \in Nat
        /\ \A i \in 1..Len(log[x]) : log'[x][i] = log[x][i]
    BY <2>1 DEF Grows
  <2>4. \A i \in 1..Len(log[t]) : i \in 1..Len(log[x])
    BY <2>1, <2>2, <2>3
  <2>5. x # t /\ fork[t].upto <= Len(log'[x]) /\ Len(log[t]) <= fork[t].upto
    BY <2>1, <2>2, <2>3
  <2>6. \A i \in 1..Len(log[t]) : log[t][i] = log'[x][i]
    BY <2>2, <2>3, <2>4
  <2> QED
    BY <2>5, <2>6 DEF x
<1> QED
  BY <1>1, <1>2

\* What a session has said stays true of the logs it names.
LEMMA NamesStay ==
  ASSUME NamesStand, Grows, NEW s \in Sessions, NEW i \in Said(log[s]), log'[s][i] = log[s][i],
         log[s][i].queuedId \in Sessions \X Nat,
         \A r \in Sessions : pc[r] \notin {"absent", "copying"} => pc'[r] \notin {"absent", "copying"}
  PROVE  LET id == log'[s][i].queuedId IN
         /\ pc'[id[1]] \notin {"absent", "copying"}
         /\ id[2] \in 1..Len(log'[id[1]])
         /\ id[1] = s => id[2] < i
<1> DEFINE id == log[s][i].queuedId
<1>1. /\ pc[id[1]] \notin {"absent", "copying"} /\ id[2] \in 1..Len(log[id[1]])
      /\ id[1] = s => id[2] < i
  BY DEF NamesStand
<1>2. id[1] \in Sessions
  OBVIOUS
<1> HIDE DEF id
<1>3. Len(log[id[1]]) <= Len(log'[id[1]]) /\ Len(log[id[1]]) \in Nat /\ Len(log'[id[1]]) \in Nat
  BY <1>2 DEF Grows
<1>4. id[2] \in 1..Len(log'[id[1]])
  BY <1>1, <1>3
<1> QED
  BY <1>1, <1>2, <1>4 DEF id

LEMMA NamesAreIds ==
  ASSUME TypeInv, NEW s \in Sessions, NEW i \in Said(log[s])
  PROVE  log[s][i].queuedId \in Sessions \X Nat
<1>1. log[s] \in Seq(Events) /\ i \in 1..Len(log[s])
  BY DEF TypeInv, Said
<1>2. log[s][i] \in Events
  BY <1>1
<1> QED
  BY <1>2, EventKinds DEF Said

\* A step of a session that neither queues nor delivers anything.
LEMMA QuietStep ==
  ASSUME TypeInv, LogInv, NEW s \in Sessions, NEW p, p \notin {"absent", "copying", "draining"},
         pc' = [pc EXCEPT ![s] = p], listed' = listed,
         log' = log \/ \E e \in Events : Quiet(e) /\ log' = [log EXCEPT ![s] = Append(@, e)],
         \A r \in Sessions \ {s} : todo'[r] = todo[r] /\ fork'[r] = fork[r],
         p \in Working => \A u \in Left(s, log[s]) : u > listed[s]
  PROVE  LogInv'
<1>1. Grows /\ \A r \in Sessions \ {s} : log'[r] = log[r]
  BY AppendGrows, SameGrows
<1>2. pc'[s] = p /\ \A r \in Sessions \ {s} : pc'[r] = pc[r]
  BY DEF TypeInv
<1>3. \A r \in Sessions : /\ Said(log'[r]) = Said(log[r]) /\ Left(r, log'[r]) = Left(r, log[r])
                          /\ \A i \in Said(log[r]) : log'[r][i] = log[r][i]
  <2>1. Said(log'[s]) = Said(log[s]) /\ Left(s, log'[s]) = Left(s, log[s])
    <3>1. ASSUME NEW e \in Events, Quiet(e), log' = [log EXCEPT ![s] = Append(@, e)]
          PROVE  Said(log'[s]) = Said(log[s]) /\ Left(s, log'[s]) = Left(s, log[s])
      <4>1. log[s] \in Seq(Events)
        BY DEF TypeInv
      <4> QED
        BY <3>1, <4>1, AppendGrows, QuietAppend
    <3> QED
      BY <3>1
  <2>2. \A r \in Sessions : \A i \in Said(log[r]) : log'[r][i] = log[r][i]
    BY <1>1 DEF Grows, Said
  <2> QED
    BY <1>1, <2>1, <2>2
<1>4. CopiesArePrefixes'
  <2> SUFFICES ASSUME NEW t \in Sessions
               PROVE  /\ pc'[t] = "absent" => log'[t] = <<>>
                      /\ pc'[t] = "copying" =>
                           /\ fork'[t].from # t
                           /\ fork'[t].upto <= Len(log'[fork'[t].from])
                           /\ Len(log'[t]) <= fork'[t].upto
                           /\ \A i \in 1..Len(log'[t]) : log'[t][i] = log'[fork'[t].from][i]
    BY DEF CopiesArePrefixes
  <2>1. CASE t = s
    BY <1>2, <2>1
  <2>2. CASE t # s
    BY <1>1, <1>2, <2>2, CopiesStay DEF LogInv
  <2> QED
    BY <2>1, <2>2
<1>5. NamesStand'
  <2>1. \A r \in Sessions : pc[r] \notin {"absent", "copying"} => pc'[r] \notin {"absent", "copying"}
    BY <1>2
  <2>2. ASSUME NEW r \in Sessions, NEW i \in Said(log'[r])
        PROVE  LET id == log'[r][i].queuedId IN
               /\ pc'[id[1]] \notin {"absent", "copying"}
               /\ id[2] \in 1..Len(log'[id[1]])
               /\ id[1] = r => id[2] < i
    <3>1. i \in Said(log[r]) /\ log'[r][i] = log[r][i]
      BY <1>3
    <3>2. log[r][i].queuedId \in Sessions \X Nat
      BY <3>1, NamesAreIds
    <3> QED
      BY <1>1, <2>1, <3>1, <3>2, NamesStay DEF LogInv
  <2> QED
    BY <2>2 DEF NamesStand
<1>6. ASSUME NEW r \in Sessions PROVE Ordered(log'[r]) /\ OldestFirst(r, log'[r]) /\ Drains(r)'
  <2>1. Ordered(log'[r])
    BY <1>3 DEF LogInv, Ordered
  <2>2. OldestFirst(r, log'[r])
    BY <1>3 DEF LogInv, OldestFirst
  <2>3. listed'[r] <= Len(log'[r])
    <3>1. listed[r] <= Len(log[r]) /\ listed[r] \in Nat
      BY DEF LogInv, Drains, TypeInv
    <3> QED
      BY <1>1, <3>1 DEF Grows
  <2>4. pc'[r] = "draining" => Enumerates(todo'[r], Left(r, log'[r]), listed'[r])
    BY <1>2, <1>3 DEF LogInv, Drains
  <2>5. pc'[r] \in Working => \A u \in Left(r, log'[r]) : u > listed'[r]
    BY <1>2, <1>3 DEF LogInv, Drains
  <2> QED
    BY <2>1, <2>2, <2>3, <2>4, <2>5 DEF Drains
<1> QED
  BY <1>4, <1>5, <1>6 DEF LogInv

\* A session that does not move, while others may.
LEMMA OthersStay ==
  ASSUME LogInv, NEW r \in Sessions,
         log'[r] = log[r], pc'[r] = pc[r], todo'[r] = todo[r], listed'[r] = listed[r]
  PROVE  Ordered(log'[r]) /\ OldestFirst(r, log'[r]) /\ Drains(r)'
BY DEF LogInv, Drains

\* The names a step leaves, when it says nothing new.
LEMMA NamesStayAll ==
  ASSUME TypeInv, LogInv, Grows, NEW r \in Sessions, Said(log'[r]) = Said(log[r]),
         \A x \in Sessions : pc[x] \notin {"absent", "copying"} => pc'[x] \notin {"absent", "copying"}
  PROVE  \A i \in Said(log'[r]) :
           LET id == log'[r][i].queuedId IN
           /\ pc'[id[1]] \notin {"absent", "copying"}
           /\ id[2] \in 1..Len(log'[id[1]])
           /\ id[1] = r => id[2] < i
<1> SUFFICES ASSUME NEW i \in Said(log[r])
             PROVE  LET id == log'[r][i].queuedId IN
                    /\ pc'[id[1]] \notin {"absent", "copying"}
                    /\ id[2] \in 1..Len(log'[id[1]])
                    /\ id[1] = r => id[2] < i
  OBVIOUS
<1>1. log'[r][i] = log[r][i]
  BY DEF Grows, Said
<1>2. log[r][i].queuedId \in Sessions \X Nat
  BY NamesAreIds
<1> QED
  BY <1>1, <1>2, NamesStay DEF LogInv

LEMMA InterruptStep ==
  ASSUME TypeInv, LogInv, NEW s \in Sessions, Interrupt(s)
  PROVE  LogInv'
<1> DEFINE l == log[s]
           new == Len(l) + 1
<1>1. /\ pc[s] \notin {"absent", "copying"} /\ log' = [log EXCEPT ![s] = Append(@, InterruptQueued)]
      /\ pc' = pc /\ todo' = todo /\ fork' = fork /\ listed' = listed
  BY DEF Interrupt, AppendEvent
<1>2. InterruptQueued \in Events
  BY DEF InterruptQueued, Events
<1>3. /\ Grows /\ log'[s] = Append(l, InterruptQueued) /\ \A r \in Sessions \ {s} : log'[r] = log[r]
  BY <1>1, <1>2, AppendGrows
<1>4. l \in Seq(Events) /\ Len(l) \in Nat /\ Len(log'[s]) = new
  BY <1>2, <1>3, OneMore DEF TypeInv
<1>5. \A i \in Said(l) : l[i].queuedId[1] = s => l[i].queuedId[2] \in 1..Len(l)
  BY DEF LogInv, NamesStand
<1>6. \A i \in Said(l) : l[i].queuedId # EventId(s, new)
  BY <1>4, <1>5 DEF EventId
<1>7. Said(log'[s]) = Said(l) /\ Left(s, log'[s]) = Left(s, l) \union {new}
  BY <1>3, <1>4, <1>6, QueueAppend
<1>8. \A i \in Said(l) : log'[s][i] = l[i]
  BY <1>3 DEF Grows, Said
<1>9. CopiesArePrefixes'
  <2> SUFFICES ASSUME NEW t \in Sessions
               PROVE  /\ pc'[t] = "absent" => log'[t] = <<>>
                      /\ pc'[t] = "copying" =>
                           /\ fork'[t].from # t
                           /\ fork'[t].upto <= Len(log'[fork'[t].from])
                           /\ Len(log'[t]) <= fork'[t].upto
                           /\ \A i \in 1..Len(log'[t]) : log'[t][i] = log'[fork'[t].from][i]
    BY DEF CopiesArePrefixes
  <2>1. CASE t = s
    BY <1>1, <2>1
  <2>2. CASE t # s
    BY <1>1, <1>3, <2>2, CopiesStay DEF LogInv
  <2> QED
    BY <2>1, <2>2
<1>10. NamesStand'
  <2>1. \A r \in Sessions : Said(log'[r]) = Said(log[r])
    BY <1>3, <1>7
  <2> QED
    BY <1>1, <1>3, <2>1, NamesStayAll DEF NamesStand
<1>11. Ordered(log'[s])
  BY <1>7, <1>8 DEF LogInv, Ordered
<1>12. OldestFirst(s, log'[s])
  <2> SUFFICES ASSUME NEW i \in Said(l), NEW u \in Left(s, l) \union {new}, l[i].queuedId[1] = s
               PROVE  l[i].queuedId[2] < u
    BY <1>7, <1>8 DEF OldestFirst
  <2>1. CASE u = new
    BY <1>4, <1>5, <2>1
  <2>2. CASE u \in Left(s, l)
    BY <2>2 DEF LogInv, OldestFirst
  <2> QED
    BY <2>1, <2>2
<1>13. Drains(s)'
  <2>1. listed[s] \in Nat /\ listed[s] <= Len(l) /\ listed[s] < new
    BY <1>4 DEF LogInv, Drains, TypeInv
  <2>2. ASSUME pc[s] = "draining" PROVE Enumerates(todo[s], Left(s, l) \union {new}, listed[s])
    <3>1. Enumerates(todo[s], Left(s, l), listed[s])
      BY <2>2 DEF LogInv, Drains
    <3>2. \A i \in 1..listed[s] : i \in Left(s, l) \union {new} => i \in Left(s, l)
      BY <1>4, <2>1
    <3> QED
      BY <3>1, <3>2 DEF Enumerates
  <2>3. pc[s] \in Working => \A u \in Left(s, l) \union {new} : u > listed[s]
    BY <1>4, <2>1 DEF LogInv, Drains
  <2>4. listed[s] <= Len(log'[s])
    BY <1>4, <2>1
  <2> QED
    BY <1>1, <1>7, <2>2, <2>3, <2>4 DEF Drains
<1>14. \A r \in Sessions : Ordered(log'[r]) /\ OldestFirst(r, log'[r]) /\ Drains(r)'
  BY <1>1, <1>3, <1>11, <1>12, <1>13, OthersStay
<1> QED
  BY <1>9, <1>10, <1>14 DEF LogInv

LEMMA ListStep ==
  ASSUME TypeInv, LogInv, NEW s \in Sessions, ListInterrupts(s)
  PROVE  LogInv'
<1>1. /\ pc[s] = "top" /\ pc' = [pc EXCEPT ![s] = "draining"] /\ log' = log /\ fork' = fork
      /\ todo' = [todo EXCEPT ![s] = InOrder(Undelivered(s), log[s])]
      /\ listed' = [listed EXCEPT ![s] = Len(log[s])]
  BY DEF ListInterrupts, Goto
<1>2. /\ pc'[s] = "draining" /\ todo'[s] = InOrder(Undelivered(s), log[s]) /\ listed'[s] = Len(log[s])
      /\ \A r \in Sessions \ {s} : pc'[r] = pc[r] /\ todo'[r] = todo[r] /\ listed'[r] = listed[r]
  BY <1>1 DEF TypeInv
<1>3. Grows /\ Len(log[s]) \in Nat
  <2>1. Grows
    BY <1>1, SameGrows
  <2>2. log[s] \in Seq(Events)
    BY DEF TypeInv
  <2> QED BY <2>1, <2>2
<1>4. Enumerates(todo'[s], Left(s, log[s]), Len(log[s]))
  BY <1>2, <1>3, InOrderEnumerates DEF Undelivered, Left
<1>5. Drains(s)'
  BY <1>1, <1>2, <1>3, <1>4 DEF Drains, Working, Prompting
<1>6. \A r \in Sessions : Ordered(log'[r]) /\ OldestFirst(r, log'[r]) /\ Drains(r)'
  BY <1>1, <1>2, <1>5, OthersStay DEF LogInv
<1>7. CopiesArePrefixes'
  BY <1>1, <1>2 DEF LogInv, CopiesArePrefixes
<1>8. NamesStand'
  BY <1>1, <1>2 DEF LogInv, NamesStand
<1> QED
  BY <1>6, <1>7, <1>8 DEF LogInv

\* The head of an enumeration is the oldest, and the tail enumerates the others.
LEMMA TailEnumerates ==
  ASSUME NEW is, NEW places, NEW n \in Nat, Enumerates(is, places, n), is # <<>>
  PROVE  /\ Head(is) \in places /\ Head(is) \in 1..n
         /\ \A i \in 1..n : i \in places => Head(is) <= i
         /\ Enumerates(Tail(is), places \ {Head(is)}, n)
<1>1. is \in Seq(Nat) /\ Len(is) \in Nat \ {0} /\ DOMAIN is = 1..Len(is)
  BY DEF Enumerates
<1>2. /\ Head(is) = is[1] /\ Tail(is) \in Seq(Nat) /\ DOMAIN Tail(is) = 1..(Len(is) - 1)
      /\ \A k \in 1..(Len(is) - 1) : Tail(is)[k] = is[k + 1]
  BY <1>1
<1>3. 1 \in DOMAIN is /\ \A k \in DOMAIN is : k # 1 => 1 < k
  BY <1>1
<1>4. Head(is) \in places /\ Head(is) \in 1..n
  BY <1>2, <1>3 DEF Enumerates
<1>5. ASSUME NEW i \in 1..n, i \in places PROVE Head(is) <= i
  <2>1. PICK k \in DOMAIN is : is[k] = i
    BY <1>5 DEF Enumerates
  <2>2. k # 1 => is[1] < is[k]
    BY <1>3 DEF Enumerates
  <2> QED
    BY <1>1, <1>2, <1>4, <2>1, <2>2
<1>6. Enumerates(Tail(is), places \ {Head(is)}, n)
  <2> DEFINE rest == Tail(is)
  <2>1. \A k \in 1..(Len(is) - 1) : k + 1 \in DOMAIN is /\ rest[k] = is[k + 1] /\ is[1] < is[k + 1]
    <3> SUFFICES ASSUME NEW k \in 1..(Len(is) - 1)
                 PROVE  k + 1 \in DOMAIN is /\ rest[k] = is[k + 1] /\ is[1] < is[k + 1]
      OBVIOUS
    <3>1. k + 1 \in DOMAIN is /\ 1 < k + 1
      BY <1>1
    <3> QED
      BY <1>2, <1>3, <3>1 DEF Enumerates
  <2>2. rest \in Seq(Nat) /\ DOMAIN rest = 1..(Len(is) - 1)
    BY <1>2
  <2> HIDE DEF rest
  <2>3. \A k \in DOMAIN rest : rest[k] \in places \ {is[1]} /\ rest[k] \in 1..n
    <3> SUFFICES ASSUME NEW k \in 1..(Len(is) - 1) PROVE rest[k] \in places \ {is[1]} /\ rest[k] \in 1..n
      BY <2>2
    <3>1. is[k + 1] \in places /\ is[k + 1] \in 1..n /\ is[1] \in 1..n
      BY <1>3, <2>1 DEF Enumerates
    <3> QED
      BY <2>1, <3>1
  <2>4. ASSUME NEW i \in 1..n, i \in places, i # is[1] PROVE \E k \in DOMAIN rest : rest[k] = i
    <3>1. PICK k \in DOMAIN is : is[k] = i
      BY <2>4 DEF Enumerates
    <3>2. k - 1 \in 1..(Len(is) - 1) /\ (k - 1) + 1 = k
      BY <1>1, <2>4, <3>1
    <3> QED
      BY <2>1, <2>2, <3>1, <3>2
  <2>5. \A j, k \in DOMAIN rest : j < k => rest[j] < rest[k]
    <3> SUFFICES ASSUME NEW j \in 1..(Len(is) - 1), NEW k \in 1..(Len(is) - 1), j < k PROVE rest[j] < rest[k]
      BY <2>2
    <3>1. j + 1 \in DOMAIN is /\ k + 1 \in DOMAIN is /\ j + 1 < k + 1
      BY <1>1
    <3>2. is[j + 1] < is[k + 1]
      BY <3>1 DEF Enumerates
    <3> QED
      BY <2>1, <3>2
  <2>6. Enumerates(rest, places \ {is[1]}, n)
    BY <2>2, <2>3, <2>4, <2>5 DEF Enumerates
  <2> QED
    BY <1>2, <2>6 DEF rest
<1> QED
  BY <1>4, <1>5, <1>6

LEMMA DeliverStep ==
  ASSUME TypeInv, LogInv, NEW s \in Sessions, Deliver(s)
  PROVE  LogInv'
<1> DEFINE l == log[s]
           h == Head(todo[s])
           e == UserMsg(EventId(s, h))
           new == Len(l) + 1
<1>1. /\ pc[s] = "draining" /\ todo[s] # <<>> /\ log' = [log EXCEPT ![s] = Append(@, e)]
      /\ todo' = [todo EXCEPT ![s] = Tail(@)] /\ pc' = pc /\ fork' = fork /\ listed' = listed
  BY DEF Deliver, AppendEvent
<1>2. l \in Seq(Events) /\ Len(l) \in Nat /\ listed[s] \in Nat /\ listed[s] <= Len(l)
  BY DEF TypeInv, LogInv, Drains
<1>3. Enumerates(todo[s], Left(s, l), listed[s])
  BY <1>1 DEF LogInv, Drains
<1>4. /\ h \in Left(s, l) /\ h \in 1..listed[s]
      /\ \A i \in 1..listed[s] : i \in Left(s, l) => h <= i
      /\ Enumerates(Tail(todo[s]), Left(s, l) \ {h}, listed[s])
  BY <1>1, <1>2, <1>3, TailEnumerates
<1>5. e \in Events /\ e.queuedId = EventId(s, h)
      /\ Said(Append(l, e)) = Said(l) \union {new} /\ Left(s, Append(l, e)) = Left(s, l) \ {h}
  BY <1>2, <1>4, SayAppend
<1> HIDE DEF e
<1>6. Grows /\ log'[s] = Append(l, e) /\ \A r \in Sessions \ {s} : log'[r] = log[r]
  BY <1>1, <1>5, AppendGrows
<1>7. log'[s][new] = e /\ Len(log'[s]) = new /\ \A i \in Said(l) : log'[s][i] = l[i] /\ i \in 1..Len(l)
  BY <1>2, <1>5, <1>6, OneMore DEF Said
<1>8. Said(log'[s]) = Said(l) \union {new} /\ Left(s, log'[s]) = Left(s, l) \ {h}
  BY <1>5, <1>6
<1>9. h \in 1..Len(l) /\ h < new
  BY <1>2, <1>4
<1> HIDE DEF h, new
<1>10. CopiesArePrefixes'
  <2> SUFFICES ASSUME NEW t \in Sessions
               PROVE  /\ pc'[t] = "absent" => log'[t] = <<>>
                      /\ pc'[t] = "copying" =>
                           /\ fork'[t].from # t
                           /\ fork'[t].upto <= Len(log'[fork'[t].from])
                           /\ Len(log'[t]) <= fork'[t].upto
                           /\ \A i \in 1..Len(log'[t]) : log'[t][i] = log'[fork'[t].from][i]
    BY DEF CopiesArePrefixes
  <2>1. CASE t = s
    BY <1>1, <2>1
  <2>2. CASE t # s
    BY <1>1, <1>6, <2>2, CopiesStay DEF LogInv
  <2> QED
    BY <2>1, <2>2
<1>11. NamesStand'
  <2> SUFFICES ASSUME NEW r \in Sessions, NEW i \in Said(log'[r])
               PROVE  LET id == log'[r][i].queuedId IN
                      /\ pc'[id[1]] \notin {"absent", "copying"}
                      /\ id[2] \in 1..Len(log'[id[1]])
                      /\ id[1] = r => id[2] < i
    BY DEF NamesStand
  <2>1. CASE r = s /\ i = new
    <3>1. log'[r][i].queuedId = EventId(s, h)
      BY <1>5, <1>7, <2>1
    <3>2. h \in 1..Len(log'[s])
      BY <1>2, <1>7, <1>9 DEF new
    <3>3. log'[r][i].queuedId[1] = s /\ log'[r][i].queuedId[2] = h
      BY <3>1 DEF EventId
    <3>4. pc'[s] \notin {"absent", "copying"} /\ h < i
      BY <1>1, <1>9, <2>1
    <3> QED
      BY <3>2, <3>3, <3>4
  <2>2. CASE ~(r = s /\ i = new)
    <3>1. i \in Said(log[r]) /\ log'[r][i] = log[r][i]
      <4>1. CASE r = s
        <5>1. i \in Said(l)
          BY <1>8, <2>2, <4>1
        <5> QED
          BY <1>7, <4>1, <5>1
      <4>2. CASE r # s
        BY <1>6, <4>2
      <4> QED
        BY <4>1, <4>2
    <3>2. log[r][i].queuedId \in Sessions \X Nat
      BY <3>1, NamesAreIds
    <3> QED
      BY <1>1, <1>6, <3>1, <3>2, NamesStay DEF LogInv
  <2> QED
    BY <2>1, <2>2
<1>12. Ordered(log'[s])
  <2> SUFFICES ASSUME NEW i \in Said(l) \union {new}, NEW j \in Said(l) \union {new}, j < i,
                      log'[s][j].queuedId[1] = log'[s][i].queuedId[1]
               PROVE  log'[s][j].queuedId[2] < log'[s][i].queuedId[2]
    BY <1>8 DEF Ordered
  <2>1. j \in Said(l) /\ log'[s][j] = l[j]
    <3>1. j # new
      BY <1>2, <1>7 DEF new
    <3> QED
      BY <1>7, <3>1
  <2>2. CASE i \in Said(l)
    BY <1>7, <2>1, <2>2 DEF LogInv, Ordered
  <2>3. CASE i = new
    <3>1. log'[s][i].queuedId = <<s, h>>
      BY <1>5, <1>7, <2>3 DEF EventId
    <3>2. l[j].queuedId[1] = s
      BY <2>1, <3>1
    <3>3. OldestFirst(s, l) /\ h \in Left(s, l)
      BY <1>4 DEF LogInv, h
    <3>4. l[j].queuedId[2] < h
      BY <2>1, <3>2, <3>3 DEF OldestFirst
    <3> QED
      BY <2>1, <3>1, <3>4
  <2> QED
    BY <2>2, <2>3
<1>13. OldestFirst(s, log'[s])
  <2> SUFFICES ASSUME NEW i \in Said(l) \union {new}, NEW u \in Left(s, l) \ {h}, log'[s][i].queuedId[1] = s
               PROVE  log'[s][i].queuedId[2] < u
    BY <1>8 DEF OldestFirst
  <2>1. CASE i \in Said(l)
    BY <1>7, <2>1 DEF LogInv, OldestFirst
  <2>2. CASE i = new
    <3>1. log'[s][i].queuedId[2] = h
      BY <1>5, <1>7, <2>2 DEF EventId
    <3>2. u \in 1..Len(l)
      BY <1>2 DEF Left, Queued
    <3>3. h < u
      <4>1. CASE u <= listed[s]
        <5>1. u \in 1..listed[s] /\ u # h
          BY <1>2, <3>2, <4>1
        <5>2. h <= u
          BY <1>4, <5>1 DEF h
        <5> QED
          BY <1>9, <3>2, <5>1, <5>2
      <4>2. CASE u > listed[s]
        <5>1. h \in 1..listed[s]
          BY <1>4 DEF h
        <5> QED
          BY <1>2, <3>2, <4>2, <5>1
      <4> QED
        BY <1>2, <3>2, <4>1, <4>2
    <3> QED
      BY <3>1, <3>3
  <2> QED
    BY <2>1, <2>2
<1>14. Drains(s)'
  <2>1. todo'[s] = Tail(todo[s])
    BY <1>1 DEF TypeInv
  <2>2. listed'[s] <= Len(log'[s])
    BY <1>1, <1>2, <1>7 DEF new
  <2>3. Enumerates(todo'[s], Left(s, log'[s]), listed'[s])
    BY <1>1, <1>4, <1>8, <2>1 DEF h
  <2>4. pc'[s] \notin Working
    BY <1>1 DEF Working, Prompting
  <2> QED
    BY <2>2, <2>3, <2>4 DEF Drains
<1>15. \A r \in Sessions \ {s} : todo'[r] = todo[r]
  BY <1>1 DEF TypeInv
<1>16. \A r \in Sessions : Ordered(log'[r]) /\ OldestFirst(r, log'[r]) /\ Drains(r)'
  BY <1>1, <1>6, <1>12, <1>13, <1>14, <1>15, OthersStay
<1> QED
  BY <1>10, <1>11, <1>16 DEF LogInv

LEMMA ForkEndBounded ==
  ASSUME NEW l, NEW cut \in Nat
  PROVE  ForkEnd(l, cut) \in 0..cut
<1> DEFINE S == {i \in 0..cut : i = 0 \/ ~OpensCalls(l[i])}
<1>1. S \subseteq 0..cut /\ S # {}
  OBVIOUS
<1>2. ForkEnd(l, cut) = Max(S)
  BY DEF ForkEnd
<1> HIDE DEF S
<1>3. \E n \in S : \A m \in S : n >= m
  BY <1>1, GreatestNumber
<1>4. Max(S) \in S
  BY <1>3 DEF Max
<1> QED
  BY <1>1, <1>2, <1>4

LEMMA ForkStep ==
  ASSUME TypeInv, LogInv, NEW s \in Sessions, NEW t \in Sessions, Fork(s, t)
  PROVE  LogInv'
<1>1. PICK cut \in 0..Len(log[s]) :
        fork' = [fork EXCEPT ![t] = [from |-> s, upto |-> ForkEnd(log[s], cut)]]
  BY DEF Fork
<1>2. /\ pc[s] # "absent" /\ pc[t] = "absent" /\ pc' = [pc EXCEPT ![t] = "copying"]
      /\ log' = log /\ todo' = todo /\ listed' = listed
  BY DEF Fork, Goto
<1>3. Len(log[s]) \in Nat /\ cut \in Nat /\ cut <= Len(log[s])
  BY DEF TypeInv
<1>4. ForkEnd(log[s], cut) \in 0..cut
  BY <1>3, ForkEndBounded
<1>5. /\ pc'[t] = "copying" /\ fork'[t].from = s /\ fork'[t].upto = ForkEnd(log[s], cut)
      /\ \A r \in Sessions \ {t} : pc'[r] = pc[r] /\ fork'[r] = fork[r]
  BY <1>1, <1>2 DEF TypeInv
<1>6. log[t] = <<>> /\ Len(log[t]) = 0 /\ s # t
  BY <1>2 DEF LogInv, CopiesArePrefixes
<1>7. Grows
  BY <1>2, SameGrows
<1>8. CopiesArePrefixes'
  <2> SUFFICES ASSUME NEW x \in Sessions
               PROVE  /\ pc'[x] = "absent" => log'[x] = <<>>
                      /\ pc'[x] = "copying" =>
                           /\ fork'[x].from # x
                           /\ fork'[x].upto <= Len(log'[fork'[x].from])
                           /\ Len(log'[x]) <= fork'[x].upto
                           /\ \A i \in 1..Len(log'[x]) : log'[x][i] = log'[fork'[x].from][i]
    BY DEF CopiesArePrefixes
  <2>1. CASE x = t
    BY <1>2, <1>3, <1>4, <1>5, <1>6, <2>1
  <2>2. CASE x # t
    BY <1>2, <1>5, <1>7, <2>2, CopiesStay DEF LogInv
  <2> QED
    BY <2>1, <2>2
<1>9. NamesStand'
  <2>1. \A x \in Sessions : pc[x] \notin {"absent", "copying"} => pc'[x] \notin {"absent", "copying"}
    BY <1>2, <1>5
  <2> QED
    BY <1>2, <1>7, <2>1, NamesStayAll DEF NamesStand
<1>10. Drains(t)'
  <2>1. listed[t] <= Len(log[t])
    BY DEF LogInv, Drains
  <2> QED
    BY <1>2, <1>5, <2>1 DEF Drains, Working, Prompting
<1>11. \A r \in Sessions : Ordered(log'[r]) /\ OldestFirst(r, log'[r]) /\ Drains(r)'
  BY <1>2, <1>5, <1>10, OthersStay DEF LogInv
<1> QED
  BY <1>8, <1>9, <1>11 DEF LogInv

LEMMA CopyStep ==
  ASSUME TypeInv, LogInv, NEW t \in Sessions, CopyEvent(t)
  PROVE  LogInv'
<1> DEFINE x == fork[t].from
           l == log[t]
           new == Len(l) + 1
           e == log[x][new]
<1>1. /\ pc[t] = "copying" /\ Len(l) < fork[t].upto /\ log' = [log EXCEPT ![t] = Append(@, e)]
      /\ pc' = pc /\ todo' = todo /\ fork' = fork /\ listed' = listed
  BY DEF CopyEvent, AppendEvent
<1>2. /\ x # t /\ fork[t].upto <= Len(log[x]) /\ Len(l) <= fork[t].upto
      /\ \A i \in 1..Len(l) : l[i] = log[x][i]
  BY <1>1 DEF LogInv, CopiesArePrefixes
<1>3. /\ x \in Sessions /\ l \in Seq(Events) /\ log[x] \in Seq(Events) /\ fork[t].upto \in Nat
      /\ Len(l) \in Nat /\ Len(log[x]) \in Nat /\ DOMAIN log[x] = 1..Len(log[x])
  BY DEF TypeInv
<1>4. new \in 1..Len(log[x]) /\ e \in Events /\ new <= fork[t].upto
  BY <1>1, <1>2, <1>3
<1> HIDE DEF x, e
<1>5. Grows /\ log'[t] = Append(l, e) /\ \A r \in Sessions \ {t} : log'[r] = log[r]
  BY <1>1, <1>4, AppendGrows
<1>6. /\ Len(log'[t]) = new /\ DOMAIN log'[t] = 1..new
      /\ \A i \in 1..new : log'[t][i] = log[x][i] /\ i \in 1..Len(log[x])
  <2>1. /\ Len(log'[t]) = new /\ DOMAIN log'[t] = 1..new /\ log'[t][new] = e
        /\ \A i \in 1..Len(l) : log'[t][i] = l[i]
    BY <1>3, <1>4, <1>5, OneMore
  <2>2. \A i \in 1..new : i # new => i \in 1..Len(l)
    BY <1>3
  <2>3. ASSUME NEW i \in 1..new PROVE log'[t][i] = log[x][i] /\ i \in 1..Len(log[x])
    <3>1. i \in 1..Len(log[x])
      BY <1>3, <1>4
    <3>2. CASE i = new
      BY <2>1, <3>1, <3>2 DEF e
    <3>3. CASE i # new
      BY <1>2, <2>1, <2>2, <3>1, <3>3
    <3> QED BY <3>2, <3>3
  <2> QED
    BY <2>1, <2>3
<1>7. \A i \in Said(log'[t]) : i \in Said(log[x]) /\ log'[t][i] = log[x][i]
  BY <1>3, <1>6 DEF Said
<1> HIDE DEF new
<1>8. CopiesArePrefixes'
  <2> SUFFICES ASSUME NEW r \in Sessions
               PROVE  /\ pc'[r] = "absent" => log'[r] = <<>>
                      /\ pc'[r] = "copying" =>
                           /\ fork'[r].from # r
                           /\ fork'[r].upto <= Len(log'[fork'[r].from])
                           /\ Len(log'[r]) <= fork'[r].upto
                           /\ \A i \in 1..Len(log'[r]) : log'[r][i] = log'[fork'[r].from][i]
    BY DEF CopiesArePrefixes
  <2>1. CASE r = t
    <3>1. fork'[t].from = x /\ fork'[t].upto = fork[t].upto /\ log'[x] = log[x]
      BY <1>1, <1>2, <1>3, <1>5 DEF x
    <3>2. /\ x # t /\ fork[t].upto <= Len(log[x]) /\ Len(log'[t]) <= fork[t].upto
          /\ \A i \in 1..Len(log'[t]) : log'[t][i] = log[x][i]
      BY <1>2, <1>4, <1>6
    <3>3. pc'[t] = "copying"
      BY <1>1
    <3> QED
      BY <2>1, <3>1, <3>2, <3>3
  <2>2. CASE r # t
    <3>1. log'[r] = log[r] /\ pc'[r] = pc[r] /\ fork'[r] = fork[r]
      BY <1>1, <1>5, <2>2
    <3> QED
      BY <1>5, <3>1, CopiesStay DEF LogInv
  <2> QED
    BY <2>1, <2>2
<1>9. \A i \in Said(log[x]) :
        LET id == log[x][i].queuedId IN
        id[1] \in Sessions /\ id[1] # t /\ id[2] \in 1..Len(log'[id[1]])
          /\ pc'[id[1]] \notin {"absent", "copying"}
  <2> SUFFICES ASSUME NEW i \in Said(log[x])
               PROVE  LET id == log[x][i].queuedId IN
                      id[1] \in Sessions /\ id[1] # t /\ id[2] \in 1..Len(log'[id[1]])
                        /\ pc'[id[1]] \notin {"absent", "copying"}
    OBVIOUS
  <2>1. log[x][i].queuedId \in Sessions \X Nat
    BY <1>3, NamesAreIds
  <2>2. /\ pc[log[x][i].queuedId[1]] \notin {"absent", "copying"}
        /\ log[x][i].queuedId[2] \in 1..Len(log[log[x][i].queuedId[1]])
    BY <1>3 DEF LogInv, NamesStand
  <2>3. log[x][i].queuedId[1] \in Sessions /\ log[x][i].queuedId[1] # t
    BY <1>1, <2>1, <2>2
  <2>4. log'[log[x][i].queuedId[1]] = log[log[x][i].queuedId[1]]
    BY <1>5, <2>3
  <2> QED
    BY <1>1, <2>2, <2>3, <2>4
<1>10. NamesStand'
  <2> SUFFICES ASSUME NEW r \in Sessions, NEW i \in Said(log'[r])
               PROVE  LET id == log'[r][i].queuedId IN
                      /\ pc'[id[1]] \notin {"absent", "copying"}
                      /\ id[2] \in 1..Len(log'[id[1]])
                      /\ id[1] = r => id[2] < i
    BY DEF NamesStand
  <2>1. CASE r = t
    BY <1>7, <1>9, <2>1
  <2>2. CASE r # t
    <3>1. i \in Said(log[r]) /\ log'[r][i] = log[r][i]
      BY <1>5, <2>2
    <3>2. log[r][i].queuedId \in Sessions \X Nat
      BY <3>1, NamesAreIds
    <3> QED
      BY <1>1, <1>5, <3>1, <3>2, NamesStay DEF LogInv
  <2> QED
    BY <2>1, <2>2
<1>11. Ordered(log'[t])
  <2>1. Ordered(log[x])
    BY <1>3 DEF LogInv
  <2> QED
    BY <1>7, <2>1 DEF Ordered
<1>12. OldestFirst(t, log'[t])
  BY <1>7, <1>9 DEF OldestFirst
<1>13. Drains(t)'
  <2>1. listed[t] \in Nat /\ listed[t] <= Len(l)
    BY DEF TypeInv, LogInv, Drains
  <2>2. listed'[t] <= Len(log'[t])
    BY <1>1, <1>3, <1>6, <2>1 DEF new
  <2> QED
    BY <1>1, <2>2 DEF Drains, Working, Prompting
<1>14. \A r \in Sessions : Ordered(log'[r]) /\ OldestFirst(r, log'[r]) /\ Drains(r)'
  BY <1>1, <1>5, <1>11, <1>12, <1>13, OthersStay
<1> QED
  BY <1>8, <1>10, <1>14 DEF LogInv

----------------------------------------------------------------------------
(* The transcript of a log. *)

LEMMA LastCompactionTyped ==
  ASSUME NEW l \in Seq(Events)
  PROVE  LastCompaction(l) \in Compactions
<1> DEFINE cs == {i \in DOMAIN l : Is("compaction", l[i])}
<1>1. Len(l) \in Nat /\ DOMAIN l = 1..Len(l) /\ cs \subseteq 0..Len(l)
  OBVIOUS
<1>2. CASE cs = {}
  BY <1>2 DEF LastCompaction, Compaction, Compactions
<1>3. CASE cs # {}
  <2>1. Max(cs) \in cs
    <3> HIDE DEF cs
    <3>1. \E n \in cs : \A m \in cs : n >= m
      BY <1>1, <1>3, GreatestNumber
    <3> QED
      BY <3>1 DEF Max
  <2>2. LastCompaction(l) = l[Max(cs)]
    BY <1>3 DEF LastCompaction
  <2>3. l[Max(cs)] \in Events /\ Is("compaction", l[Max(cs)])
    BY <2>1
  <2> HIDE DEF cs
  <2> QED
    BY <2>2, <2>3 DEF Events, Is
<1> QED
  BY <1>2, <1>3

LEMMA MessagesAtTyped ==
  ASSUME NEW l \in Seq(Events), NEW places
  PROVE  MessagesAt(l, places) \in Seq(Messages)
<1> DEFINE chosen == {i \in places : l[i].type \in MessageTypes}
           is == InOrder(chosen, l)
<1>1. Enumerates(is, chosen, Len(l))
  BY InOrderEnumerates
<1>2. is \in Seq(Nat) /\ DOMAIN is = 1..Len(is) /\ Len(is) \in Nat
  BY <1>1 DEF Enumerates
<1>3. \A k \in 1..Len(is) : is[k] \in 1..Len(l) /\ l[is[k]].type \in MessageTypes
  BY <1>1, <1>2 DEF Enumerates
<1> HIDE DEF is
<1>4. ASSUME NEW i \in 1..Len(l), l[i].type \in MessageTypes PROVE ToMessage(l, i) \in Messages
  <2>1. l[i] \in Events /\ i \in Nat
    OBVIOUS
  <2>2. NoCall \in CallIds /\ <<>> \in Seq(CallIds)
    BY DEF NoCall, CallIds
  <2>3. CASE Is("user_msg", l[i])
    <3>1. ToMessage(l, i) = Message(i, "user", <<>>, NoCall)
      BY <2>3 DEF ToMessage, Is
    <3> QED
      BY <2>1, <2>2, <3>1 DEF Message, Messages
  <2>4. CASE Is("assistant_msg", l[i])
    <3>1. ToMessage(l, i) = Message(i, "assistant", l[i].calls, NoCall)
      BY <2>4 DEF ToMessage, Is
    <3>2. l[i].calls \in Seq(CallIds)
      BY <2>1, <2>4, EventKinds
    <3> QED
      BY <2>1, <2>2, <3>1, <3>2 DEF Message, Messages
  <2>5. CASE Is("tool_result", l[i])
    <3>1. ToMessage(l, i) = Message(i, "tool", <<>>, l[i].call)
      BY <2>5 DEF ToMessage, Is
    <3>2. l[i].call \in CallIds
      BY <2>1, <2>5, EventKinds
    <3> QED
      BY <2>1, <2>2, <3>1, <3>2 DEF Message, Messages
  <2> QED
    BY <1>4, <2>3, <2>4, <2>5 DEF MessageTypes, Is
<1>5. MessagesAt(l, places) = [k \in 1..Len(is) |-> ToMessage(l, is[k])]
  BY <1>2 DEF MessagesAt, is
<1>6. \A k \in 1..Len(is) : ToMessage(l, is[k]) \in Messages
  BY <1>3, <1>4
<1> QED
  BY <1>2, <1>5, <1>6

LEMMA PairsTyped ==
  ASSUME NEW l \in Seq(Events)
  PROVE  Pairs(l) \in Seq(Messages)
<1> DEFINE c == LastCompaction(l)
           before == MessagesAt(l, {i \in DOMAIN l : i \in c.pinned /\ i < c.firstKept})
           middle == IF c.summary THEN <<Summary>> ELSE <<>>
           after == MessagesAt(l, {i \in DOMAIN l : i >= c.firstKept})
<1>1. before \in Seq(Messages) /\ after \in Seq(Messages)
  BY MessagesAtTyped
<1>2. middle \in Seq(Messages)
  <2>1. Summary \in Messages
    BY DEF Summary, Message, Messages, NoSeq, NoCall, CallIds
  <2>2. <<Summary>> \in Seq(Messages) /\ <<>> \in Seq(Messages)
    BY <2>1
  <2>3. c.summary \in BOOLEAN
    BY LastCompactionTyped DEF Compactions
  <2> HIDE DEF c
  <2> QED
    BY <2>2, <2>3
<1>3. Pairs(l) = before \o middle \o after
  BY DEF Pairs
<1> HIDE DEF before, middle, after
<1> QED
  BY <1>1, <1>2, <1>3

\* What of a message decides whether a transcript is valid.
LEMMA ValidAlike ==
  ASSUME NEW ms, NEW ns, DOMAIN ms = DOMAIN ns, ms = <<>> <=> ns = <<>>, Valid(ms),
         \A k \in DOMAIN ms : ns[k].role = ms[k].role /\ ns[k].calls = ms[k].calls /\ ns[k].call = ms[k].call
  PROVE  Valid(ns)
<1> DEFINE block(i) == {j \in DOMAIN ms : j > i /\ \A h \in Heads(ms) : h <= i \/ h > j}
           block2(i) == {j \in DOMAIN ns : j > i /\ \A h \in Heads(ns) : h <= i \/ h > j}
<1>1. Heads(ns) = Heads(ms)
  BY DEF Heads
<1>2. \A i : block2(i) = block(i) /\ block(i) \subseteq DOMAIN ms
  BY <1>1
<1>3. /\ ms # <<>> => 1 \in Heads(ms)
      /\ \A i \in Heads(ms) :
           {ms[j].call : j \in block(i)} = ToSet(ms[i].calls) /\ Cardinality(block(i)) = Len(ms[i].calls)
  BY DEF Valid, Heads
<1>4. ASSUME NEW i \in Heads(ns)
      PROVE  {ns[j].call : j \in block2(i)} = ToSet(ns[i].calls) /\ Cardinality(block2(i)) = Len(ns[i].calls)
  <2>1. i \in Heads(ms) /\ ns[i].calls = ms[i].calls
    BY <1>1 DEF Heads
  <2> HIDE DEF block, block2
  <2>2. \A j \in block(i) : ns[j].call = ms[j].call
    BY <1>2
  <2>3. {ns[j].call : j \in block2(i)} = {ms[j].call : j \in block(i)}
    BY <1>2, <2>2
  <2> QED
    BY <1>2, <1>3, <2>1, <2>3
<1>5. ns # <<>> => 1 \in Heads(ns)
  BY <1>1, <1>3
<1> QED
  BY <1>4, <1>5 DEF Valid, Heads

\* The transcript of every log is valid.
LEMMA TranscriptOf ==
  ASSUME NEW l \in Seq(Events)
  PROVE  MessagesWithSeqs(l) \in Seq(Messages) /\ Valid(MessagesWithSeqs(l))
<1> DEFINE pairs == Pairs(l)
           repaired == RepairTranscript(pairs)
           seq(k) == IF Len(repaired) = Len(pairs) THEN pairs[k].seq ELSE NoSeq
           all == [k \in DOMAIN repaired |-> [repaired[k] EXCEPT !.seq = seq(k)]]
<1>1. pairs \in Seq(Messages)
  BY PairsTyped
<1> HIDE DEF pairs
<1>2. repaired \in Seq(Messages) /\ Valid(repaired)
  BY <1>1, RepairedIsValid
<1>3. MessagesWithSeqs(l) = all
  BY DEF MessagesWithSeqs, pairs
<1> HIDE DEF repaired
<1>4. DOMAIN repaired = 1..Len(repaired) /\ Len(repaired) \in Nat
  BY <1>2
<1>5. ASSUME NEW k \in 1..Len(repaired)
      PROVE  /\ [repaired[k] EXCEPT !.seq = seq(k)] \in Messages
             /\ [repaired[k] EXCEPT !.seq = seq(k)].role = repaired[k].role
             /\ [repaired[k] EXCEPT !.seq = seq(k)].calls = repaired[k].calls
             /\ [repaired[k] EXCEPT !.seq = seq(k)].call = repaired[k].call
  <2>1. repaired[k] \in Messages
    BY <1>2
  <2>2. seq(k) \in Nat
    <3>1. CASE Len(repaired) = Len(pairs)
      <4>1. pairs[k] \in Messages
        BY <1>1, <3>1
      <4> QED
        BY <3>1, <4>1 DEF Messages
    <3>2. CASE Len(repaired) # Len(pairs)
      BY <3>2 DEF NoSeq
    <3> QED
      BY <3>1, <3>2
  <2> HIDE DEF seq
  <2> QED
    BY <2>1, <2>2 DEF Messages
<1> HIDE DEF seq
<1>6. all \in Seq(Messages) /\ DOMAIN all = DOMAIN repaired /\ (all = <<>> <=> repaired = <<>>)
  <2>1. all = [k \in 1..Len(repaired) |-> [repaired[k] EXCEPT !.seq = seq(k)]]
    BY <1>4
  <2>2. all \in Seq(Messages) /\ DOMAIN all = DOMAIN repaired /\ Len(all) = Len(repaired)
    <3> DEFINE one(k) == [repaired[k] EXCEPT !.seq = seq(k)]
               n == Len(repaired)
    <3>1. n \in Nat /\ \A k \in 1..n : one(k) \in Messages
      BY <1>4, <1>5
    <3>2. all = [k \in 1..n |-> one(k)] /\ DOMAIN repaired = 1..n
      BY <1>4, <2>1
    <3> HIDE DEF all, one, n
    <3>3. all \in Seq(Messages) /\ DOMAIN all = 1..n /\ Len(all) = n
      BY <3>1, <3>2
    <3> QED
      BY <3>2, <3>3 DEF n
  <2>3. (all = <<>> <=> Len(all) = 0) /\ (repaired = <<>> <=> Len(repaired) = 0)
    <3> HIDE DEF all
    <3> QED
      BY <1>2, <2>2
  <2> QED
    BY <2>2, <2>3
<1>7. \A k \in DOMAIN repaired :
        all[k].role = repaired[k].role /\ all[k].calls = repaired[k].calls /\ all[k].call = repaired[k].call
  BY <1>4, <1>5
<1>8. Valid(all)
  <2> HIDE DEF all
  <2> QED
    BY <1>2, <1>6, <1>7, ValidAlike
<1> QED
  BY <1>3, <1>6, <1>8

----------------------------------------------------------------------------
(* Every step. *)

LEMMA QuietEvents ==
  /\ UserMsg(NoId) \in Events /\ Quiet(UserMsg(NoId))
  /\ \A calls \in Seq(CallIds) : AssistantMsg(calls) \in Events /\ Quiet(AssistantMsg(calls))
  /\ \A call \in CallIds : ToolResult(call) \in Events /\ Quiet(ToolResult(call))
  /\ \A summary \in BOOLEAN, firstKept \in Nat, pinned \in SUBSET Nat, pruned \in SUBSET CallIds :
       LET c == Compaction(summary, firstKept, pinned, pruned) IN c \in Events /\ Quiet(c)
<1>1. NoId \in Sessions \X Nat
  BY EventLogAssumption DEF NoId
<1>2. UserMsg(NoId) \in Events /\ Quiet(UserMsg(NoId))
  BY <1>1 DEF UserMsg, Events, Quiet, Is
<1>3. \A calls \in Seq(CallIds) : AssistantMsg(calls) \in Events /\ Quiet(AssistantMsg(calls))
  BY DEF AssistantMsg, Events, Quiet, Is
<1>4. \A call \in CallIds : ToolResult(call) \in Events /\ Quiet(ToolResult(call))
  BY DEF ToolResult, Events, Quiet, Is
<1>5. ASSUME NEW summary \in BOOLEAN, NEW firstKept \in Nat, NEW pinned \in SUBSET Nat, NEW pruned \in SUBSET CallIds
      PROVE  LET c == Compaction(summary, firstKept, pinned, pruned) IN c \in Events /\ Quiet(c)
  <2>1. Compaction(summary, firstKept, pinned, pruned) \in Compactions
    BY DEF Compaction, Compactions
  <2>2. Compaction(summary, firstKept, pinned, pruned).type = "compaction"
    BY DEF Compaction
  <2> QED
    BY <2>1, <2>2 DEF Events, Quiet, Is
<1> QED
  BY <1>2, <1>3, <1>4, <1>5

\* What compact() appends.
LEMMA CompactionTyped ==
  ASSUME NEW l \in Seq(Events)
  PROVE  LET ms == MessagesWithSeqs(l) IN
         /\ ms \in Seq(Messages)
         /\ LastCompaction(l).pruned \in SUBSET CallIds
         /\ \A upto \in 1..Len(ms) : Prunable(ms, upto) \in SUBSET CallIds
         /\ Pinned(ms) \in SUBSET Nat
         /\ \A cut \in Cuts(ms) : cut \in 1..Len(ms) /\ ms[cut].seq \in Nat
<1> DEFINE ms == MessagesWithSeqs(l)
<1>1. ms \in Seq(Messages)
  BY TranscriptOf
<1> HIDE DEF ms
<1>2. Len(ms) \in Nat /\ DOMAIN ms = 1..Len(ms) /\ \A i \in 1..Len(ms) : ms[i].seq \in Nat /\ ms[i].call \in CallIds
  <2>1. Len(ms) \in Nat /\ DOMAIN ms = 1..Len(ms) /\ \A i \in 1..Len(ms) : ms[i] \in Messages
    BY <1>1
  <2>2. \A m \in Messages : m.seq \in Nat /\ m.call \in CallIds
    BY DEF Messages
  <2> QED
    BY <2>1, <2>2
<1>3. LastCompaction(l).pruned \in SUBSET CallIds
  BY LastCompactionTyped DEF Compactions
<1>4. \A upto \in 1..Len(ms) : Prunable(ms, upto) \in SUBSET CallIds
  BY <1>2 DEF Prunable
<1>5. Pinned(ms) \in SUBSET Nat
  <2>1. CASE Users(ms) = {}
    BY <2>1 DEF Pinned
  <2>2. CASE Users(ms) # {}
    <3>1. Users(ms) \subseteq 1..Len(ms)
      BY <1>2 DEF Users
    <3>2. \E n \in Users(ms) : \A m \in Users(ms) : n <= m
      BY <2>2, <3>1, LeastNumber
    <3>3. Min(Users(ms)) \in Users(ms)
      BY <3>2 DEF Min
    <3> QED
      BY <1>2, <2>2, <3>1, <3>3 DEF Pinned, FirstUser
  <2> QED
    BY <2>1, <2>2
<1>6. \A cut \in Cuts(ms) : cut \in 1..Len(ms) /\ ms[cut].seq \in Nat
  BY <1>2 DEF Cuts
<1> QED
  BY <1>1, <1>3, <1>4, <1>5, <1>6 DEF ms

\* A step that appends something quiet, or nothing, and moves one session.
LEMMA QuietMove ==
  ASSUME TypeInv, LogInv, NEW s \in Sessions, NEW p \in Places, p \notin {"absent", "copying", "draining"},
         pc' = [pc EXCEPT ![s] = p], listed' = listed, todo' = todo, fork' = fork,
         log' = log \/ \E e \in Events : Quiet(e) /\ log' = [log EXCEPT ![s] = Append(@, e)],
         open' \in [Sessions -> Seq(CallIds)],
         p = "calling" => open'[s] # <<>>,
         \A r \in Sessions \ {s} : open'[r] = open[r],
         p \in Working => \A u \in Left(s, log[s]) : u > listed[s]
  PROVE  EventLogInv'
<1>1. LogInv'
  BY QuietStep
<1>2. log' \in [Sessions -> Seq(Events)]
  BY AppendGrows DEF TypeInv
<1>3. pc' \in [Sessions -> Places] /\ \A r \in Sessions : pc'[r] = "calling" => open'[r] # <<>>
  BY DEF TypeInv
<1> QED
  BY <1>1, <1>2, <1>3 DEF EventLogInv, TypeInv

\* While a turn is under way nothing older than its drain is owed.
LEMMA WorkingOwesNothing ==
  ASSUME LogInv, NEW s \in Sessions, pc[s] \in Working
  PROVE  \A u \in Left(s, log[s]) : u > listed[s]
BY DEF LogInv, Drains

\* The steps that append something quiet, or nothing.
LEMMA QuietActions ==
  ASSUME TypeInv, LogInv, NEW s \in Sessions,
         \/ Start(s) \/ Say(s) \/ Drained(s) \/ PruneOnly(s) \/ Summarise(s)
         \/ Answer(s) \/ StopHook(s) \/ AppendResult(s)
  PROVE  EventLogInv'
<1> USE DEF Goto, AppendEvent
<1>1. log[s] \in Seq(Events) /\ open \in [Sessions -> Seq(CallIds)] /\ Len(log[s]) \in Nat
  BY DEF TypeInv
<1>2. {"top", "turn", "prompt", "retried", "answered", "calling"} \subseteq Places
      /\ {"turn", "prompt", "retried", "answered", "calling"} \subseteq Working /\ "top" \notin Working
  BY DEF Places, Working, Prompting
<1>3. CASE Start(s) \/ Say(s) \/ StopHook(s)
  <2>1. /\ pc' = [pc EXCEPT ![s] = "top"] /\ todo' = todo /\ open' = open /\ fork' = fork /\ listed' = listed
        /\ log' = log \/ log' = [log EXCEPT ![s] = Append(@, UserMsg(NoId))]
    BY <1>3 DEF Start, Say, StopHook
  <2> QED
    BY <1>1, <1>2, <2>1, QuietEvents, QuietMove
<1>4. CASE Drained(s)
  <2>1. /\ pc[s] = "draining" /\ todo[s] = <<>> /\ pc' = [pc EXCEPT ![s] = "turn"]
        /\ log' = log /\ todo' = todo /\ open' = open /\ fork' = fork /\ listed' = listed
    BY <1>4 DEF Drained
  <2>2. Enumerates(<<>>, Left(s, log[s]), listed[s]) /\ listed[s] \in Nat
    BY <2>1 DEF LogInv, Drains, TypeInv
  <2>3. ASSUME NEW u \in Left(s, log[s]) PROVE u > listed[s]
    <3>1. u \in 1..Len(log[s])
      BY <1>1 DEF Left, Queued
    <3>2. u \notin 1..listed[s]
      BY <2>2 DEF Enumerates
    <3> QED
      BY <1>1, <2>2, <3>1, <3>2
  <2> QED
    BY <1>1, <1>2, <2>1, <2>3, QuietMove
<1>5. CASE PruneOnly(s)
  <2> DEFINE ms == MessagesWithSeqs(log[s])
             before == LastCompaction(log[s]).pruned
  <2>1. PICK p \in {"prompt", "retried"} : pc' = [pc EXCEPT ![s] = p]
    BY <1>5 DEF PruneOnly, Compacts
  <2>2. pc[s] \in Working
    BY <1>2, <1>5 DEF PruneOnly, Compacts
  <2>3. PICK upto \in 1..Len(ms) :
          log' = [log EXCEPT ![s] = Append(@, Compaction(FALSE, 0, {}, before \union Prunable(ms, upto)))]
    BY <1>5 DEF PruneOnly
  <2>4. before \union Prunable(ms, upto) \in SUBSET CallIds
    BY <1>1, CompactionTyped
  <2> HIDE DEF before, ms
  <2> DEFINE e == Compaction(FALSE, 0, {}, before \union Prunable(ms, upto))
  <2>5. e \in Events /\ Quiet(e)
    BY <2>4, QuietEvents
  <2> HIDE DEF e
  <2>6. log' = [log EXCEPT ![s] = Append(@, e)]
    BY <2>3 DEF e
  <2>7. todo' = todo /\ open' = open /\ fork' = fork /\ listed' = listed
    BY <1>5 DEF PruneOnly
  <2>8. \A u \in Left(s, log[s]) : u > listed[s]
    BY <2>2, WorkingOwesNothing
  <2> QED
    BY <1>1, <1>2, <2>1, <2>5, <2>6, <2>7, <2>8, QuietMove
<1>6. CASE Summarise(s)
  <2> DEFINE ms == MessagesWithSeqs(log[s])
             before == LastCompaction(log[s]).pruned
  <2>1. PICK p \in {"prompt", "retried"} : pc' = [pc EXCEPT ![s] = p]
    BY <1>6 DEF Summarise, Compacts
  <2>2. pc[s] \in Working
    BY <1>2, <1>6 DEF Summarise, Compacts
  <2>3. PICK cut \in Cuts(ms) :
          log' = [log EXCEPT ![s] =
                    Append(@, Compaction(TRUE, ms[cut].seq, Pinned(ms), before \union Prunable(ms, cut)))]
    BY <1>6 DEF Summarise
  <2>4. ms[cut].seq \in Nat /\ Pinned(ms) \in SUBSET Nat /\ before \union Prunable(ms, cut) \in SUBSET CallIds
    BY <1>1, CompactionTyped
  <2> HIDE DEF before, ms
  <2> DEFINE e == Compaction(TRUE, ms[cut].seq, Pinned(ms), before \union Prunable(ms, cut))
  <2>5. e \in Events /\ Quiet(e)
    BY <2>4, QuietEvents
  <2> HIDE DEF e
  <2>6. log' = [log EXCEPT ![s] = Append(@, e)]
    BY <2>3 DEF e
  <2>7. todo' = todo /\ open' = open /\ fork' = fork /\ listed' = listed
    BY <1>6 DEF Summarise
  <2>8. \A u \in Left(s, log[s]) : u > listed[s]
    BY <2>2, WorkingOwesNothing
  <2> QED
    BY <1>1, <1>2, <2>1, <2>5, <2>6, <2>7, <2>8, QuietMove
<1>7. CASE Answer(s)
  <2>1. PICK n \in 0..MaxCalls :
          LET calls == [k \in 1..n |-> <<Len(log[s]) + 1, k>>] IN
          /\ log' = [log EXCEPT ![s] = Append(@, AssistantMsg(calls))]
          /\ open' = [open EXCEPT ![s] = calls]
          /\ pc' = [pc EXCEPT ![s] = IF n = 0 THEN "answered" ELSE "calling"]
    BY <1>7 DEF Answer
  <2> DEFINE calls == [k \in 1..n |-> <<Len(log[s]) + 1, k>>]
             p == IF n = 0 THEN "answered" ELSE "calling"
  <2>2. calls \in Seq(CallIds) /\ Len(calls) = n /\ n \in Nat
    BY <1>1, EventLogAssumption DEF CallIds
  <2>3. /\ log' = [log EXCEPT ![s] = Append(@, AssistantMsg(calls))]
        /\ open' = [open EXCEPT ![s] = calls] /\ pc' = [pc EXCEPT ![s] = p]
    BY <2>1
  <2> HIDE DEF calls
  <2>4. AssistantMsg(calls) \in Events /\ Quiet(AssistantMsg(calls))
    BY <2>2, QuietEvents
  <2>5. p \in {"answered", "calling"} /\ (p = "calling" => calls # <<>>)
    BY <2>2
  <2> HIDE DEF p
  <2>6. /\ todo' = todo /\ fork' = fork /\ listed' = listed /\ pc[s] \in Working
    BY <1>2, <1>7 DEF Answer, Prompting
  <2>7. \A u \in Left(s, log[s]) : u > listed[s]
    BY <2>6, WorkingOwesNothing
  <2>8. open' \in [Sessions -> Seq(CallIds)] /\ open'[s] = calls /\ \A r \in Sessions \ {s} : open'[r] = open[r]
    BY <1>1, <2>2, <2>3
  <2> QED
    BY <1>2, <2>3, <2>4, <2>5, <2>6, <2>7, <2>8, QuietMove
<1>8. CASE AppendResult(s)
  <2> DEFINE p == IF Len(open[s]) = 1 THEN "top" ELSE "calling"
  <2>1. /\ pc[s] = "calling" /\ log' = [log EXCEPT ![s] = Append(@, ToolResult(Head(open[s])))]
        /\ open' = [open EXCEPT ![s] = Tail(@)] /\ pc' = [pc EXCEPT ![s] = p]
        /\ todo' = todo /\ fork' = fork /\ listed' = listed
    BY <1>8 DEF AppendResult
  <2>2. open[s] # <<>> /\ open[s] \in Seq(CallIds)
    BY <2>1 DEF TypeInv
  <2>3. Head(open[s]) \in CallIds /\ Tail(open[s]) \in Seq(CallIds) /\ Len(Tail(open[s])) = Len(open[s]) - 1
        /\ Len(open[s]) \in Nat
    BY <2>2
  <2>4. ToolResult(Head(open[s])) \in Events /\ Quiet(ToolResult(Head(open[s])))
    BY <2>3, QuietEvents
  <2>5. p \in {"top", "calling"} /\ (p = "calling" => Tail(open[s]) # <<>>)
    <3>1. Len(open[s]) # 0
      BY <2>2
    <3>2. Len(open[s]) # 1 => Len(Tail(open[s])) # 0
      BY <2>3, <3>1
    <3>3. Len(Tail(open[s])) # 0 => Tail(open[s]) # <<>>
      <4> DEFINE rest == Tail(open[s])
      <4>1. rest = <<>> => Len(rest) = 0
        <5> HIDE DEF rest
        <5> QED
          OBVIOUS
      <4> QED
        BY <4>1
    <3> QED
      BY <3>2, <3>3
  <2> HIDE DEF p
  <2>6. \A u \in Left(s, log[s]) : u > listed[s]
    BY <1>2, <2>1, WorkingOwesNothing
  <2>7. open' \in [Sessions -> Seq(CallIds)] /\ open'[s] = Tail(open[s])
        /\ \A r \in Sessions \ {s} : open'[r] = open[r]
    BY <1>1, <2>1, <2>3
  <2> QED
    BY <1>2, <2>1, <2>4, <2>5, <2>6, <2>7, QuietMove
<1> QED
  BY <1>3, <1>4, <1>5, <1>6, <1>7, <1>8
\* A run's end, and a fork's: whatever was open is dropped.
LEMMA LeavingActions ==
  ASSUME TypeInv, LogInv, NEW s \in Sessions, Stop(s) \/ Forked(s)
  PROVE  EventLogInv'
<1>1. PICK p \in {"pending", "ended"} : pc' = [pc EXCEPT ![s] = p]
  <2>1. CASE Stop(s)
    <3> DEFINE place == IF pc[s] = "copying" THEN "pending" ELSE "ended"
    <3>1. pc' = [pc EXCEPT ![s] = place]
      BY <2>1 DEF Stop, Goto
    <3>2. place \in {"pending", "ended"}
      OBVIOUS
    <3> HIDE DEF place
    <3> QED
      BY <3>1, <3>2
  <2>2. CASE Forked(s)
    BY <2>2 DEF Forked, Goto
  <2> QED
    BY <2>1, <2>2
<1>2. p \in Places /\ p \notin {"absent", "copying", "draining", "calling"} /\ p \notin Working
  BY DEF Places, AtRest, Working, Prompting
<1>3. log' = log \/ log' = [log EXCEPT ![s] = Append(@, UserMsg(NoId))]
  BY DEF Stop, Forked, AppendEvent
<1>4. log' = log \/ \E e \in Events : Quiet(e) /\ log' = [log EXCEPT ![s] = Append(@, e)]
  BY <1>3, QuietEvents
<1>5. /\ todo' = todo \/ todo' = [todo EXCEPT ![s] = <<>>]
      /\ open' = open \/ open' = [open EXCEPT ![s] = <<>>]
      /\ fork' = [fork EXCEPT ![s] = NoFork] /\ listed' = listed
  BY DEF Stop, Forked
<1>6. NoFork \in [from : Sessions, upto : Nat]
  BY EventLogAssumption DEF NoFork
<1>7. /\ todo' \in [Sessions -> Seq(Nat)]
      /\ \A r \in Sessions \ {s} : todo'[r] = todo[r] /\ fork'[r] = fork[r] /\ open'[r] = open[r]
      /\ fork' \in [Sessions -> [from : Sessions, upto : Nat]]
  <2>1. /\ todo \in [Sessions -> Seq(Nat)] /\ open \in [Sessions -> Seq(CallIds)]
        /\ fork \in [Sessions -> [from : Sessions, upto : Nat]]
    BY DEF TypeInv
  <2>2. todo' \in [Sessions -> Seq(Nat)] /\ \A r \in Sessions \ {s} : todo'[r] = todo[r]
    <3>1. CASE todo' = [todo EXCEPT ![s] = <<>>]
      <4>1. <<>> \in Seq(Nat)
        OBVIOUS
      <4> QED
        BY <2>1, <3>1, <4>1
    <3> QED
      BY <1>5, <2>1, <3>1
  <2>3. \A r \in Sessions \ {s} : open'[r] = open[r]
    <3>1. CASE open' = [open EXCEPT ![s] = <<>>]
      BY <2>1, <3>1
    <3> QED
      BY <1>5, <3>1
  <2>4. fork' \in [Sessions -> [from : Sessions, upto : Nat]] /\ \A r \in Sessions \ {s} : fork'[r] = fork[r]
    BY <1>5, <1>6, <2>1
  <2> QED
    BY <2>2, <2>3, <2>4
<1>8. open' \in [Sessions -> Seq(CallIds)]
  <2>1. open \in [Sessions -> Seq(CallIds)] /\ <<>> \in Seq(CallIds)
    BY DEF TypeInv
  <2>2. CASE open' = [open EXCEPT ![s] = <<>>]
    BY <2>1, <2>2
  <2> QED
    BY <1>5, <2>1, <2>2
<1>9. log' \in [Sessions -> Seq(Events)]
  BY <1>4, AppendGrows DEF TypeInv
<1>10. pc' \in [Sessions -> Places] /\ \A r \in Sessions : pc'[r] = "calling" => open'[r] # <<>>
  BY <1>1, <1>2, <1>7 DEF TypeInv
<1>11. LogInv'
  BY <1>1, <1>2, <1>4, <1>5, <1>7, QuietStep
<1> QED
  BY <1>5, <1>7, <1>8, <1>9, <1>10, <1>11 DEF EventLogInv, TypeInv

\* The steps that queue, read, deliver and copy keep the types.
LEMMA MovingTypes ==
  ASSUME TypeInv, LogInv, NEW s \in Sessions,
         \/ Interrupt(s) \/ ListInterrupts(s) \/ Deliver(s) \/ CopyEvent(s)
         \/ \E t \in Sessions : Fork(s, t)
  PROVE  TypeInv'
<1>1. CASE Interrupt(s)
  <2>1. /\ log' = [log EXCEPT ![s] = Append(@, InterruptQueued)] /\ pc' = pc /\ todo' = todo
        /\ open' = open /\ fork' = fork /\ listed' = listed
    BY <1>1 DEF Interrupt, AppendEvent
  <2>2. InterruptQueued \in Events
    BY DEF InterruptQueued, Events
  <2> QED
    BY <2>1, <2>2, AppendGrows DEF TypeInv
<1>2. CASE ListInterrupts(s)
  <2>1. /\ pc' = [pc EXCEPT ![s] = "draining"] /\ log' = log /\ fork' = fork /\ open' = open
        /\ todo' = [todo EXCEPT ![s] = InOrder(Undelivered(s), log[s])]
        /\ listed' = [listed EXCEPT ![s] = Len(log[s])]
    BY <1>2 DEF ListInterrupts, Goto
  <2>2. Len(log[s]) \in Nat
    BY DEF TypeInv
  <2>3. InOrder(Undelivered(s), log[s]) \in Seq(Nat)
    BY <2>2, InOrderEnumerates DEF Enumerates
  <2>4. "draining" \in Places
    BY DEF Places
  <2> HIDE DEF Places
  <2>5. pc' \in [Sessions -> Places] /\ \A r \in Sessions : pc'[r] = "calling" => open'[r] # <<>>
    BY <2>1, <2>4 DEF TypeInv
  <2> QED
    BY <2>1, <2>2, <2>3, <2>5 DEF TypeInv
<1>3. CASE Deliver(s)
  <2> DEFINE h == Head(todo[s])
  <2>1. /\ pc[s] = "draining" /\ todo[s] # <<>>
        /\ log' = [log EXCEPT ![s] = Append(@, UserMsg(EventId(s, h)))]
        /\ todo' = [todo EXCEPT ![s] = Tail(@)] /\ pc' = pc /\ fork' = fork /\ listed' = listed
        /\ open' = open
    BY <1>3 DEF Deliver, AppendEvent
  <2>2. h \in Nat /\ Tail(todo[s]) \in Seq(Nat)
    <3> DEFINE list == todo[s]
    <3>1. list \in Seq(Nat) /\ list # <<>>
      BY <2>1 DEF TypeInv
    <3> HIDE DEF list
    <3>2. Head(list) \in Nat /\ Tail(list) \in Seq(Nat)
      BY <3>1
    <3> QED BY <3>2 DEF list
  <2> HIDE DEF h
  <2>3. UserMsg(EventId(s, h)) \in Events
    BY <2>2 DEF UserMsg, EventId, Events
  <2>4. log' \in [Sessions -> Seq(Events)]
    BY <2>1, <2>3, AppendGrows
  <2> QED
    BY <2>1, <2>2, <2>4 DEF TypeInv
<1>4. CASE CopyEvent(s)
  <2> DEFINE x == fork[s].from
             new == Len(log[s]) + 1
  <2>1. /\ pc[s] = "copying" /\ Len(log[s]) < fork[s].upto
        /\ log' = [log EXCEPT ![s] = Append(@, log[x][new])]
        /\ pc' = pc /\ todo' = todo /\ fork' = fork /\ listed' = listed /\ open' = open
    BY <1>4 DEF CopyEvent, AppendEvent
  <2>2. /\ x \in Sessions /\ log[x] \in Seq(Events) /\ fork[s].upto \in Nat
        /\ Len(log[s]) \in Nat /\ Len(log[x]) \in Nat
    BY DEF TypeInv
  <2>3. fork[s].upto <= Len(log[x])
    BY <2>1 DEF LogInv, CopiesArePrefixes
  <2> HIDE DEF x
  <2>4. log[x][new] \in Events
    BY <2>1, <2>2, <2>3
  <2>5. log' \in [Sessions -> Seq(Events)]
    BY <2>1, <2>4, AppendGrows
  <2> QED
    BY <2>1, <2>5 DEF TypeInv
<1>5. ASSUME NEW t \in Sessions, Fork(s, t) PROVE TypeInv'
  <2>1. PICK cut \in 0..Len(log[s]) :
          fork' = [fork EXCEPT ![t] = [from |-> s, upto |-> ForkEnd(log[s], cut)]]
    BY <1>5 DEF Fork
  <2>2. /\ pc' = [pc EXCEPT ![t] = "copying"] /\ log' = log /\ todo' = todo /\ listed' = listed
        /\ open' = open
    BY <1>5 DEF Fork, Goto
  <2>3. Len(log[s]) \in Nat
    BY DEF TypeInv
  <2>4. ForkEnd(log[s], cut) \in Nat
    BY <2>3, ForkEndBounded
  <2>5. "copying" \in Places
    BY DEF Places
  <2>6. pc' \in [Sessions -> Places] /\ \A r \in Sessions : pc'[r] = "calling" => open'[r] # <<>>
    BY <2>2, <2>5 DEF TypeInv
  <2>7. fork' \in [Sessions -> [from : Sessions, upto : Nat]]
    BY <2>1, <2>4 DEF TypeInv
  <2> QED
    BY <2>2, <2>6, <2>7 DEF TypeInv
<1> QED
  BY <1>1, <1>2, <1>3, <1>4, <1>5

LEMMA EventLogInit == ASSUME Init PROVE EventLogInv
<1>1. /\ log = [s \in Sessions |-> <<>>] /\ todo = [s \in Sessions |-> <<>>]
      /\ open = [s \in Sessions |-> <<>>] /\ fork = [s \in Sessions |-> NoFork]
      /\ listed = [s \in Sessions |-> 0] /\ pc \in [Sessions -> {"absent", "pending"}]
  BY DEF Init
<1>2. NoFork \in [from : Sessions, upto : Nat]
  BY EventLogAssumption DEF NoFork
<1>3. {"absent", "pending"} \subseteq Places /\ {"absent", "pending"} \intersect Working = {}
  BY DEF Places, AtRest, Working, Prompting
<1>4. \A s \in Sessions : log[s] = <<>> /\ Len(log[s]) = 0 /\ Said(log[s]) = {} /\ Left(s, log[s]) = {}
  BY <1>1 DEF Said, Left, Queued
<1>5. TypeInv
  <2>1. log \in [Sessions -> Seq(Events)] /\ todo \in [Sessions -> Seq(Nat)] /\ open \in [Sessions -> Seq(CallIds)]
    BY <1>1
  <2>2. pc \in [Sessions -> Places] /\ \A s \in Sessions : pc[s] # "calling"
    BY <1>1, <1>3
  <2> QED
    BY <1>1, <1>2, <2>1, <2>2 DEF TypeInv
<1>6. CopiesArePrefixes
  BY <1>1, <1>4 DEF CopiesArePrefixes
<1>7. NamesStand
  BY <1>4 DEF NamesStand
<1>8. ASSUME NEW s \in Sessions PROVE Ordered(log[s]) /\ OldestFirst(s, log[s]) /\ Drains(s)
  <2>1. pc[s] # "draining" /\ pc[s] \notin Working /\ listed[s] = 0
    BY <1>1, <1>3
  <2>2. Ordered(log[s]) /\ OldestFirst(s, log[s])
    BY <1>4 DEF Ordered, OldestFirst
  <2>3. listed[s] <= Len(log[s])
    BY <1>4, <2>1
  <2> QED
    BY <2>1, <2>2, <2>3 DEF Drains
<1> QED
  BY <1>5, <1>6, <1>7, <1>8 DEF EventLogInv, LogInv

LEMMA EventLogNext == ASSUME EventLogInv, [Next]_vars PROVE EventLogInv'
<1>1. TypeInv /\ LogInv
  BY DEF EventLogInv
<1>2. ASSUME NEW s \in Sessions,
             \/ Start(s) \/ Say(s) \/ Drained(s) \/ PruneOnly(s) \/ Summarise(s)
             \/ Answer(s) \/ StopHook(s) \/ AppendResult(s)
      PROVE  EventLogInv'
  BY <1>1, <1>2, QuietActions
<1>3. ASSUME NEW s \in Sessions, Stop(s) \/ Forked(s) PROVE EventLogInv'
  BY <1>1, <1>3, LeavingActions
<1>4. ASSUME NEW s \in Sessions, Interrupt(s) \/ ListInterrupts(s) \/ Deliver(s) \/ CopyEvent(s)
      PROVE  EventLogInv'
  <2>1. TypeInv'
    BY <1>1, <1>4, MovingTypes
  <2>2. LogInv'
    BY <1>1, <1>4, InterruptStep, ListStep, DeliverStep, CopyStep
  <2> QED
    BY <2>1, <2>2 DEF EventLogInv
<1>5. ASSUME NEW s \in Sessions, NEW t \in Sessions, Fork(s, t) PROVE EventLogInv'
  <2>1. TypeInv'
    BY <1>1, <1>5, MovingTypes
  <2> QED
    BY <1>1, <1>5, <2>1, ForkStep DEF EventLogInv
<1>6. CASE UNCHANGED vars
  <2>1. /\ log' = log /\ pc' = pc /\ todo' = todo /\ open' = open /\ fork' = fork /\ listed' = listed
    BY <1>6 DEF vars
  <2>2. TypeInv'
    BY <1>1, <2>1 DEF TypeInv
  <2>3. CopiesArePrefixes' /\ NamesStand'
    BY <1>1, <2>1 DEF LogInv, CopiesArePrefixes, NamesStand
  <2>4. \A r \in Sessions : Ordered(log'[r]) /\ OldestFirst(r, log'[r]) /\ Drains(r)'
    BY <1>1, <2>1, OthersStay
  <2> QED
    BY <2>2, <2>3, <2>4 DEF EventLogInv, LogInv
<1> QED
  BY <1>2, <1>3, <1>4, <1>5, <1>6 DEF Next

LEMMA EventLogInvariant == Spec => []EventLogInv
<1>1. Init => EventLogInv
  BY EventLogInit
<1>2. EventLogInv /\ [Next]_vars => EventLogInv'
  BY EventLogNext
<1> QED
  BY <1>1, <1>2, PTL DEF Spec
----------------------------------------------------------------------------
(* What a log owes, and when repair has nothing to add. *)

\* What is owed after each message, when no result comes uncalled for.
Owes(owed, ms) ==
  /\ owed \in [0..Len(ms) -> Seq(CallIds)] /\ owed[0] = <<>>
  /\ \A k \in 1..Len(ms) :
       IF ms[k].role = "tool"
       THEN Contains(owed[k - 1], ms[k].call) /\ owed[k] = RemoveFirst(owed[k - 1], ms[k].call)
       ELSE owed[k] = ms[k].calls

\* Nothing but results came while some were owed.
Prompt(owed, ms, n) == \A k \in 1..n : ms[k].role # "tool" => owed[k - 1] = <<>>

LEMMA NothingAdded ==
  ASSUME NEW a \in Nat, NEW b \in Nat, NEW n \in Nat, a >= n
  PROVE  /\ a + b = n <=> a = n /\ b = 0
         /\ a + b + 1 >= n + 1
         /\ a + b + 1 = n + 1 <=> a = n /\ b = 0
OBVIOUS

LEMMA FlushAppends ==
  ASSUME NEW acc \in Repairs
  PROVE  /\ Flush(acc).out \in Seq(Messages)
         /\ Len(acc.out) \in Nat /\ Len(acc.pending) \in Nat /\ acc.out \in Seq(Messages)
         /\ acc.pending \in Seq(CallIds)
         /\ Len(Flush(acc).out) = Len(acc.out) + Len(acc.pending)
         /\ \A j \in 1..Len(acc.out) : Flush(acc).out[j] = acc.out[j]
<1> DEFINE fillers == [k \in DOMAIN acc.pending |-> Filler(acc.pending[k])]
           all == acc.out \o fillers
<1>1. acc.out \in Seq(Messages) /\ acc.pending \in Seq(CallIds)
  BY DEF Repairs
<1>2. \A c \in CallIds : Filler(c) \in Messages
  BY DEF Filler, Message, Messages, NoSeq, CallIds
<1>3. fillers \in Seq(Messages) /\ Len(fillers) = Len(acc.pending)
  BY <1>1, <1>2
<1>4. Flush(acc).out = all
  BY DEF Flush
<1> HIDE DEF fillers
<1>5. /\ all \in Seq(Messages) /\ Len(all) = Len(acc.out) + Len(acc.pending)
      /\ \A j \in 1..Len(acc.out) : all[j] = acc.out[j]
  <2> DEFINE o == acc.out
             p == acc.pending
  <2>1. o \in Seq(Messages) /\ Len(fillers) = Len(p)
    BY <1>1, <1>3
  <2>2. all = o \o fillers
    OBVIOUS
  <2> HIDE DEF o, p, all
  <2>3. /\ all \in Seq(Messages) /\ Len(all) = Len(o) + Len(fillers)
        /\ \A j \in 1..(Len(o) + Len(fillers)) : all[j] = IF j <= Len(o) THEN o[j] ELSE fillers[j - Len(o)]
    <3>1. /\ o \o fillers \in Seq(Messages) /\ Len(o \o fillers) = Len(o) + Len(fillers)
          /\ \A j \in 1..(Len(o) + Len(fillers)) :
               (o \o fillers)[j] = IF j <= Len(o) THEN o[j] ELSE fillers[j - Len(o)]
      <4>1. o \in Seq(Messages) /\ fillers \in Seq(Messages)
        BY <1>3, <2>1
      <4> QED
        BY <4>1, ConcatProperties, Zenon
    <3> QED
      BY <2>2, <3>1
  <2>4. Len(o) \in Nat /\ Len(fillers) \in Nat
    BY <1>3, <2>1
  <2>5. \A j \in 1..Len(o) : all[j] = o[j]
    BY <2>3, <2>4
  <2> QED
    BY <2>1, <2>3, <2>5 DEF o, p
<1> QED
  BY <1>1, <1>4, <1>5

\* How far repair has come, and whether it has changed anything yet.
Follows(acc, owed, ms, k) ==
  /\ acc.pending = owed[k]
  /\ Len(acc.out) >= k
  /\ Len(acc.out) = k <=> Prompt(owed, ms, k)
  /\ Prompt(owed, ms, k) => \A i \in 1..k : acc.out[i] = ms[i]

LEMMA FollowsStep ==
  ASSUME NEW ms \in Seq(Messages), NEW owed, Owes(owed, ms), NEW k \in Nat, k + 1 <= Len(ms),
         NEW acc \in Repairs, Follows(acc, owed, ms, k)
  PROVE  Follows(RepairStep(acc, ms[k + 1]), owed, ms, k + 1)
<1> DEFINE m == ms[k + 1]
           next == RepairStep(acc, m)
<1>1. Len(ms) \in Nat /\ k + 1 \in 1..Len(ms) /\ k \in 0..Len(ms) /\ (k + 1) - 1 = k
  OBVIOUS
<1>2. m \in Messages /\ owed[k] \in Seq(CallIds)
  BY <1>1 DEF Owes
<1>3. Prompt(owed, ms, k + 1) <=> Prompt(owed, ms, k) /\ (m.role # "tool" => owed[k] = <<>>)
  <2>1. \A j \in 1..(k + 1) : j \in 1..k \/ j = k + 1
    BY <1>1
  <2>2. \A j \in 1..k : j \in 1..(k + 1)
    BY <1>1
  <2> QED
    BY <1>1, <2>1, <2>2 DEF Prompt
<1>4. IF m.role = "tool"
      THEN Contains(owed[k], m.call) /\ owed[k + 1] = RemoveFirst(owed[k], m.call)
      ELSE owed[k + 1] = m.calls
  BY <1>1 DEF Owes
<1>5. /\ acc.out \in Seq(Messages) /\ Len(acc.out) \in Nat /\ Len(acc.pending) \in Nat
      /\ acc.pending = owed[k] /\ Len(acc.out) >= k /\ (Len(acc.out) = k <=> Prompt(owed, ms, k))
      /\ Prompt(owed, ms, k) => \A i \in 1..k : acc.out[i] = ms[i]
  BY FlushAppends DEF Follows
<1> HIDE DEF m
<1>6. CASE m.role = "tool"
  <2>1. next.out = Append(acc.out, m) /\ next.pending = RemoveFirst(acc.pending, m.call)
    BY <1>4, <1>5, <1>6 DEF RepairStep
  <2> HIDE DEF next
  <2>2. Len(next.out) = Len(acc.out) + 1 /\ \A i \in 1..Len(acc.out) : next.out[i] = acc.out[i]
    BY <1>2, <1>5, <2>1
  <2>3. next.out[Len(acc.out) + 1] = m
    BY <1>2, <1>5, <2>1
  <2>4. Prompt(owed, ms, k + 1) => \A i \in 1..(k + 1) : next.out[i] = ms[i]
    BY <1>1, <1>3, <1>5, <2>2, <2>3 DEF m
  <2>5. Len(next.out) >= k + 1 /\ (Len(next.out) = k + 1 <=> Prompt(owed, ms, k + 1))
    BY <1>1, <1>3, <1>5, <1>6, <2>2
  <2>6. next.pending = owed[k + 1]
    BY <1>4, <1>5, <1>6, <2>1
  <2> QED
    BY <2>4, <2>5, <2>6 DEF Follows, next, m
<1>7. CASE m.role # "tool"
  <2> DEFINE flushed == Flush(acc).out
  <2>1. next.out = Append(flushed, m) /\ next.pending = m.calls
    BY <1>7 DEF RepairStep
  <2> HIDE DEF next
  <2>2. /\ flushed \in Seq(Messages) /\ Len(flushed) = Len(acc.out) + Len(acc.pending)
        /\ \A i \in 1..Len(acc.out) : flushed[i] = acc.out[i]
    BY FlushAppends
  <2> HIDE DEF flushed
  <2>3. Len(next.out) = Len(flushed) + 1 /\ next.out[Len(flushed) + 1] = m
        /\ \A i \in 1..Len(flushed) : next.out[i] = flushed[i]
    <3> DEFINE longer == next.out
    <3>1. longer = Append(flushed, m)
      BY <2>1
    <3> HIDE DEF longer
    <3>2. flushed \in Seq(Messages) /\ m \in Messages
      BY <1>2, <2>2
    <3>3. Len(longer) = Len(flushed) + 1 /\ longer[Len(flushed) + 1] = m
          /\ \A i \in 1..Len(flushed) : longer[i] = flushed[i]
      BY <3>1, <3>2, AppendProperties
    <3> QED
      BY <3>3 DEF longer
  <2>4. Len(acc.pending) = 0 <=> owed[k] = <<>>
    <3> DEFINE o == owed[k]
    <3>1. o \in Seq(CallIds) /\ acc.pending = o
      BY <1>2, <1>5
    <3> HIDE DEF o
    <3>2. Len(o) = 0 <=> o = <<>>
      BY <3>1
    <3> QED
      BY <3>1, <3>2 DEF o
  <2>5. Len(next.out) >= k + 1 /\ (Len(next.out) = k + 1 <=> Prompt(owed, ms, k + 1))
    <3>1. Len(next.out) = Len(acc.out) + Len(acc.pending) + 1
      BY <2>2, <2>3
    <3>4. /\ Len(acc.out) + Len(acc.pending) + 1 >= k + 1
          /\ Len(acc.out) + Len(acc.pending) + 1 = k + 1 <=> Len(acc.out) = k /\ Len(acc.pending) = 0
      <4> DEFINE a == Len(acc.out)
                 b == Len(acc.pending)
      <4>1. a \in Nat /\ b \in Nat /\ a >= k
        BY <1>5
      <4> HIDE DEF a, b
      <4>2. a + b + 1 >= k + 1 /\ (a + b + 1 = k + 1 <=> a = k /\ b = 0)
        BY <4>1, NothingAdded
      <4> QED
        BY <4>2 DEF a, b
    <3>2. Len(next.out) = k + 1 <=> Len(acc.out) = k /\ Len(acc.pending) = 0
      BY <3>1, <3>4
    <3>3. Len(next.out) >= k + 1
      BY <3>1, <3>4
    <3> QED
      BY <1>3, <1>5, <1>7, <2>4, <3>2, <3>3
  <2>6. ASSUME Prompt(owed, ms, k + 1), NEW i \in 1..(k + 1) PROVE next.out[i] = ms[i]
    <3>1. Len(acc.out) = k /\ Len(acc.pending) = 0
      BY <1>3, <1>5, <1>7, <2>4, <2>6
    <3>0. Len(flushed) = k
      BY <1>1, <2>2, <3>1
    <3>2. CASE i = k + 1
      BY <2>3, <3>0, <3>2 DEF m
    <3>3. CASE i # k + 1
      <4>1. i \in 1..k
        BY <1>1, <3>3
      <4> QED
        BY <1>3, <1>5, <2>2, <2>3, <2>6, <3>0, <3>1, <4>1
    <3> QED
      BY <3>2, <3>3
  <2>7. next.pending = owed[k + 1]
    BY <1>4, <1>7, <2>1
  <2> QED
    BY <2>5, <2>6, <2>7 DEF Follows, next, m
<1> QED
  BY <1>6, <1>7

\* Repair leaves a transcript as it is, or makes it longer: when nothing came before its time
\* and nothing is owed in the end, and otherwise.
LEMMA RepairFollows ==
  ASSUME NEW ms \in Seq(Messages), NEW owed, Owes(owed, ms)
  PROVE  LET calm == Prompt(owed, ms, Len(ms)) /\ owed[Len(ms)] = <<>> IN
         /\ calm => RepairTranscript(ms) = ms
         /\ Len(RepairTranscript(ms)) = Len(ms) => calm
<1>1. PICK acc \in [0..Len(ms) -> Repairs] :
        /\ acc[0] = [out |-> <<>>, pending |-> <<>>]
        /\ \A n \in 1..Len(ms) : acc[n] = RepairStep(acc[n - 1], ms[n])
        /\ RepairTranscript(ms) = Flush(acc[Len(ms)]).out
  BY RepairRuns
<1>2. Len(ms) \in Nat /\ DOMAIN ms = 1..Len(ms)
  OBVIOUS
<1> DEFINE S == {k \in Nat : k <= Len(ms) => Follows(acc[k], owed, ms, k)}
<1>3. 0 \in S
  <2>1. Prompt(owed, ms, 0) /\ owed[0] = <<>>
    BY DEF Prompt, Owes
  <2>2. acc[0].pending = <<>> /\ acc[0].out = <<>> /\ Len(acc[0].out) = 0
    BY <1>1
  <2> QED
    BY <2>1, <2>2 DEF Follows
<1>4. ASSUME NEW k \in Nat, k \in S PROVE k + 1 \in S
  <2> SUFFICES ASSUME k + 1 <= Len(ms) PROVE Follows(acc[k + 1], owed, ms, k + 1)
    OBVIOUS
  <2>1. k + 1 \in 1..Len(ms) /\ (k + 1) - 1 = k /\ k \in 0..Len(ms) /\ k <= Len(ms)
    BY <1>2
  <2>2. acc[k] \in Repairs /\ acc[k + 1] = RepairStep(acc[k], ms[k + 1]) /\ Follows(acc[k], owed, ms, k)
    BY <1>1, <1>4, <2>1
  <2> QED
    BY <2>2, FollowsStep
<1>5. Nat \subseteq S
  <2> HIDE DEF S
  <2> QED
    BY <1>3, <1>4, SetInduction
<1> DEFINE last == acc[Len(ms)]
<1>6. last \in Repairs /\ Follows(last, owed, ms, Len(ms)) /\ RepairTranscript(ms) = Flush(last).out
  BY <1>1, <1>2, <1>5
<1> HIDE DEF last
<1>7. /\ last.out \in Seq(Messages) /\ Len(last.out) \in Nat /\ Len(last.pending) \in Nat
      /\ last.pending \in Seq(CallIds) /\ Flush(last).out \in Seq(Messages)
      /\ Len(Flush(last).out) = Len(last.out) + Len(last.pending)
      /\ \A j \in 1..Len(last.out) : Flush(last).out[j] = last.out[j]
  BY <1>6, FlushAppends
<1>8. Len(last.pending) = 0 <=> owed[Len(ms)] = <<>>
  <2> DEFINE o == last.pending
  <2>1. o \in Seq(CallIds) /\ o = owed[Len(ms)]
    BY <1>6, <1>7 DEF Follows
  <2> HIDE DEF o
  <2>2. Len(o) = 0 <=> o = <<>>
    BY <2>1
  <2> QED
    BY <2>1, <2>2 DEF o
<1>9. ASSUME Prompt(owed, ms, Len(ms)), owed[Len(ms)] = <<>> PROVE RepairTranscript(ms) = ms
  <2>1. Len(last.out) = Len(ms) /\ Len(last.pending) = 0 /\ \A i \in 1..Len(ms) : last.out[i] = ms[i]
    BY <1>6, <1>8, <1>9 DEF Follows
  <2> DEFINE all == Flush(last).out
  <2>2. all \in Seq(Messages) /\ Len(all) = Len(ms) /\ \A i \in 1..Len(ms) : all[i] = ms[i]
    BY <1>2, <1>7, <2>1
  <2> HIDE DEF all
  <2>3. all = ms
    BY <1>2, <2>2
  <2> QED
    BY <1>6, <2>3 DEF all
<1>10. ASSUME Len(RepairTranscript(ms)) = Len(ms)
       PROVE  Prompt(owed, ms, Len(ms)) /\ owed[Len(ms)] = <<>>
  <2>1. Len(last.out) >= Len(ms) /\ (Len(last.out) = Len(ms) <=> Prompt(owed, ms, Len(ms)))
    BY <1>6 DEF Follows
  <2>2. Len(last.out) + Len(last.pending) = Len(ms)
    BY <1>6, <1>7, <1>10
  <2>3. Len(last.out) = Len(ms) /\ Len(last.pending) = 0
    <3> DEFINE a == Len(last.out)
               b == Len(last.pending)
               n == Len(ms)
    <3>1. a \in Nat /\ b \in Nat /\ n \in Nat /\ a >= n /\ a + b = n
      BY <1>2, <1>7, <2>1, <2>2
    <3> HIDE DEF a, b, n
    <3>2. a = n /\ b = 0
      BY <3>1, NothingAdded
    <3> QED
      BY <3>2 DEF a, b, n
  <2> QED
    BY <1>8, <2>1, <2>3
<1> QED
  BY <1>9, <1>10

\* A message that is no result.
HeadEvent(e) == Is("user_msg", e) \/ Is("assistant_msg", e)

\* The calls whose results are to come, after one more event.
OwedAfter(owed, e) ==
  CASE Is("assistant_msg", e) -> e.calls
    [] Is("user_msg", e) -> <<>>
    [] Is("tool_result", e) -> RemoveFirst(owed, e.call)
    [] OTHER -> owed

\* What is owed after each event of a log; a result is of a call that is owed.
Tracks(owed, l) ==
  /\ owed \in [0..Len(l) -> Seq(CallIds)] /\ owed[0] = <<>>
  /\ \A i \in 1..Len(l) :
       owed[i] = OwedAfter(owed[i - 1], l[i]) /\ (Is("tool_result", l[i]) => Contains(owed[i - 1], l[i].call))

FirstMsg(l, u) == Is("user_msg", l[u]) /\ \A j \in 1..(u - 1) : ~Is("user_msg", l[j])

\* From a on nothing was said, up to n, while a result was to come.
Settled(owed, l, a, n) ==
  owed[n] = <<>> /\ \A j \in (a + 1)..n : HeadEvent(l[j]) => owed[j - 1] = <<>>

\* A compaction after the first n events: it keeps what follows a message that is no result,
\* pins one user message at most, does not lose the first one, and a summary leaves no call
\* without its results.
Fits(owed, l, n, c) ==
  /\ c.firstKept = 0 \/ (c.firstKept \in 1..n /\ HeadEvent(l[c.firstKept]))
  /\ c.pinned = {} \/ \E u \in 1..n : c.pinned = {u} /\ Is("user_msg", l[u])
  /\ \A u \in 1..n : FirstMsg(l, u) => u >= c.firstKept \/ u \in c.pinned
  /\ c.summary => Settled(owed, l, c.firstKept, n)

Shape(owed, l) ==
  Tracks(owed, l) /\ \A i \in 1..Len(l) : Is("compaction", l[i]) => Fits(owed, l, i - 1, l[i])

LEMMA MessageEvents ==
  ASSUME NEW e \in Events
  PROVE  /\ e.type \in MessageTypes <=> HeadEvent(e) \/ Is("tool_result", e)
         /\ ~(HeadEvent(e) /\ Is("tool_result", e))
         /\ ~(Is("user_msg", e) /\ Is("assistant_msg", e))
         /\ Is("compaction", e) => e.type \notin MessageTypes /\ e \in Compactions
BY DEF Events, Compactions, Is, HeadEvent, MessageTypes

LEMMA OwedAfterEach ==
  ASSUME NEW owed, NEW e \in Events
  PROVE  /\ Is("assistant_msg", e) => OwedAfter(owed, e) = e.calls
         /\ Is("user_msg", e) => OwedAfter(owed, e) = <<>>
         /\ Is("tool_result", e) => OwedAfter(owed, e) = RemoveFirst(owed, e.call)
         /\ e.type \notin MessageTypes => OwedAfter(owed, e) = owed
BY DEF OwedAfter, Is, MessageTypes

\* Events that are no messages owe nothing and answer nothing.
LEMMA OwedStays ==
  ASSUME NEW l \in Seq(Events), NEW owed, Tracks(owed, l),
         NEW x \in 0..Len(l), NEW y \in x..Len(l), \A i \in (x + 1)..y : l[i].type \notin MessageTypes
  PROVE  owed[y] = owed[x]
<1>1. Len(l) \in Nat /\ x \in Nat /\ y \in Nat /\ x <= y /\ y <= Len(l)
  OBVIOUS
<1> DEFINE S == {d \in Nat : x + d <= y => owed[x + d] = owed[x]}
<1>2. 0 \in S
  BY <1>1
<1>3. ASSUME NEW d \in Nat, d \in S PROVE d + 1 \in S
  <2> SUFFICES ASSUME x + (d + 1) <= y PROVE owed[x + (d + 1)] = owed[x]
    OBVIOUS
  <2> DEFINE i == x + (d + 1)
  <2>1. i \in (x + 1)..y /\ i \in 1..Len(l) /\ i - 1 = x + d /\ x + d <= y
    BY <1>1
  <2>2. l[i] \in Events /\ l[i].type \notin MessageTypes
    BY <2>1
  <2> HIDE DEF i
  <2>3. owed[i] = OwedAfter(owed[i - 1], l[i])
    BY <2>1 DEF Tracks
  <2>4. owed[i] = owed[i - 1]
    BY <2>2, <2>3, OwedAfterEach
  <2>5. owed[x + d] = owed[x]
    BY <1>3, <2>1
  <2> QED
    BY <2>1, <2>4, <2>5 DEF i
<1>4. Nat \subseteq S
  <2> HIDE DEF S
  <2> QED
    BY <1>2, <1>3, SetInduction
<1>5. y - x \in Nat /\ x + (y - x) = y
  BY <1>1
<1> QED
  BY <1>4, <1>5

----------------------------------------------------------------------------
(* The transcript of a log, as the last compaction leaves it. *)

LEMMA LastCompactionIs ==
  ASSUME NEW l \in Seq(Events)
  PROVE  \/ /\ LastCompaction(l) = Compaction(FALSE, 0, {}, {})
            /\ \A i \in 1..Len(l) : ~Is("compaction", l[i])
         \/ \E i \in 1..Len(l) : /\ LastCompaction(l) = l[i] /\ Is("compaction", l[i])
                                 /\ \A j \in 1..Len(l) : Is("compaction", l[j]) => j <= i
<1> DEFINE cs == {i \in DOMAIN l : Is("compaction", l[i])}
<1>1. Len(l) \in Nat /\ DOMAIN l = 1..Len(l) /\ cs \subseteq 0..Len(l)
  OBVIOUS
<1>2. CASE cs = {}
  BY <1>1, <1>2 DEF LastCompaction
<1>3. CASE cs # {}
  <2>1. Max(cs) \in cs /\ \A j \in cs : j <= Max(cs)
    <3> HIDE DEF cs
    <3>1. \E n \in cs : \A m \in cs : n >= m
      BY <1>1, <1>3, GreatestNumber
    <3>2. Max(cs) \in cs /\ \A j \in cs : Max(cs) >= j
      BY <3>1 DEF Max
    <3> QED
      BY <1>1, <3>2
  <2>2. LastCompaction(l) = l[Max(cs)]
    BY <1>3 DEF LastCompaction
  <2>3. Max(cs) \in 1..Len(l) /\ Is("compaction", l[Max(cs)])
    BY <1>1, <2>1
  <2>4. \A j \in 1..Len(l) : Is("compaction", l[j]) => j <= Max(cs)
    BY <1>1, <2>1
  <2> HIDE DEF cs
  <2> QED
    BY <2>2, <2>3, <2>4
<1> QED
  BY <1>2, <1>3

\* What the last compaction promises of the log as it is now.
LEMMA LastCompactionFits ==
  ASSUME NEW l \in Seq(Events), NEW owed, Shape(owed, l)
  PROVE  LET c == LastCompaction(l) IN
         /\ c \in Compactions
         /\ c.firstKept = 0 \/ (c.firstKept \in 1..Len(l) /\ HeadEvent(l[c.firstKept]))
         /\ c.pinned = {} \/ \E u \in 1..Len(l) : c.pinned = {u} /\ Is("user_msg", l[u])
         /\ \A u \in 1..Len(l) : FirstMsg(l, u) => u >= c.firstKept \/ u \in c.pinned
<1> DEFINE c == LastCompaction(l)
<1>1. Len(l) \in Nat /\ c \in Compactions
  BY LastCompactionTyped
<1>2. CASE c = Compaction(FALSE, 0, {}, {})
  <2>1. c.firstKept = 0 /\ c.pinned = {}
    BY <1>2 DEF Compaction
  <2> HIDE DEF c
  <2> QED
    BY <1>1, <2>1 DEF c
<1>3. ASSUME NEW i \in 1..Len(l), c = l[i], Is("compaction", l[i])
      PROVE  /\ c.firstKept = 0 \/ (c.firstKept \in 1..Len(l) /\ HeadEvent(l[c.firstKept]))
             /\ c.pinned = {} \/ \E u \in 1..Len(l) : c.pinned = {u} /\ Is("user_msg", l[u])
             /\ \A u \in 1..Len(l) : FirstMsg(l, u) => u >= c.firstKept \/ u \in c.pinned
  <2>1. Fits(owed, l, i - 1, c)
    BY <1>3 DEF Shape
  <2> HIDE DEF c
  <2>2. i - 1 \in Nat /\ 1..(i - 1) \subseteq 1..Len(l) /\ c.firstKept \in Nat
    BY <1>1 DEF Compactions
  <2>3. ASSUME NEW u \in 1..Len(l), FirstMsg(l, u) PROVE u >= c.firstKept \/ u \in c.pinned
    <3>1. CASE u \in 1..(i - 1)
      BY <2>1, <2>3, <3>1 DEF Fits
    <3>2. CASE u \notin 1..(i - 1)
      <4>1. c.firstKept = 0 \/ c.firstKept \in 1..(i - 1)
        BY <2>1 DEF Fits
      <4> QED
        BY <2>2, <3>2, <4>1
    <3> QED
      BY <3>1, <3>2
  <2> QED
    BY <2>1, <2>2, <2>3 DEF Fits
<1> QED
  BY <1>1, <1>2, <1>3, LastCompactionIs

LEMMA MessagesAtPlaces ==
  ASSUME NEW l \in Seq(Events), NEW places
  PROVE  \E is \in Seq(Nat) :
           /\ Enumerates(is, {i \in places : l[i].type \in MessageTypes}, Len(l))
           /\ Len(MessagesAt(l, places)) = Len(is)
           /\ \A k \in 1..Len(is) : MessagesAt(l, places)[k] = ToMessage(l, is[k])
<1> DEFINE chosen == {i \in places : l[i].type \in MessageTypes}
           is == InOrder(chosen, l)
<1>1. Len(l) \in Nat
  OBVIOUS
<1>2. Enumerates(is, chosen, Len(l))
  BY <1>1, InOrderEnumerates
<1>3. is \in Seq(Nat) /\ DOMAIN is = 1..Len(is) /\ Len(is) \in Nat
  BY <1>2 DEF Enumerates
<1>4. MessagesAt(l, places) = [k \in DOMAIN is |-> ToMessage(l, is[k])]
  BY DEF MessagesAt
<1> HIDE DEF is
<1> DEFINE msgs == MessagesAt(l, places)
<1>5. msgs \in Seq(Messages)
  BY MessagesAtTyped
<1>6. DOMAIN msgs = 1..Len(is) /\ \A k \in 1..Len(is) : msgs[k] = ToMessage(l, is[k])
  BY <1>3, <1>4
<1> HIDE DEF msgs
<1>7. Len(msgs) = Len(is)
  BY <1>3, <1>5, <1>6
<1> QED
  BY <1>2, <1>3, <1>6, <1>7 DEF msgs

\* The transcript before repair: the pinned message and the summary, if any, and the
\* messages of the places that were kept.
Laid(l, m, is) ==
  LET c == LastCompaction(l)
      ms == Pairs(l) IN
  /\ m \in Nat /\ is \in Seq(Nat)
  /\ Enumerates(is, {i \in 1..Len(l) : i >= c.firstKept /\ l[i].type \in MessageTypes}, Len(l))
  /\ Len(ms) = m + Len(is)
  /\ \A k \in 1..Len(is) : ms[m + k] = ToMessage(l, is[k])
  /\ \A k \in 1..m :
       /\ ms[k].role = "user" /\ ms[k].calls = <<>>
       /\ ms[k].seq = NoSeq \/ (k = 1 /\ ms[k].seq \in c.pinned /\ ms[k].seq < c.firstKept)
  /\ \A u \in c.pinned : u < c.firstKept => m >= 1 /\ ms[1].seq = u

LEMMA PairsLaid ==
  ASSUME NEW l \in Seq(Events), NEW owed, Shape(owed, l)
  PROVE  \E m, is : Laid(l, m, is)
<1> DEFINE c == LastCompaction(l)
           early == {i \in DOMAIN l : i \in c.pinned /\ i < c.firstKept}
           late == {i \in DOMAIN l : i >= c.firstKept}
           before == MessagesAt(l, early)
           middle == IF c.summary THEN <<Summary>> ELSE <<>>
           after == MessagesAt(l, late)
           ms == Pairs(l)
<1>1. /\ c \in Compactions
      /\ c.pinned = {} \/ \E u \in 1..Len(l) : c.pinned = {u} /\ Is("user_msg", l[u])
      /\ Len(l) \in Nat /\ DOMAIN l = 1..Len(l)
  BY LastCompactionFits
<1>2. ms = before \o middle \o after
  BY DEF Pairs
<1>3. PICK p \in Seq(Nat) :
        /\ Enumerates(p, {i \in early : l[i].type \in MessageTypes}, Len(l))
        /\ Len(before) = Len(p)
        /\ \A k \in 1..Len(p) : before[k] = ToMessage(l, p[k])
  <2> HIDE DEF early
  <2> QED BY MessagesAtPlaces
<1>4. PICK is \in Seq(Nat) :
        /\ Enumerates(is, {i \in late : l[i].type \in MessageTypes}, Len(l))
        /\ Len(after) = Len(is)
        /\ \A k \in 1..Len(is) : after[k] = ToMessage(l, is[k])
  <2> HIDE DEF late
  <2> QED BY MessagesAtPlaces
<1>5. before \in Seq(Messages) /\ after \in Seq(Messages)
  BY MessagesAtTyped
<1>6. {i \in late : l[i].type \in MessageTypes} = {i \in 1..Len(l) : i >= c.firstKept /\ l[i].type \in MessageTypes}
  BY <1>1
<1>7. \A k \in 1..Len(p) : p[k] \in c.pinned /\ p[k] < c.firstKept /\ p[k] \in 1..Len(l)
  <2>1. DOMAIN p = 1..Len(p)
    OBVIOUS
  <2> QED
    BY <1>1, <1>3, <2>1 DEF Enumerates
<1>8. Len(p) \in Nat /\ Len(p) <= 1
  <2> SUFFICES ASSUME Len(p) >= 2 PROVE FALSE
    OBVIOUS
  <2>1. 1 \in 1..Len(p) /\ 2 \in 1..Len(p) /\ DOMAIN p = 1..Len(p)
    OBVIOUS
  <2>2. p[1] < p[2] /\ p[1] \in c.pinned /\ p[2] \in c.pinned /\ p[1] \in Nat /\ p[2] \in Nat
    <3>1. \A j, k \in DOMAIN p : j < k => p[j] < p[k]
      BY <1>3 DEF Enumerates
    <3>2. p[1] < p[2]
      <4>1. 1 \in DOMAIN p /\ 2 \in DOMAIN p
        BY <2>1
      <4> QED BY <3>1, <4>1
    <3> HIDE DEF c
    <3>3. p[1] \in c.pinned /\ p[2] \in c.pinned /\ p[1] \in Nat /\ p[2] \in Nat
      BY <1>7, <2>1
    <3> QED BY <3>2, <3>3
  <2> HIDE DEF c
  <2>3. p[1] = p[2]
    BY <1>1, <2>2
  <2> QED
    BY <2>2, <2>3
<1>9. \A u \in c.pinned : u < c.firstKept => Len(p) >= 1 /\ p[1] = u
  <2> SUFFICES ASSUME NEW u \in c.pinned, u < c.firstKept PROVE Len(p) >= 1 /\ p[1] = u
    OBVIOUS
  <2>1. u \in 1..Len(l) /\ Is("user_msg", l[u]) /\ c.pinned = {u}
    BY <1>1
  <2>2. u \in {i \in early : l[i].type \in MessageTypes}
    BY <1>1, <2>1 DEF Is, MessageTypes
  <2>3. PICK k \in DOMAIN p : p[k] = u
    BY <1>3, <2>1, <2>2 DEF Enumerates
  <2>4. k \in 1..Len(p)
    OBVIOUS
  <2>5. k = 1 /\ Len(p) >= 1
    BY <1>8, <2>4
  <2> QED
    BY <2>3, <2>5
<1>10. \A k \in 1..Len(p) :
         before[k].role = "user" /\ before[k].calls = <<>> /\ before[k].seq = p[k]
  <2> SUFFICES ASSUME NEW k \in 1..Len(p)
               PROVE  before[k].role = "user" /\ before[k].calls = <<>> /\ before[k].seq = p[k]
    OBVIOUS
  <2>1. p[k] \in c.pinned
    BY <1>7
  <2>2. Is("user_msg", l[p[k]])
    BY <1>1, <2>1
  <2>3. ToMessage(l, p[k]) = Message(p[k], "user", <<>>, NoCall)
    BY <2>2 DEF ToMessage, Is
  <2>4. before[k] = Message(p[k], "user", <<>>, NoCall)
    BY <1>3, <2>3
  <2> HIDE DEF before
  <2> QED
    BY <2>4 DEF Message
<1>11. /\ middle \in Seq(Messages) /\ Len(middle) \in {0, 1}
       /\ \A k \in 1..Len(middle) : middle[k].role = "user" /\ middle[k].calls = <<>> /\ middle[k].seq = NoSeq
  <2>1. Summary \in Messages /\ Summary.role = "user" /\ Summary.calls = <<>> /\ Summary.seq = NoSeq
    BY DEF Summary, Message, Messages, NoSeq, NoCall, CallIds
  <2>2. middle = <<Summary>> \/ middle = <<>>
    OBVIOUS
  <2> HIDE DEF middle
  <2> QED
    <3> DEFINE one == <<Summary>>
    <3>1. one \in Seq(Messages) /\ Len(one) = 1 /\ one[1] = Summary
      BY <2>1
    <3>2. CASE middle = one
      <4> HIDE DEF one
      <4>1. Len(middle) = 1 /\ middle[1] = Summary /\ middle \in Seq(Messages)
        BY <3>1, <3>2
      <4>2. \A k \in 1..Len(middle) : k = 1
        BY <4>1
      <4> QED
        BY <2>1, <4>1, <4>2
    <3>3. CASE middle = <<>>
      <4>1. Len(middle) = 0 /\ middle \in Seq(Messages) /\ 1..Len(middle) = {}
        BY <3>3
      <4> QED
        BY <4>1
    <3> QED
      BY <2>2, <3>2, <3>3
<1> HIDE DEF before, middle, after, c, ms, early, late
<1> DEFINE m == Len(p) + Len(middle)
           opening == before \o middle
<1>12. /\ Len(p) \in Nat /\ Len(middle) \in Nat /\ Len(is) \in Nat /\ m \in Nat
  BY <1>8, <1>11
<1>13. /\ opening \in Seq(Messages) /\ Len(opening) = m
       /\ \A k \in 1..m : opening[k] = IF k <= Len(p) THEN before[k] ELSE middle[k - Len(p)]
  <2>1. /\ before \in Seq(Messages) /\ middle \in Seq(Messages)
    BY <1>5, <1>11
  <2>2. /\ opening \in Seq(Messages) /\ Len(opening) = Len(before) + Len(middle)
        /\ \A k \in 1..(Len(before) + Len(middle)) :
             opening[k] = IF k <= Len(before) THEN before[k] ELSE middle[k - Len(before)]
    BY <2>1, ConcatProperties, Zenon
  <2> HIDE DEF opening
  <2> QED
    BY <1>3, <2>2
<1>14. ms = opening \o after
  BY <1>2
<1> HIDE DEF m, opening
<1>15. /\ Len(ms) = m + Len(is)
       /\ \A k \in 1..(m + Len(is)) : ms[k] = IF k <= m THEN opening[k] ELSE after[k - m]
  <2>1. /\ Len(opening \o after) = Len(opening) + Len(after)
        /\ \A k \in 1..(Len(opening) + Len(after)) :
             (opening \o after)[k] = IF k <= Len(opening) THEN opening[k] ELSE after[k - Len(opening)]
    BY <1>5, <1>13, ConcatProperties, Zenon
  <2> QED
    BY <1>4, <1>13, <1>14, <2>1
<1>16. \A k \in 1..Len(is) : ms[m + k] = ToMessage(l, is[k])
  <2> SUFFICES ASSUME NEW k \in 1..Len(is) PROVE ms[m + k] = ToMessage(l, is[k])
    OBVIOUS
  <2>1. m + k \in 1..(m + Len(is)) /\ ~(m + k <= m) /\ (m + k) - m = k
    BY <1>12
  <2> QED
    BY <1>4, <1>15, <2>1
<1>17. \A k \in 1..m :
         /\ ms[k].role = "user" /\ ms[k].calls = <<>>
         /\ ms[k].seq = NoSeq \/ (k = 1 /\ ms[k].seq \in c.pinned /\ ms[k].seq < c.firstKept)
  <2> SUFFICES ASSUME NEW k \in 1..m
               PROVE  /\ ms[k].role = "user" /\ ms[k].calls = <<>>
                      /\ ms[k].seq = NoSeq \/ (k = 1 /\ ms[k].seq \in c.pinned /\ ms[k].seq < c.firstKept)
    OBVIOUS
  <2>1. k \in 1..(m + Len(is)) /\ k <= m
    BY <1>12
  <2>2. ms[k] = IF k <= Len(p) THEN before[k] ELSE middle[k - Len(p)]
    BY <1>13, <1>15, <2>1
  <2>3. CASE k <= Len(p)
    <3>1. k \in 1..Len(p) /\ k = 1
      BY <1>8, <2>1, <2>3
    <3> QED
      BY <1>7, <1>10, <2>2, <2>3, <3>1
  <2>4. CASE ~(k <= Len(p))
    <3>1. k - Len(p) \in 1..Len(middle)
      BY <1>12, <2>4 DEF m
    <3> QED
      BY <1>11, <2>2, <2>4, <3>1
  <2> QED
    BY <2>3, <2>4
<1>18. \A u \in c.pinned : u < c.firstKept => m >= 1 /\ ms[1].seq = u
  <2> SUFFICES ASSUME NEW u \in c.pinned, u < c.firstKept PROVE m >= 1 /\ ms[1].seq = u
    OBVIOUS
  <2>1. Len(p) >= 1 /\ p[1] = u
    BY <1>9
  <2>2. 1 \in 1..m /\ 1 \in 1..(m + Len(is)) /\ 1 <= m /\ 1 <= Len(p) /\ 1 \in 1..Len(p)
    BY <1>12, <2>1 DEF m
  <2>3. ms[1] = before[1]
    BY <1>13, <1>15, <2>2
  <2> QED
    BY <1>10, <2>1, <2>2, <2>3
<1>19. Laid(l, m, is)
  BY <1>4, <1>6, <1>12, <1>15, <1>16, <1>17, <1>18 DEF Laid, c, ms
<1> QED
  BY <1>19

\* The message an event is.
LEMMA MessageOf ==
  ASSUME NEW l \in Seq(Events), NEW i \in 1..Len(l), l[i].type \in MessageTypes
  PROVE  LET m == ToMessage(l, i) IN
         /\ m.seq = i
         /\ m.role = "tool" <=> Is("tool_result", l[i])
         /\ m.role = "user" <=> Is("user_msg", l[i])
         /\ m.role # "tool" <=> HeadEvent(l[i])
         /\ m.role = "tool" => m.call = l[i].call
         /\ \A owed : m.role # "tool" => m.calls = OwedAfter(owed, l[i])
<1> DEFINE m == ToMessage(l, i)
<1>1. l[i] \in Events
  OBVIOUS
<1>2. CASE Is("user_msg", l[i])
  <2>1. m = Message(i, "user", <<>>, NoCall)
    BY <1>2 DEF ToMessage, Is
  <2> HIDE DEF m
  <2>2. m.seq = i /\ m.role = "user" /\ m.calls = <<>>
    BY <2>1 DEF Message
  <2>3. HeadEvent(l[i]) /\ ~Is("tool_result", l[i])
    BY <1>2 DEF HeadEvent, Is
  <2>4. \A owed : OwedAfter(owed, l[i]) = <<>>
    BY <1>1, <1>2, OwedAfterEach
  <2> QED
    BY <1>2, <2>2, <2>3, <2>4 DEF m
<1>3. CASE Is("assistant_msg", l[i])
  <2>1. m = Message(i, "assistant", l[i].calls, NoCall)
    BY <1>3 DEF ToMessage, Is
  <2> HIDE DEF m
  <2>2. m.seq = i /\ m.role = "assistant" /\ m.calls = l[i].calls
    BY <2>1 DEF Message
  <2>3. HeadEvent(l[i]) /\ ~Is("tool_result", l[i]) /\ ~Is("user_msg", l[i])
    BY <1>3 DEF HeadEvent, Is
  <2>4. \A owed : OwedAfter(owed, l[i]) = l[i].calls
    BY <1>1, <1>3, OwedAfterEach
  <2> QED
    BY <2>2, <2>3, <2>4 DEF m
<1>4. CASE Is("tool_result", l[i])
  <2>1. m = Message(i, "tool", <<>>, l[i].call)
    BY <1>4 DEF ToMessage, Is
  <2> HIDE DEF m
  <2>2. m.seq = i /\ m.role = "tool" /\ m.call = l[i].call
    BY <2>1 DEF Message
  <2>3. ~HeadEvent(l[i]) /\ ~Is("user_msg", l[i])
    BY <1>4 DEF HeadEvent, Is
  <2> QED
    BY <1>4, <2>2, <2>3 DEF m
<1> QED
  BY <1>2, <1>3, <1>4 DEF MessageTypes, Is

\* Between the kept messages nothing changes what is owed.
LEMMA OwedBetween ==
  ASSUME NEW l \in Seq(Events), NEW owed, Shape(owed, l), NEW m, NEW is, Laid(l, m, is)
  PROVE  LET a == LastCompaction(l).firstKept IN
         /\ Len(l) \in Nat /\ a \in Nat /\ m \in Nat /\ Len(is) \in Nat
         /\ \A k \in 1..Len(is) : is[k] \in 1..Len(l) /\ is[k] >= a /\ l[is[k]].type \in MessageTypes
         /\ \A i \in 1..Len(l) : i >= a /\ l[i].type \in MessageTypes => \E k \in 1..Len(is) : is[k] = i
         /\ \A j, k \in 1..Len(is) : j < k => is[j] < is[k]
         /\ \A k \in 1..Len(is) : k > 1 => owed[is[k] - 1] = owed[is[k - 1]]
         /\ Len(is) >= 1 => owed[is[Len(is)]] = owed[Len(l)]
         /\ Len(is) = 0 => owed[Len(l)] = <<>>
         /\ Len(is) >= 1 /\ (~HeadEvent(l[is[1]]) \/ is[1] > a) => owed[is[1] - 1] = <<>>
<1> DEFINE a == LastCompaction(l).firstKept
           places == {i \in 1..Len(l) : i >= a /\ l[i].type \in MessageTypes}
<1>1. /\ Len(l) \in Nat /\ DOMAIN l = 1..Len(l) /\ a \in Nat
      /\ a = 0 \/ (a \in 1..Len(l) /\ HeadEvent(l[a]))
  BY LastCompactionFits DEF Compactions
<1>2. m \in Nat /\ is \in Seq(Nat) /\ Enumerates(is, places, Len(l))
  BY DEF Laid
<1>3. Len(is) \in Nat /\ DOMAIN is = 1..Len(is)
  BY <1>2
<1>4. Tracks(owed, l)
  BY DEF Shape
<1> HIDE DEF a
<1>5. \A k \in 1..Len(is) : is[k] \in 1..Len(l) /\ is[k] >= a /\ l[is[k]].type \in MessageTypes
  BY <1>2, <1>3 DEF Enumerates
<1>6. \A i \in 1..Len(l) : i >= a /\ l[i].type \in MessageTypes => \E k \in 1..Len(is) : is[k] = i
  BY <1>2, <1>3 DEF Enumerates
<1>7. \A j, k \in 1..Len(is) : j < k => is[j] < is[k]
  BY <1>2, <1>3 DEF Enumerates
<1> HIDE DEF places
<1>8. ASSUME NEW k \in 1..Len(is), k > 1 PROVE owed[is[k] - 1] = owed[is[k - 1]]
  <2> DEFINE x == is[k - 1]
             y == is[k] - 1
  <2>1. k - 1 \in 1..Len(is) /\ k - 1 < k
    BY <1>3, <1>8
  <2>2. x \in 1..Len(l) /\ x < is[k] /\ is[k] \in 1..Len(l) /\ x >= a
    BY <1>5, <1>7, <2>1
  <2>3. x \in 0..Len(l) /\ y \in x..Len(l)
    BY <1>1, <2>2
  <2>4. ASSUME NEW i \in (x + 1)..y, l[i].type \in MessageTypes PROVE FALSE
    <3>1. i \in 1..Len(l) /\ i >= a /\ x < i /\ i < is[k] /\ i \in Nat
      <4> DEFINE z == is[k]
                 n == Len(l)
      <4>1. a \in Int /\ n \in Nat /\ x \in 1..n /\ z \in 1..n /\ x >= a /\ i \in (x + 1)..(z - 1)
        BY <1>1, <2>2
      <4> HIDE DEF x, y, z, n
      <4>2. i \in 1..n /\ i >= a /\ x < i /\ i < z /\ i \in Nat
        BY <4>1
      <4> QED BY <4>2 DEF z, n
    <3>2. PICK j \in 1..Len(is) : is[j] = i
      BY <1>6, <2>4, <3>1
    <3>3. ~(k < j) /\ j # k /\ ~(j < k - 1) /\ j # k - 1
      BY <1>7, <2>1, <2>2, <3>1, <3>2
    <3> QED
      BY <1>3, <3>3
  <2> HIDE DEF x, y
  <2>5. owed[y] = owed[x]
    BY <1>4, <2>3, <2>4, OwedStays
  <2> QED
    BY <2>5 DEF x, y
<1>9. ASSUME Len(is) >= 1 PROVE owed[is[Len(is)]] = owed[Len(l)]
  <2> DEFINE k == Len(is)
             x == is[k]
             y == Len(l)
  <2>1. k \in 1..Len(is)
    BY <1>3, <1>9
  <2>2. x \in 1..Len(l) /\ x >= a
    BY <1>5, <2>1
  <2>3. x \in 0..Len(l) /\ y \in x..Len(l)
    BY <1>1, <2>2
  <2>4. ASSUME NEW i \in (x + 1)..y, l[i].type \in MessageTypes PROVE FALSE
    <3>1. i \in 1..Len(l) /\ i >= a /\ x < i /\ i \in Nat /\ x \in Nat
      BY <1>1, <2>2
    <3>2. PICK j \in 1..Len(is) : is[j] = i
      BY <1>6, <2>4, <3>1
    <3>3. ~(j < k) /\ j # k
      <4>1. j # k
        BY <3>1, <3>2
      <4>2. j < k => is[j] < is[k]
        BY <1>7, <2>1
      <4>3. ~(i < x)
        BY <3>1
      <4> QED
        BY <3>2, <4>1, <4>2, <4>3
    <3> HIDE DEF k
    <3>4. k \in Nat /\ j \in Nat /\ j <= k
      BY <1>3 DEF k
    <3> QED
      BY <3>3, <3>4
  <2> HIDE DEF x, y
  <2>5. owed[y] = owed[x]
    BY <1>4, <2>3, <2>4, OwedStays
  <2> QED
    BY <2>5 DEF x, y
<1>10. \A i \in 1..Len(l) : HeadEvent(l[i]) => l[i].type \in MessageTypes
  BY DEF HeadEvent, Is, MessageTypes
<1>11. ASSUME Len(is) = 0 PROVE owed[Len(l)] = <<>>
  <2>1. \A i \in 1..Len(l) : i >= a => l[i].type \notin MessageTypes
    BY <1>6, <1>11
  <2>2. a = 0
    BY <1>1, <1>10, <2>1
  <2> DEFINE x == 0
             y == Len(l)
  <2>3. x \in 0..Len(l) /\ y \in x..Len(l) /\ \A i \in (x + 1)..y : l[i].type \notin MessageTypes
    BY <1>1, <2>1, <2>2
  <2> HIDE DEF x, y
  <2>4. owed[y] = owed[x]
    BY <1>4, <2>3, OwedStays
  <2> QED
    BY <1>4, <2>4 DEF x, y, Tracks
<1>12. ASSUME Len(is) >= 1, ~HeadEvent(l[is[1]]) \/ is[1] > a PROVE owed[is[1] - 1] = <<>>
  <2>1. 1 \in 1..Len(is) /\ is[1] \in 1..Len(l) /\ is[1] >= a
    BY <1>3, <1>5, <1>12
  <2>2. \A j \in 1..Len(is) : is[j] >= is[1]
    <3> SUFFICES ASSUME NEW j \in 1..Len(is) PROVE is[j] >= is[1]
      OBVIOUS
    <3>1. j = 1 \/ 1 < j
      BY <1>3
    <3>2. is[j] \in 1..Len(l)
      BY <1>5
    <3> QED
      BY <1>7, <2>1, <3>1, <3>2
  <2>3. a = 0
    <3> SUFFICES ASSUME a # 0 PROVE FALSE
      OBVIOUS
    <3>1. a \in 1..Len(l) /\ HeadEvent(l[a]) /\ a >= a
      BY <1>1
    <3>2. PICK j \in 1..Len(is) : is[j] = a
      BY <1>6, <1>10, <3>1
    <3>3. is[1] = a
      BY <1>1, <2>1, <2>2, <3>2
    <3> QED
      BY <1>1, <1>12, <3>1, <3>3
  <2> DEFINE x == 0
             y == is[1] - 1
  <2>4. x \in 0..Len(l) /\ y \in x..Len(l)
    BY <1>1, <2>1
  <2>5. ASSUME NEW i \in (x + 1)..y, l[i].type \in MessageTypes PROVE FALSE
    <3>1. i \in 1..Len(l) /\ i >= a /\ i < is[1]
      BY <1>1, <2>1, <2>3
    <3>2. PICK j \in 1..Len(is) : is[j] = i
      BY <1>6, <2>5, <3>1
    <3> QED
      BY <2>1, <2>2, <3>1, <3>2
  <2> HIDE DEF x, y
  <2>6. owed[y] = owed[x]
    BY <1>4, <2>4, <2>5, OwedStays
  <2> QED
    BY <1>4, <2>6 DEF x, y, Tracks
<1> QED
  BY <1>1, <1>2, <1>3, <1>5, <1>6, <1>7, <1>8, <1>9, <1>11, <1>12 DEF a

\* What is owed after each message of the transcript.
OwedAt(owed, m, is, n) == [k \in 0..n |-> IF k <= m THEN <<>> ELSE owed[is[k - m]]]

LEMMA LaidOwes ==
  ASSUME NEW l \in Seq(Events), NEW owed, Shape(owed, l), NEW m, NEW is, Laid(l, m, is)
  PROVE  LET ms == Pairs(l)
             g == OwedAt(owed, m, is, Len(ms))
         IN /\ Owes(g, ms)
            /\ Prompt(g, ms, Len(ms)) /\ g[Len(ms)] = <<>>
                 <=> Settled(owed, l, LastCompaction(l).firstKept, Len(l))
<1> DEFINE ms == Pairs(l)
           a == LastCompaction(l).firstKept
           n == m + Len(is)
           g == OwedAt(owed, m, is, n)
<1>1. /\ Len(l) \in Nat /\ a \in Nat /\ m \in Nat /\ Len(is) \in Nat
      /\ \A k \in 1..Len(is) : is[k] \in 1..Len(l) /\ is[k] >= a /\ l[is[k]].type \in MessageTypes
      /\ \A i \in 1..Len(l) : i >= a /\ l[i].type \in MessageTypes => \E k \in 1..Len(is) : is[k] = i
      /\ \A j, k \in 1..Len(is) : j < k => is[j] < is[k]
      /\ \A k \in 1..Len(is) : k > 1 => owed[is[k] - 1] = owed[is[k - 1]]
      /\ Len(is) >= 1 => owed[is[Len(is)]] = owed[Len(l)]
      /\ Len(is) = 0 => owed[Len(l)] = <<>>
      /\ Len(is) >= 1 /\ (~HeadEvent(l[is[1]]) \/ is[1] > a) => owed[is[1] - 1] = <<>>
  BY OwedBetween
<1>2. /\ Len(ms) = n /\ n \in Nat
      /\ \A k \in 1..Len(is) : ms[m + k] = ToMessage(l, is[k])
      /\ \A k \in 1..m : ms[k].role = "user" /\ ms[k].calls = <<>>
  BY <1>1 DEF Laid
<1>3. /\ owed \in [0..Len(l) -> Seq(CallIds)]
      /\ \A i \in 1..Len(l) : /\ owed[i] = OwedAfter(owed[i - 1], l[i])
                              /\ Is("tool_result", l[i]) => Contains(owed[i - 1], l[i].call)
  BY DEF Shape, Tracks
<1> HIDE DEF a, ms
<1>4. /\ g \in [0..n -> Seq(CallIds)] /\ g[0] = <<>>
      /\ \A k \in 0..n : g[k] = IF k <= m THEN <<>> ELSE owed[is[k - m]]
  <2> DEFINE v(k) == IF k <= m THEN <<>> ELSE owed[is[k - m]]
  <2>1. g = [k \in 0..n |-> v(k)]
    BY DEF OwedAt
  <2>2. ASSUME NEW k \in 0..n PROVE v(k) \in Seq(CallIds)
    <3>1. CASE k <= m
      BY <3>1
    <3>2. CASE ~(k <= m)
      <4>1. k - m \in 1..Len(is)
        BY <1>1, <3>2
      <4>2. is[k - m] \in 0..Len(l)
        BY <1>1, <4>1
      <4> QED
        BY <1>3, <3>2, <4>2
    <3> QED
      BY <3>1, <3>2
  <2>3. v(0) = <<>> /\ 0 \in 0..n
    BY <1>1, <1>2
  <2> HIDE DEF v
  <2>4. g \in [0..n -> Seq(CallIds)] /\ g[0] = <<>> /\ \A k \in 0..n : g[k] = v(k)
    BY <2>1, <2>2, <2>3
  <2> QED
    BY <2>4 DEF v
<1> HIDE DEF g
\* What was owed before the j-th kept message.
<1>5. ASSUME NEW j \in 1..Len(is), j > 1 \/ ~HeadEvent(l[is[j]]) \/ is[j] > a
      PROVE  g[(m + j) - 1] = owed[is[j] - 1]
  <2>1. CASE j = 1
    <3>1. (m + j) - 1 \in 0..n /\ (m + j) - 1 <= m /\ Len(is) >= 1
      BY <1>1, <2>1
    <3> QED
      BY <1>1, <1>4, <1>5, <2>1, <3>1
  <2>2. CASE j # 1
    <3>1. (m + j) - 1 \in 0..n /\ ~((m + j) - 1 <= m) /\ ((m + j) - 1) - m = j - 1 /\ j > 1
      BY <1>1, <2>2
    <3> QED
      BY <1>1, <1>4, <3>1
  <2> QED
    BY <2>1, <2>2
<1>6. \A j \in 1..Len(is) : g[m + j] = owed[is[j]]
  <2> SUFFICES ASSUME NEW j \in 1..Len(is) PROVE g[m + j] = owed[is[j]]
    OBVIOUS
  <2>1. m + j \in 0..n /\ ~(m + j <= m) /\ (m + j) - m = j
    BY <1>1
  <2> QED
    BY <1>4, <2>1
<1>7. ASSUME NEW k \in 1..n
      PROVE  k \in 1..m \/ \E j \in 1..Len(is) : k = m + j
  <2>1. CASE k <= m
    BY <2>1
  <2>2. CASE ~(k <= m)
    <3>1. k - m \in 1..Len(is) /\ k = m + (k - m)
      BY <1>1, <2>2
    <3> QED
      BY <3>1
  <2> QED
    BY <2>1, <2>2
<1>8. ASSUME NEW k \in 1..n
      PROVE  IF ms[k].role = "tool"
             THEN Contains(g[k - 1], ms[k].call) /\ g[k] = RemoveFirst(g[k - 1], ms[k].call)
             ELSE g[k] = ms[k].calls
  <2>1. CASE k \in 1..m
    <3>1. k \in 0..n /\ k <= m
      BY <1>1, <2>1
    <3>2. g[k] = <<>> /\ ms[k].role = "user" /\ ms[k].calls = <<>>
      BY <1>2, <1>4, <2>1, <3>1
    <3> QED
      BY <3>2
  <2>2. ASSUME NEW j \in 1..Len(is), k = m + j
        PROVE  IF ms[k].role = "tool"
               THEN Contains(g[k - 1], ms[k].call) /\ g[k] = RemoveFirst(g[k - 1], ms[k].call)
               ELSE g[k] = ms[k].calls
    <3> DEFINE i == is[j]
               e == l[i]
    <3>1. i \in 1..Len(l) /\ e \in Events /\ e.type \in MessageTypes
      BY <1>1
    <3>2. /\ ms[k].role = "tool" <=> Is("tool_result", e)
          /\ ms[k].role # "tool" <=> HeadEvent(e)
          /\ ms[k].role = "tool" => ms[k].call = e.call
          /\ \A o : ms[k].role # "tool" => ms[k].calls = OwedAfter(o, e)
      <4>1. ms[k] = ToMessage(l, i)
        BY <1>2, <2>2
      <4> DEFINE t == ToMessage(l, i)
      <4>2. /\ t.role = "tool" <=> Is("tool_result", e)
            /\ t.role # "tool" <=> HeadEvent(e)
            /\ t.role = "tool" => t.call = e.call
            /\ \A o : t.role # "tool" => t.calls = OwedAfter(o, e)
        BY <3>1, MessageOf
      <4> HIDE DEF t, e, i
      <4> QED
        BY <4>1, <4>2 DEF t
    <3>3. g[k] = owed[i] /\ owed[i] = OwedAfter(owed[i - 1], e)
          /\ (Is("tool_result", e) => Contains(owed[i - 1], e.call))
      BY <1>3, <1>6, <2>2, <3>1
    <3>4. ms[k].role = "tool" => g[k - 1] = owed[i - 1]
      BY <1>5, <2>2, <3>2
    <3>5. Is("tool_result", e) => OwedAfter(owed[i - 1], e) = RemoveFirst(owed[i - 1], e.call)
      BY <3>1, OwedAfterEach
    <3> HIDE DEF i, e
    <3> QED
      BY <3>2, <3>3, <3>4, <3>5
  <2> QED
    BY <1>7, <2>1, <2>2
<1>9. Owes(g, ms)
  BY <1>2, <1>4, <1>8 DEF Owes
<1>10. \A j \in 1..Len(is) : ms[m + j].role # "tool" <=> HeadEvent(l[is[j]])
  <2> SUFFICES ASSUME NEW j \in 1..Len(is) PROVE ms[m + j].role # "tool" <=> HeadEvent(l[is[j]])
    OBVIOUS
  <2>1. is[j] \in 1..Len(l) /\ l[is[j]].type \in MessageTypes /\ ms[m + j] = ToMessage(l, is[j])
    BY <1>1, <1>2
  <2> QED
    BY <2>1, MessageOf
<1>11. g[n] = owed[Len(l)] \/ (Len(is) = 0 /\ g[n] = <<>>)
  <2>1. CASE Len(is) = 0
    <3>1. n \in 0..n /\ n <= m
      BY <1>1, <2>1
    <3> QED
      BY <1>4, <2>1, <3>1
  <2>2. CASE Len(is) # 0
    <3>1. Len(is) \in 1..Len(is) /\ Len(is) >= 1
      BY <1>1, <2>2
    <3> QED
      BY <1>1, <1>6, <3>1
  <2> QED
    BY <2>1, <2>2
<1>12. ASSUME Prompt(g, ms, n), g[n] = <<>> PROVE Settled(owed, l, a, Len(l))
  <2>1. owed[Len(l)] = <<>>
    BY <1>1, <1>11, <1>12
  <2>2. ASSUME NEW i \in (a + 1)..Len(l), HeadEvent(l[i]) PROVE owed[i - 1] = <<>>
    <3>1. i \in 1..Len(l) /\ i >= a /\ i > a
      BY <1>1
    <3>2. l[i].type \in MessageTypes
      BY <2>2 DEF HeadEvent, Is, MessageTypes
    <3>3. PICK j \in 1..Len(is) : is[j] = i
      BY <1>1, <3>1, <3>2
    <3>4. m + j \in 1..n /\ ms[m + j].role # "tool"
      BY <1>1, <1>10, <2>2, <3>3
    <3>5. g[(m + j) - 1] = <<>>
      BY <1>12, <3>4 DEF Prompt
    <3> QED
      BY <1>5, <3>1, <3>3, <3>5
  <2> QED
    BY <2>1, <2>2 DEF Settled
<1>13. ASSUME Settled(owed, l, a, Len(l)) PROVE Prompt(g, ms, n) /\ g[n] = <<>>
  <2>1. g[n] = <<>>
    BY <1>11, <1>13 DEF Settled
  <2>2. ASSUME NEW k \in 1..n, ms[k].role # "tool" PROVE g[k - 1] = <<>>
    <3>1. CASE k <= m + 1
      <4>1. k - 1 \in 0..n /\ k - 1 <= m
        BY <1>1, <3>1
      <4> QED
        BY <1>4, <4>1
    <3>2. CASE ~(k <= m + 1)
      <4>1. PICK j \in 1..Len(is) : k = m + j
        BY <1>1, <1>7, <3>2
      <4>2. j > 1 /\ 1 \in 1..Len(is)
        BY <1>1, <3>2, <4>1
      <4>3. is[j] \in 1..Len(l) /\ is[1] \in 1..Len(l) /\ is[1] >= a /\ is[1] < is[j]
        BY <1>1, <4>2
      <4>4. is[j] \in (a + 1)..Len(l) /\ HeadEvent(l[is[j]])
        <5>1. is[j] \in (a + 1)..Len(l)
          BY <1>1, <4>3
        <5>2. ms[m + j].role # "tool"
          BY <2>2, <4>1
        <5>3. HeadEvent(l[is[j]])
          BY <1>10, <4>1, <5>2
        <5> QED BY <5>1, <5>3
      <4>5. owed[is[j] - 1] = <<>>
        BY <1>13, <4>4 DEF Settled
      <4> QED
        BY <1>5, <4>1, <4>2, <4>5
    <3> QED
      BY <3>1, <3>2
  <2> QED
    BY <2>1, <2>2 DEF Prompt
<1> QED
  BY <1>2, <1>9, <1>12, <1>13 DEF g, ms, a

\* When nothing is owed the transcript needs no repair, ...
LEMMA SettledIsWhole ==
  ASSUME NEW l \in Seq(Events), NEW owed, Shape(owed, l),
         Settled(owed, l, LastCompaction(l).firstKept, Len(l))
  PROVE  RepairTranscript(Pairs(l)) = Pairs(l) /\ Valid(Pairs(l))
<1>1. PICK m, is : Laid(l, m, is)
  BY PairsLaid
<1> DEFINE ms == Pairs(l)
           g == OwedAt(owed, m, is, Len(ms))
<1>2. ms \in Seq(Messages)
  BY PairsTyped
<1>3. Owes(g, ms) /\ Prompt(g, ms, Len(ms)) /\ g[Len(ms)] = <<>>
  BY <1>1, LaidOwes
<1> HIDE DEF g, ms
<1>4. RepairTranscript(ms) = ms
  BY <1>2, <1>3, RepairFollows
<1>5. Valid(ms)
  BY <1>2, <1>4, RepairedIsValid
<1> QED
  BY <1>4, <1>5 DEF ms

\* ... and when repair adds nothing, nothing is owed.
LEMMA UnrepairedIsSettled ==
  ASSUME NEW l \in Seq(Events), NEW owed, Shape(owed, l),
         Len(RepairTranscript(Pairs(l))) = Len(Pairs(l))
  PROVE  /\ Settled(owed, l, LastCompaction(l).firstKept, Len(l))
         /\ MessagesWithSeqs(l) = Pairs(l)
<1>1. PICK m, is : Laid(l, m, is)
  BY PairsLaid
<1> DEFINE ms == Pairs(l)
           g == OwedAt(owed, m, is, Len(ms))
<1>2. ms \in Seq(Messages)
  BY PairsTyped
<1>3. /\ Owes(g, ms)
      /\ Prompt(g, ms, Len(ms)) /\ g[Len(ms)] = <<>>
           <=> Settled(owed, l, LastCompaction(l).firstKept, Len(l))
  BY <1>1, LaidOwes
<1> HIDE DEF g, ms
<1>4. Len(RepairTranscript(ms)) = Len(ms)
  BY DEF ms
<1>5. Prompt(g, ms, Len(ms)) /\ g[Len(ms)] = <<>> /\ RepairTranscript(ms) = ms
  BY <1>2, <1>3, <1>4, RepairFollows
<1>6. MessagesWithSeqs(l) = [k \in DOMAIN ms |-> [ms[k] EXCEPT !.seq = ms[k].seq]]
  BY <1>5 DEF MessagesWithSeqs, ms
<1>7. \A k \in DOMAIN ms : [ms[k] EXCEPT !.seq = ms[k].seq] = ms[k]
  <2>1. \A k \in DOMAIN ms : ms[k] \in Messages
    BY <1>2
  <2> QED
    BY <2>1 DEF Messages
<1>8. MessagesWithSeqs(l) = [k \in DOMAIN ms |-> ms[k]]
  BY <1>6, <1>7
<1>9. ms = [k \in DOMAIN ms |-> ms[k]]
  BY <1>2
<1> QED
  BY <1>3, <1>5, <1>8, <1>9 DEF ms

\* A message with a seq that could be cut at, or pinned: it was kept as it is.
LEMMA SeqsAreKept ==
  ASSUME NEW l \in Seq(Events), NEW k \in 1..Len(MessagesWithSeqs(l)), MessagesWithSeqs(l)[k].seq # NoSeq
  PROVE  Len(RepairTranscript(Pairs(l))) = Len(Pairs(l))
<1> DEFINE pairs == Pairs(l)
           repaired == RepairTranscript(pairs)
           seq(i) == IF Len(repaired) = Len(pairs) THEN pairs[i].seq ELSE NoSeq
           all == [i \in DOMAIN repaired |-> [repaired[i] EXCEPT !.seq = seq(i)]]
<1>1. pairs \in Seq(Messages) /\ repaired \in Seq(Messages)
  BY PairsTyped, RepairedIsValid
<1>2. MessagesWithSeqs(l) = all
  BY DEF MessagesWithSeqs
<1>3. all \in Seq(Messages)
  BY <1>2, TranscriptOf
<1> HIDE DEF repaired, pairs
<1>4. DOMAIN all = DOMAIN repaired
  OBVIOUS
<1>5. DOMAIN all = 1..Len(all)
  <2> HIDE DEF all
  <2> QED
    BY <1>3
<1>6. k \in DOMAIN repaired
  BY <1>2, <1>4, <1>5
<1>7. repaired[k] \in Messages
  BY <1>1, <1>6
<1>8. all[k].seq = seq(k)
  <2>1. all[k] = [repaired[k] EXCEPT !.seq = seq(k)]
    BY <1>6
  <2> HIDE DEF all, seq
  <2> QED
    BY <1>7, <2>1 DEF Messages
<1>9. seq(k) # NoSeq
  BY <1>2, <1>8
<1> QED
  BY <1>9 DEF repaired, pairs

\* The seqs of a transcript before repair: they rise, and those of the user's messages are
\* their places; the first user message of the log is among them.
LEMMA LaidSeqs ==
  ASSUME NEW l \in Seq(Events), NEW owed, Shape(owed, l), NEW m, NEW is, Laid(l, m, is)
  PROVE  LET ms == Pairs(l) IN
         /\ \A i, k \in 1..Len(ms) : i < k /\ ms[i].seq # NoSeq /\ ms[k].seq # NoSeq => ms[i].seq < ms[k].seq
         /\ \A k \in 1..Len(ms) : ms[k].role = "user" /\ ms[k].seq # NoSeq =>
              ms[k].seq \in 1..Len(l) /\ Is("user_msg", l[ms[k].seq])
         /\ \A u \in 1..Len(l) : FirstMsg(l, u) =>
              \E k \in 1..Len(ms) : ms[k].seq = u /\ ms[k].role = "user"
<1> DEFINE c == LastCompaction(l)
           ms == Pairs(l)
<1>1. /\ Len(l) \in Nat /\ c.firstKept \in Nat /\ m \in Nat /\ Len(is) \in Nat
      /\ \A k \in 1..Len(is) : is[k] \in 1..Len(l) /\ is[k] >= c.firstKept /\ l[is[k]].type \in MessageTypes
      /\ \A i \in 1..Len(l) : i >= c.firstKept /\ l[i].type \in MessageTypes => \E k \in 1..Len(is) : is[k] = i
      /\ \A j, k \in 1..Len(is) : j < k => is[j] < is[k]
  BY OwedBetween
<1>2. /\ c.pinned = {} \/ \E u \in 1..Len(l) : c.pinned = {u} /\ Is("user_msg", l[u])
      /\ \A u \in 1..Len(l) : FirstMsg(l, u) => u >= c.firstKept \/ u \in c.pinned
  BY LastCompactionFits
<1>3. /\ Len(ms) = m + Len(is)
      /\ \A k \in 1..Len(is) : ms[m + k] = ToMessage(l, is[k])
      /\ \A k \in 1..m :
           /\ ms[k].role = "user"
           /\ ms[k].seq = NoSeq \/ (k = 1 /\ ms[k].seq \in c.pinned /\ ms[k].seq < c.firstKept)
      /\ \A u \in c.pinned : u < c.firstKept => m >= 1 /\ ms[1].seq = u
  BY DEF Laid
<1>4. \A k \in 1..Len(is) :
        /\ ms[m + k].seq = is[k]
        /\ ms[m + k].role = "user" <=> Is("user_msg", l[is[k]])
  <2> SUFFICES ASSUME NEW k \in 1..Len(is)
               PROVE  /\ ms[m + k].seq = is[k]
                      /\ ms[m + k].role = "user" <=> Is("user_msg", l[is[k]])
    OBVIOUS
  <2> DEFINE t == ToMessage(l, is[k])
  <2>1. t.seq = is[k] /\ (t.role = "user" <=> Is("user_msg", l[is[k]]))
    BY <1>1, MessageOf
  <2>2. ms[m + k] = t
    BY <1>3
  <2> HIDE DEF t, ms
  <2> QED
    BY <2>1, <2>2
<1> HIDE DEF c, ms
<1>5. ASSUME NEW k \in 1..Len(ms)
      PROVE  k \in 1..m \/ \E j \in 1..Len(is) : k = m + j
  <2>1. CASE k <= m
    BY <1>1, <2>1
  <2>2. CASE ~(k <= m)
    <3>1. k - m \in 1..Len(is) /\ k = m + (k - m)
      BY <1>1, <1>3, <2>2
    <3> QED
      BY <3>1
  <2> QED
    BY <2>1, <2>2
<1>6. ASSUME NEW i \in 1..Len(ms), NEW k \in 1..Len(ms), i < k, ms[i].seq # NoSeq, ms[k].seq # NoSeq
      PROVE  ms[i].seq < ms[k].seq
  <2>1. ~(k \in 1..m)
    <3> SUFFICES ASSUME k \in 1..m PROVE FALSE
      OBVIOUS
    <3>1. k = 1
      BY <1>3, <1>6
    <3> QED
      BY <1>6, <3>1
  <2>2. PICK j \in 1..Len(is) : k = m + j
    BY <1>5, <2>1
  <2>3. ms[k].seq = is[j] /\ is[j] \in 1..Len(l) /\ is[j] >= c.firstKept
    BY <1>1, <1>4, <2>2
  <2>4. CASE i \in 1..m
    <3>1. ms[i].seq \in c.pinned /\ ms[i].seq < c.firstKept
      BY <1>3, <1>6, <2>4
    <3>2. ms[i].seq \in Nat
      BY <1>2, <3>1
    <3> DEFINE first == c.firstKept
               a == ms[i].seq
               b == ms[k].seq
    <3>3. first \in Int /\ a \in Nat /\ b \in Nat /\ a < first /\ b >= first
      BY <1>1, <2>3, <3>1, <3>2
    <3> HIDE DEF first, a, b
    <3>4. a < b
      BY <3>3
    <3> QED
      BY <3>4 DEF a, b
  <2>5. ASSUME NEW h \in 1..Len(is), i = m + h PROVE ms[i].seq < ms[k].seq
    <3>1. h < j
      BY <1>1, <1>6, <2>2, <2>5
    <3>2. ms[i].seq = is[h]
      BY <1>4, <2>5
    <3> QED
      BY <1>1, <2>3, <3>1, <3>2
  <2> QED
    BY <1>5, <2>4, <2>5
<1>7. ASSUME NEW k \in 1..Len(ms), ms[k].role = "user", ms[k].seq # NoSeq
      PROVE  ms[k].seq \in 1..Len(l) /\ Is("user_msg", l[ms[k].seq])
  <2>1. CASE k \in 1..m
    <3>1. ms[k].seq \in c.pinned
      BY <1>3, <1>7, <2>1
    <3> QED
      BY <1>2, <3>1
  <2>2. ASSUME NEW j \in 1..Len(is), k = m + j PROVE ms[k].seq \in 1..Len(l) /\ Is("user_msg", l[ms[k].seq])
    BY <1>1, <1>4, <1>7, <2>2
  <2> QED
    BY <1>5, <2>1, <2>2
<1>8. ASSUME NEW u \in 1..Len(l), FirstMsg(l, u)
      PROVE  \E k \in 1..Len(ms) : ms[k].seq = u /\ ms[k].role = "user"
  <2>1. CASE u >= c.firstKept
    <3>1. Is("user_msg", l[u]) /\ l[u].type \in MessageTypes
      BY <1>8 DEF FirstMsg, Is, MessageTypes
    <3>2. PICK j \in 1..Len(is) : is[j] = u
      BY <1>1, <2>1, <3>1
    <3>3. m + j \in 1..Len(ms)
      BY <1>1, <1>3
    <3> QED
      BY <1>4, <3>1, <3>2, <3>3
  <2>2. CASE ~(u >= c.firstKept)
    <3>1. u \in c.pinned /\ u < c.firstKept
      BY <1>1, <1>2, <1>8, <2>2
    <3>2. m >= 1 /\ ms[1].seq = u
      BY <1>3, <3>1
    <3>3. 1 \in 1..m /\ 1 \in 1..Len(ms)
      BY <1>1, <1>3, <3>2
    <3> QED
      BY <1>3, <3>2, <3>3
  <2> QED
    BY <2>1, <2>2
<1> QED
  BY <1>6, <1>7, <1>8 DEF ms

\* What Summarise appends cuts at a message that is no result, pins the first user message
\* and leaves no call without its results.
LEMMA SummaryFits ==
  ASSUME NEW l \in Seq(Events), NEW owed, Shape(owed, l), NEW cut \in Cuts(MessagesWithSeqs(l)), NEW pruned
  PROVE  LET ms == MessagesWithSeqs(l)
         IN Fits(owed, l, Len(l), Compaction(TRUE, ms[cut].seq, Pinned(ms), pruned))
<1> DEFINE ms == MessagesWithSeqs(l)
           c == Compaction(TRUE, ms[cut].seq, Pinned(ms), pruned)
           a == LastCompaction(l).firstKept
<1>1. ms \in Seq(Messages) /\ Len(ms) \in Nat /\ DOMAIN ms = 1..Len(ms)
  BY TranscriptOf
<1>2. cut \in 2..Len(ms) /\ ms[cut].seq # NoSeq /\ ms[cut].role \in {"user", "assistant"}
  BY DEF Cuts, CanCut
<1>3. cut \in 1..Len(ms) /\ cut \in Nat /\ cut >= 2
  BY <1>1, <1>2
<1>4. Len(RepairTranscript(Pairs(l))) = Len(Pairs(l))
  BY <1>2, <1>3, SeqsAreKept
<1>5. Settled(owed, l, a, Len(l)) /\ ms = Pairs(l)
  BY <1>4, UnrepairedIsSettled
<1>6. PICK m, is : Laid(l, m, is)
  BY PairsLaid
<1>7. /\ Len(l) \in Nat /\ a \in Nat /\ m \in Nat /\ Len(is) \in Nat
      /\ \A k \in 1..Len(is) : is[k] \in 1..Len(l) /\ is[k] >= a /\ l[is[k]].type \in MessageTypes
  BY <1>6, OwedBetween
<1>8. /\ Len(ms) = m + Len(is)
      /\ \A k \in 1..Len(is) : ms[m + k] = ToMessage(l, is[k])
      /\ \A k \in 1..m : ms[k].seq = NoSeq \/ k = 1
  BY <1>5, <1>6 DEF Laid
<1>9. /\ \A i, k \in 1..Len(ms) : i < k /\ ms[i].seq # NoSeq /\ ms[k].seq # NoSeq => ms[i].seq < ms[k].seq
      /\ \A k \in 1..Len(ms) : ms[k].role = "user" /\ ms[k].seq # NoSeq =>
           ms[k].seq \in 1..Len(l) /\ Is("user_msg", l[ms[k].seq])
      /\ \A u \in 1..Len(l) : FirstMsg(l, u) =>
           \E k \in 1..Len(ms) : ms[k].seq = u /\ ms[k].role = "user"
  BY <1>5, <1>6, LaidSeqs
<1> HIDE DEF ms, a
<1> DEFINE b == ms[cut].seq
<1>10. b \in 1..Len(l) /\ HeadEvent(l[b]) /\ b >= a
  <2>1. cut > m
    <3> SUFFICES ASSUME ~(cut > m) PROVE FALSE
      OBVIOUS
    <3>1. cut \in 1..m
      BY <1>3, <1>7
    <3>2. cut = 1
      BY <1>2, <1>8, <3>1
    <3> QED
      BY <1>3, <3>2
  <2> DEFINE j == cut - m
             t == ToMessage(l, is[j])
  <2>2. j \in 1..Len(is) /\ m + j = cut
    BY <1>3, <1>7, <1>8, <2>1
  <2>3. ms[cut] = t
    BY <1>8, <2>2
  <2>4. t.seq = is[j] /\ (t.role # "tool" <=> HeadEvent(l[is[j]]))
    BY <1>7, <2>2, MessageOf
  <2> HIDE DEF j, t
  <2>5. b = is[j] /\ HeadEvent(l[is[j]])
    BY <1>2, <2>3, <2>4
  <2> QED
    BY <1>7, <2>2, <2>5
<1>11. Users(ms) # {} =>
         /\ FirstUser(ms) \in 1..Len(ms) /\ ms[FirstUser(ms)].role = "user" /\ ms[FirstUser(ms)].seq # NoSeq
         /\ \A k \in Users(ms) : FirstUser(ms) <= k
         /\ Pinned(ms) = {ms[FirstUser(ms)].seq}
  <2> SUFFICES ASSUME Users(ms) # {}
               PROVE  /\ FirstUser(ms) \in 1..Len(ms) /\ ms[FirstUser(ms)].role = "user"
                      /\ ms[FirstUser(ms)].seq # NoSeq
                      /\ \A k \in Users(ms) : FirstUser(ms) <= k
                      /\ Pinned(ms) = {ms[FirstUser(ms)].seq}
    OBVIOUS
  <2>1. Users(ms) \subseteq Nat
    BY <1>1 DEF Users
  <2>2. \E n \in Users(ms) : \A k \in Users(ms) : n <= k
    BY <2>1, LeastNumber
  <2>3. FirstUser(ms) \in Users(ms) /\ \A k \in Users(ms) : FirstUser(ms) <= k
    BY <2>2 DEF FirstUser, Min
  <2> QED
    BY <1>1, <2>3 DEF Users, Pinned
<1>12. Pinned(ms) = {} \/ \E u \in 1..Len(l) : Pinned(ms) = {u} /\ Is("user_msg", l[u])
  <2>1. CASE Users(ms) = {}
    BY <2>1 DEF Pinned
  <2>2. CASE Users(ms) # {}
    BY <1>9, <1>11, <2>2
  <2> QED
    BY <2>1, <2>2
<1>13. ASSUME NEW u \in 1..Len(l), FirstMsg(l, u) PROVE u \in Pinned(ms)
  <2>1. PICK k \in 1..Len(ms) : ms[k].seq = u /\ ms[k].role = "user"
    BY <1>9, <1>13
  <2>2. u # NoSeq /\ u \in Nat
    BY <1>7 DEF NoSeq
  <2>3. k \in Users(ms)
    BY <1>1, <2>1, <2>2 DEF Users
  <2> DEFINE i == FirstUser(ms)
             v == ms[i].seq
  <2>4. /\ i \in 1..Len(ms) /\ ms[i].role = "user" /\ v # NoSeq /\ i <= k /\ Pinned(ms) = {v}
    BY <1>11, <2>3
  <2> HIDE DEF i
  <2>5. v \in 1..Len(l) /\ Is("user_msg", l[v])
    BY <1>9, <2>4
  <2>6. CASE i = k
    BY <2>1, <2>4, <2>6
  <2>7. CASE i # k
    <3>1. i < k
      BY <2>4, <2>7
    <3>2. v < u
      BY <1>9, <2>1, <2>2, <2>4, <3>1
    <3>3. v \in 1..(u - 1)
      BY <2>2, <2>5, <3>2
    <3> QED
      BY <1>13, <2>5, <3>3 DEF FirstMsg
  <2> QED
    BY <2>6, <2>7
<1>14. Settled(owed, l, b, Len(l))
  <2>1. \A j \in (b + 1)..Len(l) : j \in (a + 1)..Len(l)
    BY <1>7, <1>10
  <2> QED
    BY <1>5, <2>1 DEF Settled
<1>15. c.summary = TRUE /\ c.firstKept = b /\ c.pinned = Pinned(ms)
  BY DEF Compaction
<1> HIDE DEF c, b
<1>16. Fits(owed, l, Len(l), c)
  BY <1>10, <1>12, <1>13, <1>14, <1>15 DEF Fits
<1> QED
  BY <1>16 DEF c, ms

\* What Fits reads of a log and of what is owed.
LEMMA FitsAlike ==
  ASSUME NEW n \in Nat, NEW l, NEW f, NEW m, NEW g, NEW c, Fits(f, l, n, c),
         \A i \in 0..n : g[i] = f[i], \A i \in 1..n : m[i] = l[i]
  PROVE  Fits(g, m, n, c)
<1> DEFINE a == c.firstKept
<1>1. a = 0 \/ (a \in 1..n /\ HeadEvent(l[a]))
  BY DEF Fits
<1>2. a = 0 \/ (a \in 1..n /\ HeadEvent(m[a]))
  BY <1>1
<1>3. c.pinned = {} \/ \E u \in 1..n : c.pinned = {u} /\ Is("user_msg", m[u])
  <2>1. c.pinned = {} \/ \E u \in 1..n : c.pinned = {u} /\ Is("user_msg", l[u])
    BY DEF Fits
  <2> QED
    BY <2>1
<1>4. ASSUME NEW u \in 1..n, FirstMsg(m, u) PROVE u >= a \/ u \in c.pinned
  <2>1. \A j \in 1..(u - 1) : m[j] = l[j]
    OBVIOUS
  <2>2. FirstMsg(l, u)
    BY <1>4, <2>1 DEF FirstMsg
  <2> QED
    BY <2>2 DEF Fits
<1>5. ASSUME c.summary PROVE Settled(g, m, a, n)
  <2>1. Settled(f, l, a, n)
    BY <1>5 DEF Fits
  <2>2. a \in Nat
    BY <1>1
  <2> HIDE DEF a
  <2>3. \A j \in (a + 1)..n : j \in 1..n /\ j - 1 \in 0..n
    BY <2>2
  <2>4. g[n] = f[n]
    OBVIOUS
  <2> QED
    BY <2>1, <2>3, <2>4 DEF Settled
<1> QED
  BY <1>2, <1>3, <1>4, <1>5 DEF Fits

LEMMA OwedAfterTyped ==
  ASSUME NEW owed \in Seq(CallIds), NEW e \in Events, Is("tool_result", e) => Contains(owed, e.call)
  PROVE  OwedAfter(owed, e) \in Seq(CallIds)
<1>1. CASE e.type \notin MessageTypes
  BY <1>1, OwedAfterEach
<1>2. CASE HeadEvent(e)
  <2>1. <<>> \in Seq(CallIds)
    OBVIOUS
  <2> QED
    BY <1>2, <2>1, OwedAfterEach, EventKinds DEF HeadEvent
<1>3. CASE Is("tool_result", e)
  BY <1>3, OwedAfterEach, EventKinds, RemoveFirstRemoves
<1> QED
  BY <1>1, <1>2, <1>3, MessageEvents

\* One event more: a result of a call that is owed, a compaction that fits, or any other.
LEMMA AppendShape ==
  ASSUME NEW l \in Seq(Events), NEW f, Shape(f, l), NEW e \in Events,
         Is("tool_result", e) => Contains(f[Len(l)], e.call),
         Is("compaction", e) => Fits(f, l, Len(l), e)
  PROVE  \E g : Shape(g, Append(l, e)) /\ g[Len(l) + 1] = OwedAfter(f[Len(l)], e)
<1> DEFINE n == Len(l)
           m == Append(l, e)
           next == OwedAfter(f[n], e)
           g == [i \in 0..(n + 1) |-> IF i = n + 1 THEN next ELSE f[i]]
<1>1. /\ m \in Seq(Events) /\ n \in Nat /\ Len(m) = n + 1 /\ m[n + 1] = e
      /\ \A i \in 1..n : m[i] = l[i]
  BY OneMore
<1>2. Tracks(f, l) /\ \A i \in 1..n : Is("compaction", l[i]) => Fits(f, l, i - 1, l[i])
  BY DEF Shape
<1>3. f \in [0..n -> Seq(CallIds)] /\ f[0] = <<>>
  BY <1>2 DEF Tracks
<1>4. next \in Seq(CallIds)
  BY <1>1, <1>3, OwedAfterTyped
<1> HIDE DEF m, n, next
<1>5. g[n + 1] = next /\ \A i \in 0..n : g[i] = f[i]
  BY <1>1
<1>6. g \in [0..(n + 1) -> Seq(CallIds)] /\ g[0] = <<>>
  BY <1>1, <1>3, <1>4
<1> HIDE DEF g
<1>7. ASSUME NEW i \in 1..(n + 1)
      PROVE  g[i] = OwedAfter(g[i - 1], m[i]) /\ (Is("tool_result", m[i]) => Contains(g[i - 1], m[i].call))
  <2>1. CASE i \in 1..n
    <3>1. m[i] = l[i] /\ g[i] = f[i] /\ g[i - 1] = f[i - 1]
      BY <1>1, <1>5, <2>1
    <3>2. f[i] = OwedAfter(f[i - 1], l[i]) /\ (Is("tool_result", l[i]) => Contains(f[i - 1], l[i].call))
      BY <1>2, <2>1 DEF Tracks, n
    <3> QED
      BY <3>1, <3>2
  <2>2. CASE i = n + 1
    <3>1. m[i] = e /\ g[i] = next /\ i - 1 = n /\ g[n] = f[n]
      BY <1>1, <1>5, <2>2
    <3> QED
      BY <3>1 DEF next, n
  <2> QED
    BY <1>1, <2>1, <2>2
<1>8. ASSUME NEW i \in 1..(n + 1), Is("compaction", m[i]) PROVE Fits(g, m, i - 1, m[i])
  <2>1. i - 1 \in 0..n /\ (\A j \in 0..(i - 1) : g[j] = f[j]) /\ (\A j \in 1..(i - 1) : m[j] = l[j])
    BY <1>1, <1>5
  <2>2. Fits(f, l, i - 1, m[i])
    <3>1. CASE i \in 1..n
      BY <1>1, <1>2, <1>8, <3>1
    <3>2. CASE i = n + 1
      <4>1. m[i] = e /\ i - 1 = n
        BY <1>1, <3>2
      <4> QED
        BY <1>8, <4>1 DEF n
    <3> QED
      BY <1>1, <3>1, <3>2
  <2>3. i - 1 \in Nat
    BY <2>1
  <2> DEFINE k == i - 1
             c == m[i]
  <2> HIDE DEF k, c
  <2>4. Fits(g, m, k, c)
    <3>1. k \in Nat /\ Fits(f, l, k, c) /\ (\A j \in 0..k : g[j] = f[j]) /\ (\A j \in 1..k : m[j] = l[j])
      BY <2>1, <2>2, <2>3 DEF k, c
    <3> QED
      BY <3>1, FitsAlike
  <2> QED
    BY <2>4 DEF k, c
<1>9. Shape(g, m)
  BY <1>1, <1>6, <1>7, <1>8 DEF Shape, Tracks
<1> QED
  BY <1>5, <1>9 DEF m, n, next

\* The events a fork copies.
LEMMA PrefixShape ==
  ASSUME NEW l \in Seq(Events), NEW f, Shape(f, l), NEW p \in Seq(Events), Len(p) <= Len(l),
         \A i \in 1..Len(p) : p[i] = l[i]
  PROVE  \E g : Shape(g, p)
<1> DEFINE k == Len(p)
           n == Len(l)
           g == [i \in 0..k |-> f[i]]
<1>1. k \in Nat /\ n \in Nat /\ k <= n /\ \A i \in 1..k : p[i] = l[i]
  OBVIOUS
<1>2. /\ f \in [0..n -> Seq(CallIds)] /\ f[0] = <<>>
      /\ \A i \in 1..n : f[i] = OwedAfter(f[i - 1], l[i])
                           /\ (Is("tool_result", l[i]) => Contains(f[i - 1], l[i].call))
      /\ \A i \in 1..n : Is("compaction", l[i]) => Fits(f, l, i - 1, l[i])
  BY DEF Shape, Tracks
<1> HIDE DEF k, n
<1>3. g \in [0..k -> Seq(CallIds)] /\ g[0] = <<>> /\ \A i \in 0..k : g[i] = f[i]
  BY <1>1, <1>2
<1> HIDE DEF g
<1>4. ASSUME NEW i \in 1..k
      PROVE  /\ g[i] = OwedAfter(g[i - 1], p[i])
             /\ Is("tool_result", p[i]) => Contains(g[i - 1], p[i].call)
             /\ Is("compaction", p[i]) => Fits(g, p, i - 1, p[i])
  <2>1. i \in 1..n /\ i - 1 \in 0..k /\ p[i] = l[i] /\ g[i] = f[i] /\ g[i - 1] = f[i - 1]
    <3>1. i \in 1..n /\ i \in 0..k /\ i - 1 \in 0..k
      BY <1>1
    <3> QED BY <1>1, <1>3, <3>1
  <2>2. ASSUME Is("compaction", p[i]) PROVE Fits(g, p, i - 1, p[i])
    <3> DEFINE h == i - 1
               c == p[i]
    <3>1. h \in Nat /\ (\A j \in 0..h : g[j] = f[j]) /\ (\A j \in 1..h : p[j] = l[j])
      <4>1. h \in Nat /\ h <= k
        BY <1>1
      <4> HIDE DEF h
      <4>2. \A j \in 0..h : j \in 0..k
        BY <1>1, <4>1
      <4>3. \A j \in 1..h : j \in 1..k
        BY <1>1, <4>1
      <4> QED BY <1>1, <1>3, <4>1, <4>2, <4>3
    <3>2. Fits(f, l, h, c)
      BY <1>2, <2>1, <2>2
    <3> HIDE DEF h, c
    <3>3. Fits(g, p, h, c)
      BY <3>1, <3>2, FitsAlike
    <3> QED
      BY <3>3 DEF h, c
  <2> QED
    BY <1>2, <2>1, <2>2
<1>5. Shape(g, p)
  BY <1>3, <1>4 DEF Shape, Tracks, k
<1> QED
  BY <1>5

\* Results are appended in the order of the calls.
LEMMA HeadRemoved ==
  ASSUME NEW calls \in Seq(CallIds), calls # <<>>
  PROVE  Contains(calls, Head(calls)) /\ RemoveFirst(calls, Head(calls)) = Tail(calls)
<1> DEFINE c == Head(calls)
           I == {i \in 1..Len(calls) : calls[i] = c}
           k == Min(I)
<1>1. Len(calls) \in Nat /\ DOMAIN calls = 1..Len(calls) /\ 1 \in 1..Len(calls) /\ calls[1] = c
  <2>1. Len(calls) # 0
    OBVIOUS
  <2> QED
    BY <2>1
<1>2. Contains(calls, c)
  BY <1>1 DEF Contains
<1>3. 1 \in I /\ I \subseteq Nat /\ \A i \in I : 1 <= i
  BY <1>1
<1>4. k = 1
  <2> HIDE DEF I
  <2>1. k \in I /\ \A i \in I : k <= i
    BY <1>3 DEF Min
  <2> HIDE DEF k
  <2> QED
    BY <1>3, <2>1
<1>5. RemoveFirst(calls, c) = SubSeq(calls, 1, k - 1) \o SubSeq(calls, k + 1, Len(calls))
  <2>1. I # {}
    BY <1>3
  <2> QED
    BY <1>1, <2>1 DEF RemoveFirst, SelectInSeq, RemoveAt
<1> HIDE DEF I, k, c
<1>6. RemoveFirst(calls, c) = SubSeq(calls, 1, 0) \o SubSeq(calls, 2, Len(calls))
  BY <1>4, <1>5
<1>7. SubSeq(calls, 1, 0) = <<>> /\ SubSeq(calls, 2, Len(calls)) = Tail(calls)
  OBVIOUS
<1>8. <<>> \o Tail(calls) = Tail(calls)
  OBVIOUS
<1> QED
  BY <1>2, <1>6, <1>7, <1>8 DEF c

----------------------------------------------------------------------------
(* The shape of every session's log. *)

\* A session's log has its shape, and while results are appended the calls still open are
\* the ones whose results are owed.
Shaped(s) ==
  \E f : Shape(f, log[s]) /\ (pc[s] = "calling" => f[Len(log[s])] = open[s])

ShapeInv == \A s \in Sessions : Shaped(s)

LEMMA ShapedStays ==
  ASSUME NEW s \in Sessions, Shaped(s), log'[s] = log[s],
         pc'[s] = "calling" => pc[s] = "calling" /\ open'[s] = open[s]
  PROVE  Shaped(s)'
BY DEF Shaped

\* A step that appends one event to one session's log.
LEMMA ShapedGrows ==
  ASSUME TypeInv, ShapeInv, NEW s \in Sessions, NEW e \in Events,
         log' = [log EXCEPT ![s] = Append(@, e)],
         \A r \in Sessions \ {s} : pc'[r] = "calling" => pc[r] = "calling" /\ open'[r] = open[r],
         \A f : Shape(f, log[s]) /\ (pc[s] = "calling" => f[Len(log[s])] = open[s]) =>
           /\ Is("tool_result", e) => Contains(f[Len(log[s])], e.call)
           /\ Is("compaction", e) => Fits(f, log[s], Len(log[s]), e)
           /\ pc'[s] = "calling" => OwedAfter(f[Len(log[s])], e) = open'[s]
  PROVE  ShapeInv'
<1>1. log'[s] = Append(log[s], e) /\ \A r \in Sessions \ {s} : log'[r] = log[r]
  BY AppendGrows
<1>2. log[s] \in Seq(Events) /\ Len(Append(log[s], e)) = Len(log[s]) + 1
  BY OneMore DEF TypeInv
<1>3. PICK f : Shape(f, log[s]) /\ (pc[s] = "calling" => f[Len(log[s])] = open[s])
  BY DEF ShapeInv, Shaped
<1>4. /\ Is("tool_result", e) => Contains(f[Len(log[s])], e.call)
      /\ Is("compaction", e) => Fits(f, log[s], Len(log[s]), e)
      /\ pc'[s] = "calling" => OwedAfter(f[Len(log[s])], e) = open'[s]
  BY <1>3
<1>5. PICK g : Shape(g, Append(log[s], e)) /\ g[Len(log[s]) + 1] = OwedAfter(f[Len(log[s])], e)
  BY <1>2, <1>3, <1>4, AppendShape
<1>6. Shaped(s)'
  BY <1>1, <1>2, <1>4, <1>5 DEF Shaped
<1>7. ASSUME NEW r \in Sessions \ {s} PROVE Shaped(r)'
  BY <1>1, <1>7, ShapedStays DEF ShapeInv
<1> QED
  BY <1>6, <1>7 DEF ShapeInv

\* User messages: no result, no compaction, and no session appends results after them.
LEMMA UserMsgShapes ==
  ASSUME TypeInv, ShapeInv, NEW s \in Sessions, NEW id \in Sessions \X Nat,
         log' = [log EXCEPT ![s] = Append(@, UserMsg(id))], pc'[s] # "calling",
         \A r \in Sessions \ {s} : pc'[r] = "calling" => pc[r] = "calling" /\ open'[r] = open[r]
  PROVE  ShapeInv'
<1> DEFINE e == UserMsg(id)
<1>1. e \in Events /\ ~Is("tool_result", e) /\ ~Is("compaction", e)
  BY DEF UserMsg, Events, Is
<1> HIDE DEF e
<1>2. log' = [log EXCEPT ![s] = Append(@, e)]
  BY DEF e
<1> QED
  BY <1>1, <1>2, ShapedGrows

LEMMA ShapeInit == ASSUME Init PROVE ShapeInv
<1> SUFFICES ASSUME NEW s \in Sessions PROVE Shaped(s)
  BY DEF ShapeInv
<1>1. log[s] = <<>> /\ pc[s] # "calling"
  BY DEF Init
<1> DEFINE f == [i \in 0..0 |-> <<>>]
<1>2. <<>> \in Seq(CallIds) /\ Len(<<>>) = 0 /\ 1..0 = {}
  OBVIOUS
<1>3. f \in [0..0 -> Seq(CallIds)] /\ f[0] = <<>>
  BY <1>2
<1> HIDE DEF f
<1>4. Shape(f, <<>>)
  BY <1>2, <1>3 DEF Shape, Tracks
<1> QED
  BY <1>1, <1>4 DEF Shaped

\* The steps that say something, or move a session without appending anything.
LEMMA SayingShapes ==
  ASSUME TypeInv, ShapeInv, NEW s \in Sessions,
         \/ Start(s) \/ Say(s) \/ StopHook(s) \/ ListInterrupts(s) \/ Deliver(s) \/ Drained(s)
         \/ Stop(s) \/ Forked(s) \/ \E t \in Sessions : Fork(s, t)
  PROVE  ShapeInv'
<1>1. pc \in [Sessions -> Places] /\ open \in [Sessions -> Seq(CallIds)] /\ todo \in [Sessions -> Seq(Nat)]
  BY DEF TypeInv
<1>2. NoId \in Sessions \X Nat
  BY EventLogAssumption DEF NoId
<1>3. \/ log' = log
      \/ \E id \in Sessions \X Nat : log' = [log EXCEPT ![s] = Append(@, UserMsg(id))]
  <2>1. CASE Start(s) \/ Say(s) \/ StopHook(s) \/ Forked(s)
    BY <1>2, <2>1 DEF Start, Say, StopHook, Forked, AppendEvent
  <2>2. CASE Deliver(s)
    <3>1. /\ todo[s] # <<>> /\ todo[s] \in Seq(Nat)
          /\ log' = [log EXCEPT ![s] = Append(@, UserMsg(EventId(s, Head(todo[s]))))]
      BY <1>1, <2>2 DEF Deliver, AppendEvent
    <3>2. EventId(s, Head(todo[s])) \in Sessions \X Nat
      BY <3>1 DEF EventId
    <3> QED
      BY <3>1, <3>2
  <2>3. CASE ListInterrupts(s) \/ Drained(s) \/ Stop(s) \/ \E t \in Sessions : Fork(s, t)
    BY <2>3 DEF ListInterrupts, Drained, Stop, Fork
  <2> QED
    BY <2>1, <2>2, <2>3
<1>4. pc'[s] # "calling" \/ (log' = log /\ pc'[s] = pc[s] /\ open'[s] = open[s])
  <2>1. CASE Start(s) \/ Say(s) \/ StopHook(s) \/ Forked(s) \/ ListInterrupts(s) \/ Drained(s)
    BY <1>1, <2>1 DEF Start, Say, StopHook, Forked, ListInterrupts, Drained, Goto
  <2>2. CASE Deliver(s)
    BY <2>2 DEF Deliver
  <2>3. CASE Stop(s)
    <3> DEFINE p == IF pc[s] = "copying" THEN "pending" ELSE "ended"
    <3>1. pc' = [pc EXCEPT ![s] = p] /\ p # "calling"
      BY <2>3 DEF Stop, Goto
    <3> HIDE DEF p
    <3> QED
      BY <1>1, <3>1
  <2>4. ASSUME NEW t \in Sessions, Fork(s, t)
        PROVE  pc'[s] # "calling" \/ (log' = log /\ pc'[s] = pc[s] /\ open'[s] = open[s])
    BY <1>1, <2>4 DEF Fork, Goto
  <2> QED
    BY <2>1, <2>2, <2>3, <2>4
<1>5. \A r \in Sessions \ {s} : pc'[r] = "calling" => pc[r] = "calling" /\ open'[r] = open[r]
  <2> SUFFICES ASSUME NEW r \in Sessions \ {s}, pc'[r] = "calling"
               PROVE  pc[r] = "calling" /\ open'[r] = open[r]
    OBVIOUS
  <2>1. CASE Start(s) \/ Say(s) \/ StopHook(s) \/ Forked(s) \/ ListInterrupts(s) \/ Drained(s)
    BY <1>1, <2>1 DEF Start, Say, StopHook, Forked, ListInterrupts, Drained, Goto
  <2>2. CASE Deliver(s)
    BY <2>2 DEF Deliver
  <2>3. CASE Stop(s)
    <3> DEFINE p == IF pc[s] = "copying" THEN "pending" ELSE "ended"
    <3>1. pc' = [pc EXCEPT ![s] = p] /\ open' = [open EXCEPT ![s] = <<>>]
      BY <2>3 DEF Stop, Goto
    <3> HIDE DEF p
    <3> QED
      BY <1>1, <3>1
  <2>4. ASSUME NEW t \in Sessions, Fork(s, t) PROVE pc[r] = "calling" /\ open'[r] = open[r]
    BY <1>1, <2>4 DEF Fork, Goto
  <2> QED
    BY <2>1, <2>2, <2>3, <2>4
<1>6. CASE log' = log
  BY <1>4, <1>5, <1>6, ShapedStays DEF ShapeInv
<1>7. ASSUME NEW id \in Sessions \X Nat, log' = [log EXCEPT ![s] = Append(@, UserMsg(id))]
      PROVE  ShapeInv'
  <2>1. CASE pc'[s] # "calling"
    BY <1>5, <1>7, <2>1, UserMsgShapes
  <2>2. CASE log' = log
    BY <1>6, <2>2
  <2> QED
    BY <1>4, <2>1, <2>2
<1> QED
  BY <1>3, <1>6, <1>7

LEMMA InterruptShapes == ASSUME TypeInv, ShapeInv, NEW s \in Sessions, Interrupt(s) PROVE ShapeInv'
<1>1. /\ log' = [log EXCEPT ![s] = Append(@, InterruptQueued)] /\ pc' = pc /\ open' = open
  BY DEF Interrupt, AppendEvent
<1> DEFINE e == InterruptQueued
<1>2. e \in Events /\ ~Is("tool_result", e) /\ ~Is("compaction", e) /\ e.type \notin MessageTypes
  BY DEF InterruptQueued, Events, Is, MessageTypes
<1> HIDE DEF e
<1>3. log' = [log EXCEPT ![s] = Append(@, e)]
  BY <1>1 DEF e
<1>4. \A owed : OwedAfter(owed, e) = owed
  BY <1>2, OwedAfterEach
<1> QED
  BY <1>1, <1>2, <1>3, <1>4, ShapedGrows

\* compact(): pruning keeps every message, and a summary cuts where it may.
LEMMA CompactionShapes ==
  ASSUME TypeInv, ShapeInv, NEW s \in Sessions, PruneOnly(s) \/ Summarise(s)
  PROVE  ShapeInv'
<1> DEFINE l == log[s]
           ms == MessagesWithSeqs(l)
           before == LastCompaction(l).pruned
<1>1. pc \in [Sessions -> Places] /\ l \in Seq(Events) /\ Len(l) \in Nat
  BY DEF TypeInv
<1>2. pc'[s] # "calling" /\ open' = open /\ \A r \in Sessions \ {s} : pc'[r] = pc[r]
  BY <1>1 DEF PruneOnly, Summarise, Compacts, Goto
<1>3. CASE PruneOnly(s)
  <2>1. PICK upto \in 1..Len(ms) :
          log' = [log EXCEPT ![s] = Append(@, Compaction(FALSE, 0, {}, before \union Prunable(ms, upto)))]
    BY <1>3 DEF PruneOnly, AppendEvent
  <2>2. before \union Prunable(ms, upto) \in SUBSET CallIds
    BY <1>1, CompactionTyped
  <2> HIDE DEF before, ms
  <2> DEFINE e == Compaction(FALSE, 0, {}, before \union Prunable(ms, upto))
  <2>3. e \in Events /\ ~Is("tool_result", e)
    <3>1. e \in Events
      BY <2>2, QuietEvents
    <3>2. e.type = "compaction"
      BY DEF Compaction
    <3> QED
      BY <3>1, <3>2 DEF Is
  <2>4. e.firstKept = 0 /\ e.pinned = {} /\ e.summary = FALSE
    BY DEF Compaction
  <2> HIDE DEF e
  <2>5. \A f : Fits(f, l, Len(l), e)
    BY <1>1, <2>4 DEF Fits
  <2>6. log' = [log EXCEPT ![s] = Append(@, e)]
    BY <2>1 DEF e
  <2> QED
    BY <1>2, <2>3, <2>5, <2>6, ShapedGrows
<1>4. CASE Summarise(s)
  <2>1. PICK cut \in Cuts(ms) :
          log' = [log EXCEPT ![s] =
                    Append(@, Compaction(TRUE, ms[cut].seq, Pinned(ms), before \union Prunable(ms, cut)))]
    BY <1>4 DEF Summarise, AppendEvent
  <2>2. ms[cut].seq \in Nat /\ Pinned(ms) \in SUBSET Nat /\ before \union Prunable(ms, cut) \in SUBSET CallIds
    BY <1>1, CompactionTyped
  <2> DEFINE pruned == before \union Prunable(ms, cut)
             e == Compaction(TRUE, ms[cut].seq, Pinned(ms), pruned)
  <2>3. \A f : Shape(f, l) => Fits(f, l, Len(l), e)
    <3> HIDE DEF before, l
    <3> QED
      BY <1>1, SummaryFits
  <2>4. e \in Events /\ ~Is("tool_result", e)
    <3> HIDE DEF before, ms
    <3>1. e \in Events
      BY <2>2, QuietEvents
    <3>2. e.type = "compaction"
      BY DEF Compaction
    <3> QED
      BY <3>1, <3>2 DEF Is
  <2>5. log' = [log EXCEPT ![s] = Append(@, e)]
    BY <2>1
  <2> HIDE DEF e
  <2> QED
    BY <1>2, <2>3, <2>4, <2>5, ShapedGrows
<1> QED
  BY <1>3, <1>4

LEMMA AnswerShapes == ASSUME TypeInv, ShapeInv, NEW s \in Sessions, Answer(s) PROVE ShapeInv'
<1>1. /\ Len(log[s]) \in Nat /\ open \in [Sessions -> Seq(CallIds)] /\ pc \in [Sessions -> Places]
  BY DEF TypeInv
<1>2. PICK n \in 0..MaxCalls :
        LET calls == [k \in 1..n |-> <<Len(log[s]) + 1, k>>] IN
        /\ log' = [log EXCEPT ![s] = Append(@, AssistantMsg(calls))]
        /\ open' = [open EXCEPT ![s] = calls]
        /\ pc' = [pc EXCEPT ![s] = IF n = 0 THEN "answered" ELSE "calling"]
  BY DEF Answer, AppendEvent, Goto
<1> DEFINE calls == [k \in 1..n |-> <<Len(log[s]) + 1, k>>]
           e == AssistantMsg(calls)
<1>3. calls \in Seq(CallIds)
  BY <1>1, EventLogAssumption DEF CallIds
<1>4. log' = [log EXCEPT ![s] = Append(@, e)] /\ open'[s] = calls
      /\ \A r \in Sessions \ {s} : open'[r] = open[r] /\ pc'[r] = pc[r]
  BY <1>1, <1>2
<1> HIDE DEF calls
<1>5. e \in Events /\ e.type = "assistant_msg" /\ e.calls = calls
  BY <1>3 DEF AssistantMsg, Events
<1> HIDE DEF e
<1>6. ~Is("tool_result", e) /\ ~Is("compaction", e) /\ \A owed : OwedAfter(owed, e) = calls
  BY <1>5, OwedAfterEach DEF Is
<1> QED
  BY <1>4, <1>5, <1>6, ShapedGrows

LEMMA ResultShapes == ASSUME TypeInv, ShapeInv, NEW s \in Sessions, AppendResult(s) PROVE ShapeInv'
<1> DEFINE calls == open[s]
           e == ToolResult(Head(calls))
<1>1. /\ open \in [Sessions -> Seq(CallIds)] /\ pc \in [Sessions -> Places]
      /\ pc[s] = "calling" /\ calls \in Seq(CallIds) /\ calls # <<>>
  BY DEF AppendResult, TypeInv
<1>2. /\ log' = [log EXCEPT ![s] = Append(@, e)] /\ open' = [open EXCEPT ![s] = Tail(@)]
      /\ \A r \in Sessions \ {s} : pc'[r] = pc[r]
  BY <1>1 DEF AppendResult, AppendEvent, Goto
<1>3. open'[s] = Tail(calls) /\ \A r \in Sessions \ {s} : open'[r] = open[r]
  BY <1>1, <1>2
<1>4. e \in Events /\ Is("tool_result", e) /\ e.call = Head(calls)
  <2>1. Head(calls) \in CallIds
    BY <1>1
  <2> QED
    BY <2>1 DEF ToolResult, Events, Is
<1>5. ~Is("compaction", e)
  BY <1>4 DEF Is
<1> HIDE DEF e
<1>6. OwedAfter(calls, e) = Tail(calls) /\ Contains(calls, e.call)
  BY <1>1, <1>4, HeadRemoved, OwedAfterEach
<1> QED
  BY <1>1, <1>2, <1>3, <1>4, <1>5, <1>6, ShapedGrows

LEMMA CopyShapes == ASSUME TypeInv, LogInv, LogInv', ShapeInv, NEW t \in Sessions, CopyEvent(t) PROVE ShapeInv'
<1> DEFINE x == fork[t].from
           e == log[x][Len(log[t]) + 1]
<1>1. /\ pc[t] = "copying" /\ Len(log[t]) < fork[t].upto
      /\ log' = [log EXCEPT ![t] = Append(@, e)] /\ pc' = pc /\ open' = open /\ fork' = fork
  BY DEF CopyEvent, AppendEvent
<1>2. x # t /\ fork[t].upto <= Len(log[x])
  BY <1>1 DEF LogInv, CopiesArePrefixes
<1>3. x \in Sessions /\ log[x] \in Seq(Events) /\ Len(log[x]) \in Nat /\ Len(log[t]) \in Nat /\ fork[t].upto \in Nat
  BY DEF TypeInv
<1>4. e \in Events
  <2> HIDE DEF x
  <2>1. Len(log[t]) + 1 \in 1..Len(log[x])
    BY <1>1, <1>2, <1>3
  <2> QED
    BY <1>3, <2>1
<1> HIDE DEF e
<1>5. log' \in [Sessions -> Seq(Events)] /\ \A r \in Sessions \ {t} : log'[r] = log[r]
  BY <1>1, <1>4, AppendGrows
<1>6. fork'[t].upto <= Len(log[x]) /\ Len(log'[t]) <= fork'[t].upto /\ \A i \in 1..Len(log'[t]) : log'[t][i] = log[x][i]
  BY <1>1, <1>2, <1>3, <1>5 DEF LogInv, CopiesArePrefixes
<1>7. PICK f : Shape(f, log[x])
  BY <1>3 DEF ShapeInv, Shaped
<1>8. \E g : Shape(g, log'[t])
  <2> DEFINE p == log'[t]
             l == log[x]
  <2>1. p \in Seq(Events) /\ l \in Seq(Events) /\ Shape(f, l) /\ Len(p) \in Nat
        /\ \A i \in 1..Len(p) : p[i] = l[i]
    BY <1>3, <1>5, <1>6, <1>7
  <2>2. Len(p) <= Len(l)
    <3>1. fork'[t].upto \in Nat /\ Len(p) <= fork'[t].upto /\ fork'[t].upto <= Len(l)
      BY <1>1, <1>3, <1>6
    <3> HIDE DEF p, l
    <3> QED
      BY <1>3, <2>1, <3>1 DEF l
  <2> HIDE DEF p, l
  <2>3. \E g : Shape(g, p)
    BY <2>1, <2>2, PrefixShape
  <2> QED
    BY <2>3 DEF p
<1>9. Shaped(t)'
  BY <1>1, <1>8 DEF Shaped
<1>10. ASSUME NEW r \in Sessions \ {t} PROVE Shaped(r)'
  BY <1>1, <1>5, ShapedStays DEF ShapeInv
<1> QED
  BY <1>9, <1>10 DEF ShapeInv

LEMMA ShapeNext == ASSUME EventLogInv, EventLogInv', ShapeInv, [Next]_vars PROVE ShapeInv'
<1>1. TypeInv /\ LogInv /\ LogInv'
  BY DEF EventLogInv
<1>2. ASSUME NEW s \in Sessions,
             \/ Start(s) \/ Say(s) \/ StopHook(s) \/ ListInterrupts(s) \/ Deliver(s) \/ Drained(s)
             \/ Stop(s) \/ Forked(s) \/ \E t \in Sessions : Fork(s, t)
      PROVE  ShapeInv'
  BY <1>1, <1>2, SayingShapes
<1>3. ASSUME NEW s \in Sessions, Interrupt(s) PROVE ShapeInv'
  BY <1>1, <1>3, InterruptShapes
<1>4. ASSUME NEW s \in Sessions, PruneOnly(s) \/ Summarise(s) PROVE ShapeInv'
  BY <1>1, <1>4, CompactionShapes
<1>5. ASSUME NEW s \in Sessions, Answer(s) PROVE ShapeInv'
  BY <1>1, <1>5, AnswerShapes
<1>6. ASSUME NEW s \in Sessions, AppendResult(s) PROVE ShapeInv'
  BY <1>1, <1>6, ResultShapes
<1>7. ASSUME NEW s \in Sessions, CopyEvent(s) PROVE ShapeInv'
  BY <1>1, <1>7, CopyShapes
<1>8. CASE UNCHANGED vars
  BY <1>8 DEF vars, ShapeInv, Shaped
<1> QED
  BY <1>2, <1>3, <1>4, <1>5, <1>6, <1>7, <1>8 DEF Next

\* A log that a step changes has one event more.
LEMMA StepAppends ==
  ASSUME TypeInv, [Next]_vars, NEW s \in Sessions, log'[s] # log[s]
  PROVE  \E e : log'[s] = Append(log[s], e)
<1>1. log \in [Sessions -> Seq(Events)]
  BY DEF TypeInv
<1>2. log' # log
  OBVIOUS
<1>3. ASSUME NEW r \in Sessions, NEW e, log' = [log EXCEPT ![r] = Append(@, e)]
      PROVE  log'[s] = Append(log[s], e)
  BY <1>1, <1>3
<1>4. \E r \in Sessions : \E e : log' = [log EXCEPT ![r] = Append(@, e)]
  <2>1. PICK r \in Sessions :
          \/ Start(r) \/ Say(r) \/ Interrupt(r) \/ Deliver(r) \/ PruneOnly(r) \/ Summarise(r)
          \/ Answer(r) \/ StopHook(r) \/ AppendResult(r) \/ CopyEvent(r) \/ Forked(r)
    BY <1>2 DEF Next, vars, ListInterrupts, Drained, Stop, Fork
  <2>2. CASE Start(r) \/ Say(r) \/ StopHook(r) \/ Forked(r) \/ Interrupt(r) \/ Deliver(r)
    BY <1>2, <2>2 DEF Start, Say, StopHook, Forked, Interrupt, Deliver, AppendEvent
  <2>3. CASE PruneOnly(r)
    BY <2>3 DEF PruneOnly, AppendEvent
  <2>4. CASE Summarise(r)
    BY <2>4 DEF Summarise, AppendEvent
  <2>5. CASE Answer(r)
    BY <2>5 DEF Answer, AppendEvent
  <2>6. CASE AppendResult(r) \/ CopyEvent(r)
    BY <2>6 DEF AppendResult, CopyEvent, AppendEvent
  <2> QED
    BY <2>1, <2>2, <2>3, <2>4, <2>5, <2>6
<1> QED
  BY <1>3, <1>4

LEMMA ShapeInvariant == Spec => [](EventLogInv /\ ShapeInv)
<1>1. Init => ShapeInv
  BY ShapeInit
<1>2. EventLogInv /\ EventLogInv' /\ ShapeInv /\ [Next]_vars => ShapeInv'
  BY ShapeNext
<1> QED
  BY <1>1, <1>2, EventLogInvariant, PTL DEF Spec
----------------------------------------------------------------------------
(* What the logs promise. *)

\* The messages sent to the model are well-formed, whatever happened to a session: every
\* call of an answer is followed by its one result, and no result stands alone
\* (messages_with_seqs over append_event, compact, drain_interrupts and fork_events, with
\* stops between any two events).
THEOREM TranscriptCorrect == Spec => []TranscriptValid
<1>1. EventLogInv => TranscriptValid
  BY TranscriptOf DEF EventLogInv, TypeInv, TranscriptValid
<1> QED
  BY <1>1, EventLogInvariant, PTL

\* An interrupt becomes at most one user message of its session, after it was queued and
\* in the order of the queue (drain_interrupts), although others are queued meanwhile, the
\* run stops half way through, and a fork copies the log.
THEOREM DeliveredCorrect == Spec => []DeliveredOnceInOrder
<1>1. ASSUME EventLogInv PROVE DeliveredOnceInOrder
  <2>1. TypeInv /\ LogInv
    BY <1>1 DEF EventLogInv
  <2>2. \A s \in Sessions : UserMsgs(s) = Said(log[s])
    BY DEF UserMsgs, Said
  <2> SUFFICES ASSUME NEW s \in Sessions, NEW i \in Said(log[s])
               PROVE  /\ log[s][i].queuedId[1] = s => log[s][i].queuedId[2] < i
                      /\ \A j \in Said(log[s]) :
                           j < i => /\ log[s][j].queuedId # log[s][i].queuedId
                                    /\ log[s][j].queuedId[1] = log[s][i].queuedId[1] =>
                                         log[s][j].queuedId[2] < log[s][i].queuedId[2]
    BY <2>2 DEF DeliveredOnceInOrder
  <2>3. log[s][i].queuedId[1] = s => log[s][i].queuedId[2] < i
    BY <2>1 DEF LogInv, NamesStand
  <2>4. ASSUME NEW j \in Said(log[s]), j < i, log[s][j].queuedId[1] = log[s][i].queuedId[1]
        PROVE  log[s][j].queuedId[2] < log[s][i].queuedId[2]
    BY <2>1, <2>4 DEF LogInv, Ordered
  <2>5. \A j \in Said(log[s]) : log[s][j].queuedId[2] \in Nat
    BY <2>1, NamesAreIds
  <2>6. ASSUME NEW j \in Said(log[s]), j < i PROVE log[s][j].queuedId # log[s][i].queuedId
    <3>1. SUFFICES ASSUME log[s][j].queuedId = log[s][i].queuedId PROVE FALSE
      OBVIOUS
    <3>2. log[s][j].queuedId[2] < log[s][i].queuedId[2]
      BY <2>4, <2>6, <3>1
    <3> QED
      BY <2>5, <3>1, <3>2
  <2> QED
    BY <2>3, <2>4, <2>6
<1> QED
  BY <1>1, EventLogInvariant, PTL

\* The model is not called while an interrupt is outstanding that was queued before the
\* turn's drain read the log (run_agent_generator drains before it builds the prompt).
THEOREM BeforeTheModelCorrect == Spec => []DeliveredBeforeTheModel
<1>1. \A s : Undelivered(s) = Left(s, log[s])
  BY DEF Undelivered, Left
<1>2. EventLogInv => DeliveredBeforeTheModel
  BY <1>1 DEF EventLogInv, LogInv, Drains, DeliveredBeforeTheModel, Working
<1> QED
  BY <1>1, <1>2, EventLogInvariant, PTL

\* The first user message of a session stays in the transcript the model sees, however often
\* the session is compacted, stopped, resumed and forked (compact() pins the first user
\* message, and fork_events copies the pins with the log).
THEOREM GoalCorrect == Spec => []GoalStays
<1>1. ASSUME EventLogInv, ShapeInv PROVE GoalStays
  <2> SUFFICES ASSUME NEW s \in Sessions, {i \in DOMAIN log[s] : Is("user_msg", log[s][i])} # {}
               PROVE  Min({i \in DOMAIN log[s] : Is("user_msg", log[s][i])}) \in Shown(log[s])
    BY DEF GoalStays
  <2> DEFINE l == log[s]
             us == {i \in DOMAIN l : Is("user_msg", l[i])}
             u == Min(us)
  <2>1. l \in Seq(Events) /\ Len(l) \in Nat /\ DOMAIN l = 1..Len(l) /\ us # {}
    BY <1>1 DEF EventLogInv, TypeInv
  <2>2. PICK f : Shape(f, l)
    BY <1>1 DEF ShapeInv, Shaped
  <2> HIDE DEF l
  <2>3. us \subseteq Nat
    BY <2>1
  <2>4. u \in us /\ \A i \in us : u <= i
    <3> HIDE DEF us
    <3>1. \E n \in us : \A m \in us : n <= m
      BY <2>1, <2>3, LeastNumber
    <3> QED
      BY <3>1 DEF Min
  <2>5. u \in 1..Len(l) /\ FirstMsg(l, u)
    <3> HIDE DEF u
    <3>1. \A j \in 1..(u - 1) : j \notin us
      BY <2>1, <2>4
    <3> QED
      BY <2>1, <2>4, <3>1 DEF FirstMsg
  <2> HIDE DEF u
  <2>6. PICK m, is : Laid(l, m, is)
    BY <2>1, <2>2, PairsLaid
  <2>7. \E k \in 1..Len(Pairs(l)) : Pairs(l)[k].seq = u
    BY <2>1, <2>2, <2>5, <2>6, LaidSeqs
  <2>8. DOMAIN Pairs(l) = 1..Len(Pairs(l))
    BY <2>1, PairsTyped
  <2>9. u \in Shown(l)
    BY <2>1, <2>5, <2>7, <2>8 DEF Shown
  <2> QED
    BY <2>9 DEF u, us, l
<1> QED
  BY <1>1, ShapeInvariant, PTL

\* A compaction that summarises never cuts between a call and its result: the messages it
\* keeps need no repair (compact() cuts at a message that has a seq and is no tool result,
\* and after a repair that added or dropped something no message has one).
THEOREM CutsCorrect == Spec => CutsKeepCallsWhole
<1> DEFINE Step == \A s \in Sessions : Compacted(s) /\ Last(log'[s]).summary => Valid(Pairs(log'[s]))
<1>1. ASSUME EventLogInv, EventLogInv', ShapeInv', [Next]_vars PROVE Step
  <2> SUFFICES ASSUME NEW s \in Sessions, Compacted(s), Last(log'[s]).summary PROVE Valid(Pairs(log'[s]))
    OBVIOUS
  <2> DEFINE l == log'[s]
             n == Len(l)
             c == l[n]
  <2>1. l \in Seq(Events) /\ n \in Nat
    BY <1>1 DEF EventLogInv, TypeInv
  <2>2. l # <<>>
    <3>1. PICK e : l = Append(log[s], e)
      BY <1>1, StepAppends DEF Compacted, EventLogInv
    <3> DEFINE old == log[s]
               S == Events \union {e}
    <3>2. old \in Seq(Events)
      BY <1>1 DEF EventLogInv, TypeInv
    <3> HIDE DEF l, old
    <3>3. old \in Seq(S) /\ e \in S
      BY <3>2
    <3> HIDE DEF S
    <3>4. Append(old, e) # <<>>
      BY <3>3, AppendProperties, Zenon
    <3> QED
      BY <3>1, <3>4 DEF old
  <2>3. PICK f : Shape(f, l)
    BY <1>1 DEF ShapeInv, Shaped
  <2>4. Is("compaction", Last(l)) /\ Last(l).summary
    BY DEF Compacted
  <2> HIDE DEF l
  <2>5. n \in 1..n /\ Last(l) = c
    BY <2>1, <2>2 DEF Last
  <2>6. c \in Events
    BY <2>1, <2>5
  <2>7. LastCompaction(l) = c
    <3>1. PICK i \in 1..n : LastCompaction(l) = l[i] /\ \A j \in 1..n : Is("compaction", l[j]) => j <= i
      BY <2>1, <2>4, <2>5, LastCompactionIs
    <3>2. i = n
      BY <2>1, <2>4, <2>5, <3>1
    <3> QED
      BY <3>1, <3>2
  <2> DEFINE a == c.firstKept
             b == n - 1
  <2> HIDE DEF c
  <2>8. Fits(f, l, n - 1, c)
    BY <2>3, <2>4, <2>5 DEF Shape, c
  <2>9. a = 0 \/ a \in 1..(n - 1)
    BY <2>8 DEF Fits
  <2>10. Settled(f, l, a, n - 1)
    BY <2>4, <2>5, <2>8 DEF Fits
  <2>11. ~HeadEvent(c) /\ c.type \notin MessageTypes
    BY <2>4, <2>5, <2>6, MessageEvents
  <2>12. f[n] = f[n - 1]
    <3>1. f[n] = OwedAfter(f[n - 1], c)
      BY <2>3, <2>5 DEF Shape, Tracks, c
    <3> QED
      BY <2>6, <2>11, <3>1, OwedAfterEach
  <2>13. Settled(f, l, a, n)
    <3>1. f[n] = <<>>
      BY <2>10, <2>12 DEF Settled
    <3>2. ASSUME NEW j \in (a + 1)..n, HeadEvent(l[j]) PROVE f[j - 1] = <<>>
      <4>1. j # n
        BY <2>11, <3>2 DEF c
      <4> HIDE DEF a, n
      <4>2. a \in Nat /\ n \in Nat
        BY <2>1, <2>9
      <4>3. j \in (a + 1)..(n - 1)
        BY <4>1, <4>2
      <4> QED
        BY <2>10, <3>2, <4>3 DEF Settled
    <3> QED
      BY <3>1, <3>2 DEF Settled
  <2>14. Valid(Pairs(l))
    BY <2>1, <2>3, <2>7, <2>13, SettledIsWhole
  <2> QED
    BY <2>14 DEF l
<1> QED
  BY <1>1, ShapeInvariant, PTL DEF Spec, CutsKeepCallsWhole
=============================================================================
