------------------------------- MODULE Lemmas -------------------------------
(***************************************************************************)
(* Lemmas that the proofs about several components share: induction over   *)
(* numbers, what a loop computes, flattened sequences, and what the stream *)
(* operators keep.                                                         *)
(*                                                                         *)
(* Induction is stated for a set of numbers, not for an operator, so that  *)
(* it can be instantiated: the numbers up to which a claim holds.          *)
(***************************************************************************)
EXTENDS Ustream, SequencesExt, SequenceTheorems, WellFoundedInduction, TLAPS

-----------------------------------------------------------------------------
(* Induction                                                               *)

\* A set of numbers that has 0 and with n also n + 1 has all: a least number
\* it lacks would follow one it has.
LEMMA SetInduction ==
  ASSUME NEW S \in SUBSET Nat, 0 \in S, \A n \in S : n + 1 \in S
  PROVE  S = Nat
<1> DEFINE R == {p \in Nat \X Nat : p[1] < p[2]}
           T == Nat \ S
<1>1. IsWellFoundedOn(R, Nat)
  BY NatLessThanWellFounded DEF OpToRel
<1>2. CASE T = {}
  BY <1>2
<1>3. CASE T # {}
  <2>1. T \subseteq Nat
    OBVIOUS
  <2>2. PICK x \in T : \A y \in T : ~(<< y, x >> \in R)
    <3> HIDE DEF T, R
    <3> QED BY <1>1, <1>3, <2>1, WFMin
  <2>3. x - 1 \in Nat /\ x - 1 < x
    OBVIOUS
  <2>4. x - 1 \in S
    BY <2>2, <2>3
  <2>5. (x - 1) + 1 \in S
    BY <2>4
  <2> QED BY <2>3, <2>5
<1> QED BY <1>2, <1>3

\* The same from a to b.
LEMMA InductionUpTo ==
  ASSUME NEW a \in Int, NEW b \in Int, NEW S, a <= b => a \in S,
         \A n \in a .. b - 1 : n \in S => n + 1 \in S
  PROVE  \A n \in a .. b : n \in S
<1> DEFINE W == {k \in Nat : a + k <= b => a + k \in S}
<1>1. W = Nat
  <2>1. W \in SUBSET Nat /\ 0 \in W
    OBVIOUS
  <2>2. \A k \in W : k + 1 \in W
    <3> SUFFICES ASSUME NEW k \in W, a + (k + 1) <= b PROVE a + (k + 1) \in S
      OBVIOUS
    <3>1. a + k \in a .. b - 1 /\ a + k \in S
      OBVIOUS
    <3>2. (a + k) + 1 \in S
      BY <3>1
    <3>3. (a + k) + 1 = a + (k + 1)
      OBVIOUS
    <3> QED BY <3>2, <3>3
  <2> HIDE DEF W
  <2> QED BY <2>1, <2>2, SetInduction
<1>2. ASSUME NEW n \in a .. b PROVE n \in S
  <2>1. n - a \in Nat /\ a + (n - a) = n /\ n <= b
    OBVIOUS
  <2>2. n - a \in W
    <3> HIDE DEF W
    <3> QED BY <1>1, <2>1
  <2>3. a + (n - a) <= b => a + (n - a) \in S
    BY <2>2
  <2> QED BY <2>1, <2>3
<1> QED BY <1>2

\* A set of numbers that is not empty has a least.
LEMMA LeastNumber ==
  ASSUME NEW S \in SUBSET Nat, S # {}
  PROVE  \E n \in S : \A m \in S : n <= m
<1> DEFINE W == {k \in Nat : \A m \in S : m > k}
<1>1. CASE 0 \in S
  BY <1>1
<1>2. CASE 0 \notin S
  <2>1. 0 \in W
    BY <1>2
  <2>2. W # Nat
    <3> PICK s \in S : TRUE
      OBVIOUS
    <3>1. s \in Nat /\ s \notin W
      OBVIOUS
    <3> QED BY <3>1
  <2>3. PICK k \in W : k + 1 \notin W
    <3> HIDE DEF W
    <3>1. W \in SUBSET Nat
      BY DEF W
    <3> QED BY <2>1, <2>2, <3>1, SetInduction
  <2>4. PICK n \in S : ~(n > k + 1)
    BY <2>3
  <2>5. \A m \in S : m >= k + 1
    BY <2>3
  <2> QED BY <2>4, <2>5
<1> QED BY <1>1, <1>2

-----------------------------------------------------------------------------
(* Loops                                                                   *)

\* The runs of a loop of n turns over values of D, by the number of turns done.
LoopRuns(D, n, first, turn) ==
  {f \in [0 .. n -> D] : f[0] = first /\ \A i \in 1 .. n : f[i] = turn[i][f[i - 1]]}

\* A loop whose turns stay in D has one.
LEMMA LoopExists ==
  ASSUME NEW D, NEW n \in Nat, NEW first \in D, NEW turn,
         \A i \in 1 .. n : \A d \in D : turn[i][d] \in D
  PROVE  \E f : f \in LoopRuns(D, n, first, turn)
<1> DEFINE Runs(f, m) == /\ f \in [0 .. m -> D] /\ f[0] = first
                         /\ \A i \in 1 .. m : f[i] = turn[i][f[i - 1]]
           G == {m \in 0 .. n : \E f : Runs(f, m)}
<1>1. 0 \in G
  <2> DEFINE z == [i \in 0 .. 0 |-> first]
  <2>1. z \in [0 .. 0 -> D] /\ z[0] = first /\ \A i \in 1 .. 0 : FALSE
    OBVIOUS
  <2> HIDE DEF z
  <2>2. Runs(z, 0)
    BY <2>1
  <2>3. 0 \in 0 .. n
    OBVIOUS
  <2> QED BY <2>2, <2>3
<1>2. ASSUME NEW m \in 0 .. n - 1, m \in G PROVE m + 1 \in G
  <2>1. PICK f : Runs(f, m)
    BY <1>2
  <2>2. f[m] \in D /\ m + 1 \in 1 .. n /\ m \in Nat
    BY <2>1
  <2> DEFINE last == turn[m + 1][f[m]]
             g == [i \in 0 .. m + 1 |-> IF i = m + 1 THEN last ELSE f[i]]
  <2>3. last \in D
    BY <2>2
  <2> HIDE DEF last
  <2>4. g \in [0 .. m + 1 -> D] /\ g[0] = first /\ g[m + 1] = last
        /\ \A i \in 0 .. m : g[i] = f[i]
    BY <2>1, <2>2, <2>3
  <2> HIDE DEF g
  <2>5. ASSUME NEW i \in 1 .. m + 1 PROVE g[i] = turn[i][g[i - 1]]
    <3>1. CASE i = m + 1
      <4>1. g[i - 1] = f[m]
        BY <2>2, <2>4, <3>1
      <4> QED BY <2>4, <3>1, <4>1 DEF last
    <3>2. CASE i # m + 1
      <4>1. i \in 1 .. m /\ g[i] = f[i] /\ g[i - 1] = f[i - 1]
        BY <2>2, <2>4, <3>2
      <4> QED BY <2>1, <4>1
    <3> QED BY <3>1, <3>2
  <2>6. Runs(g, m + 1)
    BY <2>4, <2>5
  <2>7. m + 1 \in 0 .. n
    OBVIOUS
  <2> QED BY <2>6, <2>7
<1>3. n \in G
  <2> HIDE DEF G
  <2>1. 0 \in Int /\ n \in Int /\ (0 <= n => 0 \in G) /\ n \in 0 .. n
    BY <1>1
  <2>2. \A m \in 0 .. n - 1 : m \in G => m + 1 \in G
    BY <1>2
  <2>3. \A m \in 0 .. n : m \in G
    BY ONLY <2>1, <2>2, InductionUpTo
  <2> QED BY <2>1, <2>3
<1>4. PICK f : Runs(f, n)
  BY <1>3
<1>5. f \in LoopRuns(D, n, first, turn)
  BY <1>4 DEF LoopRuns
<1> QED BY <1>5

-----------------------------------------------------------------------------
(* Sequences joined                                                        *)

\* u is s, of length x, followed by t, of length y.
Joins(S, s, x, t, y, u) ==
  /\ u \in Seq(S) /\ Len(u) = x + y
  /\ \A i \in 1 .. x : u[i] = s[i]
  /\ \A i \in 1 .. y : u[x + i] = t[i]

LEMMA ConcatAt ==
  ASSUME NEW S, NEW s \in Seq(S), NEW t \in Seq(S), NEW x \in Nat, NEW y \in Nat,
         Len(s) = x, Len(t) = y, NEW u, u = s \o t
  PROVE  Joins(S, s, x, t, y, u)
<1>1. /\ u \in Seq(S) /\ Len(u) = x + y
      /\ \A i \in 1 .. x + y : u[i] = IF i <= x THEN s[i] ELSE t[i - x]
  <2>1. /\ s \o t \in Seq(S) /\ Len(s \o t) = Len(s) + Len(t)
        /\ \A i \in 1 .. Len(s) + Len(t) : (s \o t)[i] = IF i <= Len(s) THEN s[i] ELSE t[i - Len(s)]
    BY ConcatProperties
  <2> QED BY <2>1
<1>2. ASSUME NEW i \in 1 .. y PROVE u[x + i] = t[i]
  <2>1. x + i \in 1 .. x + y /\ ~(x + i <= x) /\ (x + i) - x = i
    OBVIOUS
  <2> QED BY <1>1, <2>1
<1> QED BY <1>1, <1>2 DEF Joins

\* a followed by b is c followed by d.
Same(a, b, c, d) == a \o b = c \o d

\* Both continued by the same sequence.
LEMMA JoinedOn ==
  ASSUME NEW S, NEW a \in Seq(S), NEW b \in Seq(S), NEW c \in Seq(S), NEW d \in Seq(S),
         NEW e \in Seq(S), Same(a, b, c, d)
  PROVE  Same(a, b \o e, c, d \o e)
<1>1. (a \o b) \o e = a \o (b \o e)
  BY ConcatAssociative, SMTT(30)
<1>2. (c \o d) \o e = c \o (d \o e)
  BY ConcatAssociative, SMTT(30)
<1> QED BY <1>1, <1>2 DEF Same

\* A sequence continued by an element.
LEMMA AppendedLast ==
  ASSUME NEW S, NEW s \in Seq(S), NEW x \in S, NEW t, t = << x >>
  PROVE  t \in Seq(S) /\ Append(s, x) = s \o t
<1>1. t \in Seq(S)
  OBVIOUS
<1>2. Append(s, x) = s \o << x >>
  BY AppendIsConcat
<1> QED BY <1>1, <1>2

LEMMA AppendJoins ==
  ASSUME NEW S, NEW s \in Seq(S), NEW t \in Seq(S), NEW x \in S
  PROVE  /\ Append(t, x) \in Seq(S) /\ s \o t \in Seq(S)
         /\ s \o Append(t, x) = Append(s \o t, x)
<1> DEFINE one == << x >>
           st == s \o t
<1>1. one \in Seq(S) /\ Append(t, x) = t \o one
  BY AppendedLast
<1>2. st \in Seq(S)
  BY ConcatProperties
<1> HIDE DEF one, st
<1>3. Append(st, x) = st \o one
  <2>1. one = << x >>
    BY DEF one
  <2> QED BY <1>2, <2>1, AppendedLast
<1>4. (s \o t) \o one = s \o (t \o one)
  BY <1>1, ConcatAssociative
<1>5. Append(t, x) \in Seq(S)
  BY AppendProperties
<1> QED BY <1>1, <1>2, <1>3, <1>4, <1>5 DEF st

-----------------------------------------------------------------------------
(* Flattened sequences                                                     *)

\* FlattenSeq folds from the left: what it has after i sequences is what it had
\* after i - 1, and the i-th.
LEMMA FlattenLoop ==
  ASSUME NEW S, NEW seqs \in Seq(Seq(S)), Len(seqs) # 0
  PROVE  \E f \in [1 .. Len(seqs) -> Seq(S)] :
           /\ f[1] = seqs[1]
           /\ \A i \in 2 .. Len(seqs) : f[i] = f[i - 1] \o seqs[i]
           /\ FlattenSeq(seqs) = f[Len(seqs)]
<1> DEFINE n == Len(seqs)
           Is(f) == f = [i \in 1 .. n |-> IF i = 1 THEN seqs[i] ELSE f[i - 1] \o seqs[i]]
<1>1. n \in Nat /\ n >= 1 /\ \A i \in 1 .. n : seqs[i] \in Seq(S)
  BY LenProperties, ElementOfSeq
<1>2. << >> \in Seq(S) /\ \A s \in Seq(S) : << >> \o s = s
  BY EmptySeq, ConcatEmptySeq
<1>3. \A s, t \in Seq(S) : s \o t \in Seq(S)
  BY ConcatProperties
<1> DEFINE turn == [i \in 1 .. n |-> [s \in Seq(S) |-> s \o seqs[i]]]
<1>4. \A i \in 1 .. n : \A s \in Seq(S) : turn[i][s] = s \o seqs[i]
  OBVIOUS
<1>5. \A i \in 1 .. n : \A s \in Seq(S) : turn[i][s] \in Seq(S)
  BY <1>1, <1>3, <1>4
<1> HIDE DEF n, turn
<1>6. PICK h \in [0 .. n -> Seq(S)] :
        h[0] = << >> /\ \A i \in 1 .. n : h[i] = turn[i][h[i - 1]]
  <2>1. \E h : h \in LoopRuns(Seq(S), n, << >>, turn)
    BY <1>1, <1>2, <1>5, LoopExists
  <2> QED BY <2>1 DEF LoopRuns
<1>7. \A i \in 1 .. n : h[i] = h[i - 1] \o seqs[i]
  <2> SUFFICES ASSUME NEW i \in 1 .. n PROVE h[i] = h[i - 1] \o seqs[i]
    OBVIOUS
  <2>1. i - 1 \in 0 .. n
    BY <1>1
  <2>2. h[i - 1] \in Seq(S) /\ h[i] = turn[i][h[i - 1]]
    BY <1>6, <2>1
  <2> QED BY <1>4, <2>2
<1> DEFINE g == [i \in 1 .. n |-> h[i]]
<1>8. Is(g)
  <2>1. \A i \in 1 .. n : h[i] = IF i = 1 THEN seqs[i] ELSE g[i - 1] \o seqs[i]
    <3> SUFFICES ASSUME NEW i \in 1 .. n
                 PROVE  h[i] = IF i = 1 THEN seqs[i] ELSE g[i - 1] \o seqs[i]
      OBVIOUS
    <3>1. CASE i = 1
      <4>0. i - 1 = 0
        BY <3>1
      <4>1. h[i] = h[i - 1] \o seqs[i]
        BY <1>7, Zenon
      <4>2. << >> \o seqs[i] = seqs[i] /\ h[0] = << >>
        BY <1>1, <1>2, <1>6
      <4> QED BY <3>1, <4>0, <4>1, <4>2
    <3>2. CASE i # 1
      <4>1. g[i - 1] = h[i - 1]
        BY <1>1, <3>2
      <4> QED BY <1>7, <3>2, <4>1
    <3> QED BY <3>1, <3>2
  <2> QED BY <2>1
<1> HIDE DEF g
<1> DEFINE f == CHOOSE f : Is(f)
<1>9. Is(f)
  <2> HIDE DEF Is
  <2> QED BY <1>8
<1>10. FlattenSeq(seqs) = f[n]
  BY <1>1 DEF FlattenSeq, n
<1> HIDE DEF f
<1>11. f[1] = seqs[1] /\ \A i \in 2 .. n : f[i] = f[i - 1] \o seqs[i]
  <2>1. \A i \in 1 .. n : f[i] = IF i = 1 THEN seqs[i] ELSE f[i - 1] \o seqs[i]
    BY <1>9
  <2>2. 1 \in 1 .. n /\ \A i \in 2 .. n : i \in 1 .. n /\ i # 1
    BY <1>1
  <2> QED BY <2>1, <2>2
<1> DEFINE G == {i \in 1 .. n : f[i] \in Seq(S)}
<1>12. \A i \in 1 .. n : i \in G
  <2>1. 1 \in G
    BY <1>1, <1>11
  <2>2. ASSUME NEW i \in 1 .. n - 1, i \in G PROVE i + 1 \in G
    <3>1. i + 1 \in 2 .. n /\ (i + 1) - 1 = i /\ i + 1 \in 1 .. n
      BY <1>1
    <3>2. f[i + 1] = f[i] \o seqs[i + 1]
      BY <1>11, <3>1
    <3> QED BY <1>1, <1>3, <2>2, <3>1, <3>2
  <2> HIDE DEF G
  <2>3. 1 \in Int /\ n \in Int /\ (1 <= n => 1 \in G)
    BY <1>1, <2>1
  <2>4. \A i \in 1 .. n - 1 : i \in G => i + 1 \in G
    BY <2>2
  <2> QED BY ONLY <2>3, <2>4, InductionUpTo
<1>13. f \in [1 .. n -> Seq(S)]
  BY <1>9, <1>12
<1> QED BY <1>10, <1>11, <1>13 DEF n

LEMMA FlattenEmpty == FlattenSeq(<< >>) = << >>
BY DEF FlattenSeq

LEMMA FlattenType ==
  ASSUME NEW S, NEW seqs \in Seq(Seq(S))
  PROVE  FlattenSeq(seqs) \in Seq(S)
<1>1. CASE Len(seqs) = 0
  <2>1. seqs = << >>
    BY <1>1, EmptySeq
  <2> QED BY <2>1, FlattenEmpty, EmptySeq
<1>2. CASE Len(seqs) # 0
  <2>1. PICK f \in [1 .. Len(seqs) -> Seq(S)] : FlattenSeq(seqs) = f[Len(seqs)]
    BY <1>2, FlattenLoop
  <2>2. Len(seqs) \in 1 .. Len(seqs)
    BY <1>2, LenProperties
  <2> QED BY <2>1, <2>2
<1> QED BY <1>1, <1>2

LEMMA FlattenAppend ==
  ASSUME NEW S, NEW seqs \in Seq(Seq(S)), NEW s \in Seq(S)
  PROVE  FlattenSeq(Append(seqs, s)) = FlattenSeq(seqs) \o s
<1> DEFINE n == Len(seqs)
           more == Append(seqs, s)
<1>1. /\ n \in Nat /\ more \in Seq(Seq(S)) /\ Len(more) = n + 1
      /\ more[n + 1] = s /\ \A i \in 1 .. n : more[i] = seqs[i]
  BY AppendProperties, LenProperties
<1> HIDE DEF more
<1>2. PICK g \in [1 .. n + 1 -> Seq(S)] :
        /\ g[1] = more[1] /\ \A i \in 2 .. n + 1 : g[i] = g[i - 1] \o more[i]
        /\ FlattenSeq(more) = g[n + 1]
  <2>1. Len(more) # 0
    BY <1>1
  <2>2. \E g \in [1 .. Len(more) -> Seq(S)] :
          /\ g[1] = more[1] /\ \A i \in 2 .. Len(more) : g[i] = g[i - 1] \o more[i]
          /\ FlattenSeq(more) = g[Len(more)]
    BY <1>1, <2>1, FlattenLoop
  <2> QED BY <1>1, <2>2
<1>3. CASE n = 0
  <2>1. seqs = << >>
    BY <1>3, EmptySeq
  <2>2. FlattenSeq(more) = s
    BY <1>1, <1>2, <1>3
  <2>3. << >> \o s = s
    BY ConcatEmptySeq
  <2> QED BY <2>1, <2>2, <2>3, FlattenEmpty DEF more
<1>4. CASE n # 0
  <2>1. PICK f \in [1 .. n -> Seq(S)] :
          /\ f[1] = seqs[1] /\ \A i \in 2 .. n : f[i] = f[i - 1] \o seqs[i]
          /\ FlattenSeq(seqs) = f[n]
    BY <1>4, FlattenLoop
  <2> HIDE DEF n
  <2> DEFINE G == {i \in 1 .. n : f[i] = g[i]}
  <2>2. 1 \in G
    BY <1>1, <1>2, <1>4, <2>1
  <2>3. ASSUME NEW i \in 1 .. n - 1, i \in G PROVE i + 1 \in G
    <3>1. i + 1 \in 2 .. n /\ (i + 1) - 1 = i /\ i + 1 \in 1 .. n /\ i + 1 \in 2 .. n + 1
      BY <1>1
    <3>2. g[i + 1] = g[i] \o more[i + 1] /\ f[i + 1] = f[i] \o seqs[i + 1]
      BY <1>2, <2>1, <3>1
    <3>3. more[i + 1] = seqs[i + 1]
      BY <1>1, <3>1
    <3> QED BY <2>3, <3>1, <3>2, <3>3
  <2>4. \A i \in 1 .. n : i \in G
    <3> HIDE DEF G
    <3>1. 1 \in Int /\ n \in Int /\ (1 <= n => 1 \in G)
      BY <1>1, <2>2
    <3>2. \A i \in 1 .. n - 1 : i \in G => i + 1 \in G
      BY <2>3
    <3> QED BY ONLY <3>1, <3>2, InductionUpTo
  <2>5. f[n] = g[n]
    BY <1>1, <1>4, <2>4
  <2>6. g[n + 1] = g[n] \o s
    <3>1. n + 1 \in 2 .. n + 1 /\ (n + 1) - 1 = n
      BY <1>1, <1>4
    <3> QED BY <1>1, <1>2, <3>1
  <2> QED BY <1>2, <2>1, <2>5, <2>6 DEF more
<1> QED BY <1>3, <1>4

-----------------------------------------------------------------------------
(* Streams: one that holds only messages of some set still does, and only  *)
(* such messages reach the kernel.  Stated for any set of messages, these  *)
(* lemmas serve type correctness and, with a smaller set, the claim that   *)
(* no report waits in a session that was not admitted.                     *)

LEMMA FreshStreamType ==
  ASSUME NEW M
  PROVE  FreshStream \in StreamOver(M) /\ ZeroStream \in StreamOver(M)
<1>1. << >> \in Seq(M)
  BY EmptySeq
<1>2. FreshStream \in StreamOver(M)
  BY <1>1 DEF FreshStream, StreamOver
<1> QED BY <1>2 DEF ZeroStream, StreamOver

LEMMA WrittenType ==
  ASSUME NEW M, NEW s \in StreamOver(M), NEW sent \in Seq(M), NEW w,
         w = Written(s, sent)
  PROVE  w.stream \in StreamOver(M) /\ w.sent \in Seq(M)
BY DEF Written

LEMMA WriteType ==
  ASSUME NEW M, NEW s \in StreamOver(M), NEW m \in M,
         NEW mayBlock \in BOOLEAN, NEW mayFail \in BOOLEAN,
         NEW w \in Write(s, m, mayBlock, mayFail)
  PROVE  w.stream \in StreamOver(M) /\ w.sent \in Seq(M)
<1> DEFINE Buffered == [s EXCEPT !.wbuf = Append(@, m)]
<1>1. Buffered \in StreamOver(M)
  BY DEF StreamOver
<1>2. SetUloop(Buffered, TRUE) \in StreamOver(M)
  BY <1>1 DEF StreamOver, SetUloop
<1>3. WriteError(s) \in StreamOver(M)
  BY DEF StreamOver, WriteError, StateChange
<1>4. \/ w = Written(s, << >>)
      \/ w = Written(Buffered, << >>)
      \/ w = Written(s, << m >>)
      \/ w = Written(SetUloop(Buffered, TRUE), << >>)
      \/ w = Written(WriteError(s), << >>)
  BY Zenon DEF Write
<1>5. << >> \in Seq(M) /\ << m >> \in Seq(M)
  OBVIOUS
<1> HIDE DEF Buffered
<1>6. CASE w = Written(s, << >>)
  BY <1>5, <1>6, WrittenType, Zenon
<1>7. CASE w = Written(Buffered, << >>)
  BY <1>1, <1>5, <1>7, WrittenType, Zenon
<1>8. CASE w = Written(s, << m >>)
  BY <1>5, <1>8, WrittenType, Zenon
<1>9. CASE w = Written(SetUloop(Buffered, TRUE), << >>)
  BY <1>2, <1>5, <1>9, WrittenType, Zenon
<1>10. CASE w = Written(WriteError(s), << >>)
  BY <1>3, <1>5, <1>10, WrittenType, Zenon
<1> QED BY <1>4, <1>6, <1>7, <1>8, <1>9, <1>10

LEMMA FlushType ==
  ASSUME NEW M, NEW s \in StreamOver(M), NEW mayFail \in BOOLEAN,
         NEW w \in Flush(s, mayFail)
  PROVE  w.stream \in StreamOver(M) /\ w.sent \in Seq(M)
<1> DEFINE Sent(k) == SubSeq(s.wbuf, 1, k)
           Left(k) == [s EXCEPT !.wbuf = SubSeq(@, k + 1, Len(@))]
           d == Left(Len(s.wbuf))
           Drained == SetUloop(IF s.eof THEN StateChange(d) ELSE d, FALSE)
<1>1. s.wbuf \in Seq(M) /\ Len(s.wbuf) \in Nat
  BY LenProperties DEF StreamOver
<1>2. ASSUME NEW k \in 0 .. Len(s.wbuf)
      PROVE  Sent(k) \in Seq(M) /\ Left(k) \in StreamOver(M)
  <2>1. \A i \in 1 .. Len(s.wbuf) : s.wbuf[i] \in M
    BY <1>1, ElementOfSeq
  <2>2. SubSeq(s.wbuf, 1, k) \in Seq(M)
    BY <1>1, <2>1, SubSeqProperties
  <2>3. SubSeq(s.wbuf, k + 1, Len(s.wbuf)) \in Seq(M)
    BY <1>1, <2>1, SubSeqProperties
  <2> QED BY <2>2, <2>3 DEF StreamOver
<1>3. d \in StreamOver(M)
  <2> HIDE DEF Left
  <2>1. Len(s.wbuf) \in 0 .. Len(s.wbuf)
    BY <1>1
  <2> QED BY <2>1, <1>2
<1>4. Drained \in StreamOver(M)
  <2> HIDE DEF d
  <2> QED BY <1>3 DEF StreamOver, SetUloop, StateChange
<1>5. WriteError(s) \in StreamOver(M)
  BY DEF StreamOver, WriteError, StateChange
<1>6. \/ \E k \in 1 .. Len(s.wbuf) - 1 : w = Written(Left(k), Sent(k))
      \/ w = Written(Drained, s.wbuf)
      \/ w = Written(WriteError(s), << >>)
  BY Zenon DEF Flush
<1> HIDE DEF Sent, Left, d, Drained
<1>7. CASE \E k \in 1 .. Len(s.wbuf) - 1 : w = Written(Left(k), Sent(k))
  <2> PICK k \in 1 .. Len(s.wbuf) - 1 : w = Written(Left(k), Sent(k))
    BY <1>7
  <2>1. k \in 0 .. Len(s.wbuf)
    BY <1>1
  <2> QED BY <2>1, <1>2, WrittenType, Zenon
<1>8. << >> \in Seq(M)
  BY EmptySeq
<1>9. CASE w = Written(Drained, s.wbuf)
  BY <1>1, <1>4, <1>9, WrittenType, Zenon
<1>10. CASE w = Written(WriteError(s), << >>)
  BY <1>5, <1>8, <1>10, WrittenType, Zenon
<1> QED BY <1>6, <1>7, <1>9, <1>10

LEMMA StreamStepType ==
  ASSUME NEW M, NEW s \in StreamOver(M), NEW hup \in BOOLEAN
  PROVE  /\ ReadEof(s, hup) \in StreamOver(M)
         /\ StateChanged(s) \in StreamOver(M)
         /\ XstreamFree(s) \in StreamOver(M)
<1>0. << >> \in Seq(M)
  BY EmptySeq
<1>1. ReadEof(s, hup) \in StreamOver(M)
  BY DEF StreamOver, ReadEof, SetUloop, StateChange
<1>2. StateChanged(s) \in StreamOver(M)
  BY <1>0 DEF StreamOver, StateChanged
<1>3. XstreamFree(s) \in StreamOver(M)
  BY <1>0 DEF StreamOver, XstreamFree
<1> QED BY <1>1, <1>2, <1>3

\* A stream over fewer messages is one over more.
LEMMA StreamMonotonic ==
  ASSUME NEW M, NEW N, N \subseteq M, NEW s \in StreamOver(N)
  PROVE  s \in StreamOver(M)
<1>1. s.wbuf \in Seq(M)
  BY SeqMonotonic DEF StreamOver
<1> QED BY <1>1 DEF StreamOver
=============================================================================
