--------------------------- MODULE Stream_proofs ---------------------------
(***************************************************************************)
(* The bytes of a stream, from read() to the lines of the client.          *)
(*                                                                         *)
(* Lines cut out of any byte stream, however it is cut into reads, for     *)
(* every size of the read buffer: no byte is lost for any number of        *)
(* streams that share objbuf, and each line is handed over as such when    *)
(* one stream has it for its own.                                          *)
(*                                                                         *)
(* Chunked buffers that keep every byte in its place, for every size and   *)
(* number of chunks (a write side without a maximum included): the         *)
(* invariant is BufInv, on the shape of a list (no empty chunk before      *)
(* data_tail, only fresh ones behind it) and the numbers of its bytes.     *)
(***************************************************************************)
EXTENDS LineCodec, UstreamBuf, Lemmas


-----------------------------------------------------------------------------
(* Lines and their ends                                                    *)

LEMMA EndsAppended ==
  ASSUME NEW lines \in Seq(Seq(Bytes)), NEW line \in Seq(Bytes)
  PROVE  /\ WithEnds(lines) \in Seq(Bytes)
         /\ WithEnds(Append(lines, line)) = WithEnds(lines) \o Append(line, "end")
<1> DEFINE n == Len(lines)
           more == Append(lines, line)
           ended == [i \in DOMAIN lines |-> Append(lines[i], "end")]
           all == [i \in DOMAIN more |-> Append(more[i], "end")]
           closed == Append(line, "end")
<1>1. n \in Nat /\ DOMAIN lines = 1 .. n /\ \A i \in 1 .. n : lines[i] \in Seq(Bytes)
  BY LenProperties, ElementOfSeq
<1>2. /\ more \in Seq(Seq(Bytes)) /\ Len(more) = n + 1 /\ DOMAIN more = 1 .. n + 1
      /\ \A i \in 1 .. n : more[i] = lines[i]
      /\ more[n + 1] = line
  BY AppendProperties, LenProperties
<1>3. \A s \in Seq(Bytes) : Append(s, "end") \in Seq(Bytes)
  <2>1. "end" \in Bytes
    BY DEF Bytes
  <2> QED BY <2>1, AppendProperties
<1> HIDE DEF n, more
<1>4. ended \in Seq(Seq(Bytes)) /\ Len(ended) = n /\ \A i \in 1 .. n : ended[i] = Append(lines[i], "end")
  <2>1. ended \in [1 .. n -> Seq(Bytes)]
    BY <1>1, <1>3
  <2>2. \A i \in 1 .. n : ended[i] = Append(lines[i], "end")
    BY <1>1
  <2> HIDE DEF ended
  <2> QED BY <1>1, <2>1, <2>2
<1>5. /\ all \in Seq(Seq(Bytes)) /\ Len(all) = n + 1
      /\ \A i \in 1 .. n + 1 : all[i] = Append(more[i], "end")
  <2>1. \A i \in 1 .. n + 1 : more[i] \in Seq(Bytes)
    BY <1>2, ElementOfSeq
  <2>2. all \in [1 .. n + 1 -> Seq(Bytes)]
    BY <1>2, <1>3, <2>1
  <2>3. \A i \in 1 .. n + 1 : all[i] = Append(more[i], "end")
    BY <1>2
  <2>4. n + 1 \in Nat
    BY <1>1
  <2> DEFINE m == n + 1
  <2> HIDE DEF all, m
  <2>5. all \in Seq(Seq(Bytes)) /\ Len(all) = m
    <3>1. all \in [1 .. m -> Seq(Bytes)] /\ m \in Nat
      BY <2>2, <2>4 DEF m
    <3> QED BY <3>1
  <2> QED BY <2>3, <2>5 DEF m
<1>6. closed \in Seq(Bytes)
  BY <1>3
<1> HIDE DEF ended, all, closed
<1>7. all = Append(ended, closed)
  <2> DEFINE x == Append(ended, closed)
  <2>1. /\ x \in Seq(Seq(Bytes)) /\ Len(x) = n + 1 /\ x[n + 1] = closed
        /\ \A i \in 1 .. n : x[i] = ended[i]
    BY <1>4, <1>6, AppendProperties
  <2> HIDE DEF x
  <2>2. ASSUME NEW i \in 1 .. n + 1 PROVE all[i] = x[i]
    <3>1. CASE i = n + 1
      <4>1. all[i] = Append(more[i], "end") /\ more[i] = line
        BY <1>2, <1>5, <3>1
      <4> QED BY <2>1, <3>1, <4>1 DEF closed
    <3>2. CASE i # n + 1
      <4>1. i \in 1 .. n
        BY <1>1, <3>2
      <4> QED BY <1>2, <1>4, <1>5, <2>1, <4>1
    <3> QED BY <3>1, <3>2
  <2>3. all = x
    BY <1>5, <2>1, <2>2, SeqEqual
  <2> QED BY <2>3 DEF x
<1>8. WithEnds(lines) = FlattenSeq(ended) /\ WithEnds(more) = FlattenSeq(all)
  BY DEF WithEnds, ended, all
<1>9. FlattenSeq(ended) \in Seq(Bytes)
  BY <1>4, FlattenType
<1>10. FlattenSeq(Append(ended, closed)) = FlattenSeq(ended) \o closed
  BY <1>4, <1>6, FlattenAppend
<1> QED BY <1>7, <1>8, <1>9, <1>10 DEF more, closed

LEMMA EndsType ==
  ASSUME NEW lines \in Seq(Seq(Bytes))
  PROVE  WithEnds(lines) \in Seq(Bytes)
<1>1. << >> \in Seq(Bytes)
  BY EmptySeq
<1> QED BY <1>1, EndsAppended

-----------------------------------------------------------------------------
(* The search                                                              *)

Finds == [lines : Seq(Seq(Bytes)), start : Nat \ {0}]

\* f is the search of data, byte by byte.
Searches(data, offset, f) ==
  /\ f[0] = [lines |-> << >>, start |-> 1]
  /\ \A i \in 1 .. Len(data) :
       f[i] = IF i > offset /\ data[i] = "end"
              THEN [lines |-> Append(f[i - 1].lines, SubSeq(data, f[i - 1].start, i - 1)),
                    start |-> i + 1]
              ELSE f[i - 1]
  /\ \A i \in 0 .. Len(data) : f[i] \in Finds

LEMMA ScanSearches ==
  ASSUME NEW data \in Seq(Bytes), NEW offset \in Nat
  PROVE  Searches(data, offset, Scan(data, offset))
<1> DEFINE n == Len(data)
           first == [lines |-> << >>, start |-> 1]
           then(i, d) == IF i > offset /\ data[i] = "end"
                         THEN [lines |-> Append(d.lines, SubSeq(data, d.start, i - 1)), start |-> i + 1]
                         ELSE d
           Is(f) == f = [i \in 0 .. n |-> IF i = 0 THEN first ELSE then(i, f[i - 1])]
           f == CHOOSE g : Is(g)
<1>1. n \in Nat /\ first \in Finds
  BY LenProperties, EmptySeq DEF Finds
<1>2. ASSUME NEW i \in 1 .. n, NEW d \in Finds PROVE then(i, d) \in Finds
  <2>1. \A j \in d.start .. i - 1 : data[j] \in Bytes
    <3> SUFFICES ASSUME NEW j \in d.start .. i - 1 PROVE data[j] \in Bytes
      OBVIOUS
    <3>1. j \in 1 .. n
      BY <1>1 DEF Finds
    <3> QED BY <3>1, ElementOfSeq
  <2>2. SubSeq(data, d.start, i - 1) \in Seq(Bytes)
    <3>1. d.start \in Int /\ i - 1 \in Int
      BY DEF Finds
    <3> QED BY <2>1, <3>1, SubSeqProperties
  <2>3. Append(d.lines, SubSeq(data, d.start, i - 1)) \in Seq(Seq(Bytes)) /\ i + 1 \in Nat \ {0}
    BY <2>2, AppendProperties DEF Finds
  <2> QED BY <2>3 DEF Finds
<1>3. PICK g \in [0 .. n -> Finds] : Is(g)
  <2> DEFINE turn == [i \in 1 .. n |-> [d \in Finds |-> then(i, d)]]
  <2>1. \A i \in 1 .. n : \A d \in Finds : turn[i][d] = then(i, d)
    OBVIOUS
  <2> HIDE DEF turn, n, then, first
  <2>2. \A i \in 1 .. n : \A d \in Finds : turn[i][d] \in Finds
    BY <1>2, <2>1
  <2>3. PICK g : g \in LoopRuns(Finds, n, first, turn)
    BY <1>1, <2>2, LoopExists
  <2>4. g \in [0 .. n -> Finds] /\ g[0] = first /\ \A i \in 1 .. n : g[i] = turn[i][g[i - 1]]
    BY <2>3 DEF LoopRuns
  <2>5. ASSUME NEW i \in 1 .. n PROVE g[i] = then(i, g[i - 1])
    <3>1. i - 1 \in 0 .. n
      BY <1>1
    <3> QED BY <2>1, <2>4, <3>1
  <2>6. g = [i \in 0 .. n |-> IF i = 0 THEN first ELSE then(i, g[i - 1])]
    BY <2>4, <2>5
  <2> QED BY <2>4, <2>6
<1>4. Is(f)
  <2> HIDE DEF Is
  <2> QED BY <1>3
<1>5. Scan(data, offset) = f
  BY DEF Scan
<1> HIDE DEF f, first, then, n
<1>6. f[0] = first /\ \A i \in 1 .. n : f[i] = then(i, f[i - 1])
  <2>1. \A i \in 0 .. n : f[i] = IF i = 0 THEN first ELSE then(i, f[i - 1])
    BY <1>4
  <2>2. 0 \in 0 .. n /\ \A i \in 1 .. n : i \in 0 .. n /\ i # 0
    BY <1>1
  <2> QED BY <2>1, <2>2
<1> DEFINE G == {i \in 0 .. n : f[i] \in Finds}
<1>7. \A i \in 0 .. n : i \in G
  <2>1. 0 \in Int /\ n \in Int /\ (0 <= n => 0 \in G)
    BY <1>1, <1>6
  <2>2. ASSUME NEW i \in 0 .. n - 1, i \in G PROVE i + 1 \in G
    <3>1. i + 1 \in 1 .. n /\ (i + 1) - 1 = i /\ i + 1 \in 0 .. n
      BY <1>1
    <3> QED BY <1>2, <1>6, <2>2, <3>1
  <2> HIDE DEF G
  <2>3. \A i \in 0 .. n - 1 : i \in G => i + 1 \in G
    BY <2>2
  <2> QED BY ONLY <2>1, <2>3, InductionUpTo
<1> QED BY <1>5, <1>6, <1>7 DEF Searches, first, then, n

NoEnd(line) == \A j \in DOMAIN line : line[j] # "end"

\* What was found in the first i bytes, behind the lines of before: every byte
\* is in a line or in what follows the last, and if no end was skipped, every
\* line has one, which is its last byte.
Found(data, offset, before, found, i) ==
  /\ found.lines \in Seq(Seq(Bytes)) /\ found.start \in 1 .. i + 1
  /\ found.lines = << >> => found.start = 1
  /\ \A k \in 1 .. Len(found.lines) : Len(found.lines[k]) <= Len(data)
  /\ WithEnds(before \o found.lines) \o SubSeq(data, found.start, i)
       = WithEnds(before) \o SubSeq(data, 1, i)
  /\ (\A j \in 1 .. Len(data) : j <= offset => data[j] # "end") =>
       /\ \A k \in 1 .. Len(found.lines) : NoEnd(found.lines[k])
       /\ \A j \in found.start .. i : data[j] # "end"

LEMMA FoundFirst ==
  ASSUME NEW data \in Seq(Bytes), NEW offset \in Nat, NEW before \in Seq(Seq(Bytes)),
         NEW d, d = [lines |-> << >>, start |-> 1]
  PROVE  Found(data, offset, before, d, 0)
<1>1. d.lines = << >> /\ d.start = 1
  OBVIOUS
<1>2. << >> \in Seq(Seq(Bytes)) /\ Len(<< >>) = 0
  BY EmptySeq
<1>3. before \o << >> = before
  BY ConcatEmptySeq
<1>4. (\A k \in 1 .. Len(d.lines) : FALSE) /\ (\A j \in 1 .. 0 : FALSE) /\ 1 \in 1 .. 0 + 1
  BY <1>1, <1>2
<1> QED BY <1>1, <1>2, <1>3, <1>4 DEF Found

\* A byte that ends no line.
LEMMA FoundNothing ==
  ASSUME NEW data \in Seq(Bytes), NEW offset \in Nat, NEW before \in Seq(Seq(Bytes)),
         NEW i \in 1 .. Len(data), NEW d \in Finds, Found(data, offset, before, d, i - 1),
         ~(i > offset /\ data[i] = "end")
  PROVE  Found(data, offset, before, d, i)
<1> DEFINE n == Len(data)
           ends == WithEnds(before \o d.lines)
           kept == WithEnds(before)
           b == data[i]
           one == << b >>
<1>1. n \in Nat /\ d.lines \in Seq(Seq(Bytes)) /\ d.start \in 1 .. i /\ b \in Bytes
  <2>1. (i - 1) + 1 = i
    OBVIOUS
  <2> QED BY <2>1, LenProperties, ElementOfSeq DEF Found
<1>2. ends \in Seq(Bytes) /\ kept \in Seq(Bytes) /\ one \in Seq(Bytes)
  <2>1. before \o d.lines \in Seq(Seq(Bytes))
    BY <1>1, ConcatProperties
  <2>2. ends \in Seq(Bytes)
    BY <2>1, EndsType
  <2>3. kept \in Seq(Bytes)
    BY EndsType
  <2>4. one \in Seq(Bytes)
    BY <1>1
  <2> QED BY <2>2, <2>3, <2>4
<1> DEFINE x == SubSeq(data, d.start, i - 1)
           y == SubSeq(data, 1, i - 1)
<1>3. /\ SubSeq(data, d.start, i) = x \o one /\ x \in Seq(Bytes)
      /\ SubSeq(data, 1, i) = y \o one /\ y \in Seq(Bytes)
  <2>1. ASSUME NEW m \in 1 .. i
        PROVE  SubSeq(data, m, i) = SubSeq(data, m, i - 1) \o one /\ SubSeq(data, m, i - 1) \in Seq(Bytes)
    <3>1. m \in 1 .. n /\ i \in m .. n /\ m \in Int /\ i - 1 \in Int
      BY <1>1
    <3>2. \A j \in m .. i - 1 : data[j] \in Bytes
      <4>1. \A j \in m .. i - 1 : j \in 1 .. n
        BY <1>1
      <4> QED BY <4>1, ElementOfSeq
    <3> QED BY <3>1, <3>2, SubSeqRecursiveSecond, SubSeqProperties
  <2>2. 1 \in 1 .. i
    BY <1>1
  <2> QED BY <1>1, <2>1, <2>2
<1>4. Same(ends, x, kept, y)
  BY DEF Found, Same
<1> HIDE DEF ends, kept, x, y, b, one
<1>5. Same(ends, x \o one, kept, y \o one)
  <2>1. x \in Seq(Bytes) /\ y \in Seq(Bytes)
    BY <1>3
  <2> QED BY ONLY <1>2, <2>1, <1>4, JoinedOn
<1>6. ends \o SubSeq(data, d.start, i) = kept \o SubSeq(data, 1, i)
  BY <1>3, <1>5 DEF Same
<1>7. (\A j \in 1 .. Len(data) : j <= offset => data[j] # "end") =>
        \A j \in d.start .. i : data[j] # "end"
  <2> SUFFICES ASSUME \A j \in 1 .. Len(data) : j <= offset => data[j] # "end",
                      NEW j \in d.start .. i
               PROVE  data[j] # "end"
    OBVIOUS
  <2>1. CASE j = i
    BY <2>1
  <2>2. CASE j # i
    <3>1. j \in d.start .. i - 1
      BY <1>1, <2>2
    <3> QED BY <3>1 DEF Found
  <2> QED BY <2>1, <2>2
<1>8. d.start \in 1 .. i + 1
  BY <1>1
<1> QED BY <1>6, <1>7, <1>8 DEF Found, ends, kept

\* A byte that ends a line.
LEMMA FoundLine ==
  ASSUME NEW data \in Seq(Bytes), NEW offset \in Nat, NEW before \in Seq(Seq(Bytes)),
         NEW i \in 1 .. Len(data), NEW d \in Finds, Found(data, offset, before, d, i - 1),
         data[i] = "end", NEW line, line = SubSeq(data, d.start, i - 1),
         NEW e, e = [lines |-> Append(d.lines, line), start |-> i + 1]
  PROVE  Found(data, offset, before, e, i)
<1> DEFINE n == Len(data)
           lines == Append(d.lines, line)
           kept == WithEnds(before)
           one == << "end" >>
           ls == d.lines
<1>1. n \in Nat /\ d.lines \in Seq(Seq(Bytes)) /\ d.start \in 1 .. i /\ "end" \in Bytes
  <2>1. (i - 1) + 1 = i
    OBVIOUS
  <2> QED BY <2>1, LenProperties DEF Found, Bytes
<1>2. /\ line \in Seq(Bytes) /\ Len(line) <= n
      /\ \A j \in 1 .. Len(line) : j + d.start - 1 \in d.start .. i - 1 /\ line[j] = data[j + d.start - 1]
  <2>1. \A j \in d.start .. i - 1 : data[j] \in Bytes
    <3>1. \A j \in d.start .. i - 1 : j \in 1 .. n
      BY <1>1
    <3> QED BY <3>1, ElementOfSeq
  <2>2. d.start \in Int /\ i - 1 \in Int
    BY <1>1
  <2>3. /\ line \in Seq(Bytes)
        /\ Len(line) = IF d.start <= i - 1 THEN i - 1 - d.start + 1 ELSE 0
        /\ \A j \in 1 .. i - 1 - d.start + 1 : line[j] = data[d.start + j - 1]
    BY <2>1, <2>2, SubSeqProperties, SMTT(30)
  <2> DEFINE l == Len(line)
             s == d.start
  <2>4. l = i - s /\ s \in 1 .. i
    BY <1>1, <2>3
  <2>5. \A j \in 1 .. i - s : line[j] = data[s + j - 1]
    BY <1>1, <2>3, SMTT(30)
  <2> HIDE DEF l, s, n
  <2>6. l <= n
    BY <1>1, <2>4 DEF n
  <2>7. \A j \in 1 .. l : j + s - 1 \in s .. i - 1 /\ s + j - 1 = j + s - 1
    BY <2>4
  <2> QED BY <2>3, <2>4, <2>5, <2>6, <2>7 DEF l, s, n
<1>3. /\ lines \in Seq(Seq(Bytes)) /\ Len(lines) = Len(d.lines) + 1 /\ lines # << >>
      /\ lines[Len(d.lines) + 1] = line
      /\ \A k \in 1 .. Len(d.lines) : lines[k] = d.lines[k]
      /\ Len(d.lines) \in Nat
  <2>1. Len(d.lines) \in Nat
    BY <1>1, LenProperties
  <2>3. ls \in Seq(Seq(Bytes))
    BY <1>1
  <2> HIDE DEF ls
  <2>4. /\ Append(ls, line) \in Seq(Seq(Bytes)) /\ Len(Append(ls, line)) = Len(ls) + 1
        /\ Append(ls, line) # << >> /\ Append(ls, line)[Len(ls) + 1] = line
        /\ \A k \in 1 .. Len(ls) : Append(ls, line)[k] = ls[k]
    <3>1. line \in Seq(Bytes)
      BY <1>2
    <3> QED BY ONLY <2>3, <3>1, AppendProperties
  <2>2. /\ lines \in Seq(Seq(Bytes)) /\ Len(lines) = Len(d.lines) + 1 /\ lines # << >>
        /\ lines[Len(d.lines) + 1] = line
        /\ \A k \in 1 .. Len(d.lines) : lines[k] = d.lines[k]
    BY <2>4 DEF ls
  <2> QED BY <2>1, <2>2
<1>4. WithEnds(before \o lines) = kept \o SubSeq(data, 1, i)
  <2> DEFINE ends == WithEnds(before \o d.lines)
             y == SubSeq(data, 1, i - 1)
             a == before \o d.lines
  <2>1. before \o lines = Append(a, line) /\ a \in Seq(Seq(Bytes))
    <3>1. ls \in Seq(Seq(Bytes))
      BY <1>1
    <3> HIDE DEF ls
    <3>2. before \o Append(ls, line) = Append(before \o ls, line) /\ before \o ls \in Seq(Seq(Bytes))
      <4>1. before \in Seq(Seq(Bytes)) /\ line \in Seq(Bytes)
        BY <1>2
      <4> QED BY ONLY <3>1, <4>1, AppendJoins
    <3> QED BY <3>2 DEF ls
  <2>2. /\ WithEnds(before \o lines) = ends \o Append(line, "end")
        /\ ends \in Seq(Bytes) /\ kept \in Seq(Bytes)
    <3>1. WithEnds(Append(a, line)) = WithEnds(a) \o Append(line, "end") /\ WithEnds(a) \in Seq(Bytes)
      BY <1>2, <2>1, EndsAppended
    <3>2. kept \in Seq(Bytes)
      BY <1>2, EndsAppended
    <3> QED BY <2>1, <3>1, <3>2
  <2>3. Append(line, "end") = line \o one /\ one \in Seq(Bytes)
    <3>1. line \in Seq(Bytes) /\ "end" \in Bytes /\ one = << "end" >>
      BY <1>1, <1>2
    <3> HIDE DEF one
    <3> QED BY ONLY <3>1, AppendedLast
  <2>4. SubSeq(data, 1, i) = y \o one /\ y \in Seq(Bytes)
    <3>1. 1 \in 1 .. n /\ i \in 1 .. n
      BY <1>1
    <3>2. \A j \in 1 .. i - 1 : data[j] \in Bytes
      <4>1. \A j \in 1 .. i - 1 : j \in 1 .. n
        BY <1>1
      <4> QED BY <4>1, ElementOfSeq
    <3>3. 1 \in Int /\ i - 1 \in Int
      OBVIOUS
    <3>4. y \in Seq(Bytes)
      BY <3>2, <3>3, SubSeqProperties
    <3> QED BY <3>1, <3>4, SubSeqRecursiveSecond
  <2>5. Same(ends, line, kept, y)
    BY DEF Found, Same
  <2> HIDE DEF ends, y, kept, lines, a, one
  <2>6. Same(ends, line \o one, kept, y \o one)
    <3>1. /\ ends \in Seq(Bytes) /\ kept \in Seq(Bytes) /\ line \in Seq(Bytes)
          /\ one \in Seq(Bytes) /\ y \in Seq(Bytes)
      BY <1>2, <2>2, <2>3, <2>4
    <3> QED BY ONLY <3>1, <2>5, JoinedOn
  <2> QED BY <2>2, <2>3, <2>4, <2>6 DEF Same
<1>5. WithEnds(before \o lines) \o SubSeq(data, i + 1, i) = kept \o SubSeq(data, 1, i)
  <2>1. SubSeq(data, i + 1, i) = << >>
    <3>1. i + 1 \in Int /\ i \in Int /\ i < i + 1
      OBVIOUS
    <3> QED BY <3>1, SubSeqEmpty
  <2>2. before \o lines \in Seq(Seq(Bytes)) /\ << >> \in Seq(Bytes)
    BY <1>3, ConcatProperties, EmptySeq
  <2>3. WithEnds(before \o lines) \in Seq(Bytes)
    BY <2>2, EndsAppended
  <2>4. WithEnds(before \o lines) \o << >> = WithEnds(before \o lines)
    BY <2>3, ConcatEmptySeq
  <2> QED BY <1>4, <2>1, <2>4
<1>6. (\A j \in 1 .. Len(data) : j <= offset => data[j] # "end") => NoEnd(line)
  <2> SUFFICES ASSUME \A j \in 1 .. Len(data) : j <= offset => data[j] # "end",
                      NEW j \in 1 .. Len(line)
               PROVE  line[j] # "end"
    BY <1>2, LenProperties DEF NoEnd
  <2> QED BY <1>2 DEF Found
<1>7. e.lines = lines /\ e.start = i + 1
  OBVIOUS
<1>8. \A k \in 1 .. Len(lines) : k \in 1 .. Len(d.lines) \/ k = Len(d.lines) + 1
  BY <1>3
<1>9. \A k \in 1 .. Len(lines) : Len(lines[k]) <= n
  BY <1>2, <1>3, <1>8 DEF Found
<1>10. (\A j \in 1 .. Len(data) : j <= offset => data[j] # "end") =>
         \A k \in 1 .. Len(lines) : NoEnd(lines[k])
  BY <1>3, <1>6, <1>8 DEF Found
<1>11. i + 1 \in 1 .. i + 1 /\ \A j \in i + 1 .. i : FALSE
  OBVIOUS
<1> HIDE DEF lines, kept
<1> QED BY <1>3, <1>5, <1>7, <1>9, <1>10, <1>11 DEF Found, kept
\* The whole search.
LEMMA AllFound ==
  ASSUME NEW data \in Seq(Bytes), NEW offset \in Nat, NEW before \in Seq(Seq(Bytes)),
         NEW found, found = Scan(data, offset)[Len(data)]
  PROVE  Found(data, offset, before, found, Len(data))
<1> DEFINE n == Len(data)
           f == Scan(data, offset)
           G == {i \in 0 .. n : Found(data, offset, before, f[i], i)}
<1>1. Searches(data, offset, f)
  BY ScanSearches
<1>2. n \in Nat
  BY LenProperties
<1> HIDE DEF f
<1>3. 0 \in G
  <2>1. f[0] = [lines |-> << >>, start |-> 1]
    BY <1>1 DEF Searches
  <2>2. Found(data, offset, before, f[0], 0)
    BY <2>1, FoundFirst
  <2> QED BY <1>2, <2>2
<1>4. ASSUME NEW i \in 0 .. n - 1, i \in G PROVE i + 1 \in G
  <2> DEFINE j == i + 1
             line == SubSeq(data, f[i].start, j - 1)
  <2>1. j \in 1 .. n /\ j - 1 = i /\ i \in 0 .. n
    BY <1>2
  <2>2. f[i] \in Finds /\ Found(data, offset, before, f[i], j - 1)
    BY <1>1, <1>4, <2>1 DEF Searches
  <2>3. f[j] = IF j > offset /\ data[j] = "end"
               THEN [lines |-> Append(f[i].lines, line), start |-> j + 1]
               ELSE f[i]
    BY <1>1, <2>1 DEF Searches
  <2>4. CASE ~(j > offset /\ data[j] = "end")
    <3>1. f[j] = f[i]
      BY <2>3, <2>4
    <3> HIDE DEF j
    <3>2. Found(data, offset, before, f[i], j)
      BY <2>1, <2>2, <2>4, FoundNothing
    <3>3. j \in 0 .. n
      BY <1>2, <2>1
    <3> QED BY <3>1, <3>2, <3>3 DEF j
  <2>5. CASE j > offset /\ data[j] = "end"
    <3>1. f[j] = [lines |-> Append(f[i].lines, line), start |-> j + 1]
      BY <2>3, <2>5
    <3> HIDE DEF j
    <3>2. PICK l : l = line
      OBVIOUS
    <3>3. Found(data, offset, before, f[j], j)
      BY <2>1, <2>2, <2>5, <3>1, <3>2, FoundLine
    <3>4. j \in 0 .. n
      BY <1>2, <2>1
    <3> QED BY <3>3, <3>4 DEF j
  <2> QED BY <2>4, <2>5
<1> HIDE DEF G
<1>5. n \in G
  <2>1. 0 \in Int /\ n \in Int /\ (0 <= n => 0 \in G) /\ n \in 0 .. n
    BY <1>2, <1>3
  <2>2. \A i \in 0 .. n - 1 : i \in G => i + 1 \in G
    BY <1>4
  <2>3. \A i \in 0 .. n : i \in G
    BY ONLY <2>1, <2>2, InductionUpTo
  <2> QED BY <2>1, <2>3
<1>6. Found(data, offset, before, f[n], n)
  BY <1>5 DEF G
<1> QED BY <1>6 DEF f

LEMMA GreaterOfTwo ==
  ASSUME NEW a \in Nat, NEW b \in Nat
  PROVE  Max({a, b}) = IF a <= b THEN b ELSE a
<1> DEFINE m == IF a <= b THEN b ELSE a
<1>1. m \in {a, b} /\ (\A y \in {a, b} : m >= y) /\ m \in Nat
  OBVIOUS
<1>2. \A x \in {a, b} : (\A y \in {a, b} : x >= y) => x = m
  OBVIOUS
<1>3. Max({a, b}) = CHOOSE x \in {a, b} : \A y \in {a, b} : x >= y
  BY DEF Max
<1> QED BY <1>1, <1>2, <1>3

-----------------------------------------------------------------------------
(* A read                                                                  *)

\* What notify_read makes of data on stream s: the lines it delivers, and the
\* rest it leaves in the buffer.
Notified(s, data, lines, rest) ==
  LET offset == IF parsing[s] THEN dataLen ELSE 0
  IN  /\ lines \in Seq(Seq(Bytes)) /\ rest \in Seq(Bytes) /\ Len(rest) <= Len(data)
      /\ delivered' = [delivered EXCEPT ![s] = @ \o lines]
      /\ buf' = [buf EXCEPT ![s] = rest]
      /\ parsing' = [parsing EXCEPT ![s] = rest # << >>]
      /\ WithEnds(delivered[s] \o lines) \o rest = WithEnds(delivered[s]) \o data
      /\ (\A j \in 1 .. Len(data) : j <= offset => data[j] # "end") =>
           /\ \A k \in 1 .. Len(lines) : NoEnd(lines[k])
           /\ \A j \in 1 .. Len(rest) : rest[j] # "end"
      /\ dataLen' \in 0 .. BufSize
      /\ offset <= Len(data) => (rest # << >> => dataLen' <= Len(rest))

LEMMA ReadNotifies ==
  ASSUME TypeOK, NEW s \in Streams, NEW data \in Seq(Bytes), Len(data) <= BufSize,
         NotifyRead(s, data)
  PROVE  \E lines, rest : Notified(s, data, lines, rest)
<1> DEFINE n == Len(data)
           offset == IF parsing[s] THEN dataLen ELSE 0
           found == Scan(data, offset)[n]
           rest == Rest(data, found.start)
           lines == found.lines
           before == delivered[s]
<1>1. /\ n \in Nat /\ offset \in Nat /\ offset <= BufSize /\ BufSize \in Nat
      /\ before \in Seq(Seq(Bytes))
  BY LenProperties, LineAssumption DEF TypeOK
<1>2. Found(data, offset, before, found, n)
  <2> HIDE DEF offset, before, found
  <2>1. found = Scan(data, offset)[Len(data)]
    BY DEF found
  <2> QED BY <1>1, <2>1, AllFound
<1>3. /\ delivered' = [delivered EXCEPT ![s] = @ \o lines]
      /\ buf' = [buf EXCEPT ![s] = rest]
      /\ parsing' = [parsing EXCEPT ![s] = rest # << >>]
      /\ dataLen' = IF lines = << >> THEN Max({offset, n})
                    ELSE IF rest # << >> THEN Len(rest)
                    ELSE Len(Last(lines))
  BY DEF NotifyRead
<1> DEFINE start == found.start
<1> HIDE DEF found, offset
<1>4. /\ lines \in Seq(Seq(Bytes)) /\ start \in 1 .. n + 1
      /\ lines = << >> => start = 1
      /\ \A k \in 1 .. Len(lines) : Len(lines[k]) <= n
      /\ WithEnds(before \o lines) \o SubSeq(data, start, n) = WithEnds(before) \o SubSeq(data, 1, n)
      /\ (\A j \in 1 .. n : j <= offset => data[j] # "end") =>
           /\ \A k \in 1 .. Len(lines) : NoEnd(lines[k])
           /\ \A j \in start .. n : data[j] # "end"
  BY <1>2 DEF Found
<1>5. rest = SubSeq(data, start, n)
  BY DEF Rest
<1> HIDE DEF rest, lines, start, n
<1>6. /\ rest \in Seq(Bytes) /\ Len(rest) = n + 1 - start
      /\ \A j \in 1 .. Len(rest) : start + j - 1 \in start .. n /\ rest[j] = data[start + j - 1]
  <2>1. \A j \in start .. n : data[j] \in Bytes
    <3>1. \A j \in start .. n : j \in 1 .. Len(data)
      BY <1>4 DEF n
    <3> QED BY <3>1, ElementOfSeq
  <2>2. start \in Int /\ n \in Int
    BY <1>1, <1>4
  <2>3. /\ rest \in Seq(Bytes)
        /\ Len(rest) = IF start <= n THEN n - start + 1 ELSE 0
        /\ \A j \in 1 .. n - start + 1 : rest[j] = data[start + j - 1]
    BY <1>5, <2>1, <2>2, SubSeqProperties
  <2> DEFINE l == Len(rest)
  <2> HIDE DEF l
  <2>4. l = n + 1 - start
    BY <1>1, <1>4, <2>3 DEF l
  <2>5. \A j \in 1 .. l : j \in 1 .. n - start + 1 /\ start + j - 1 \in start .. n
    BY <1>1, <1>4, <2>4
  <2> QED BY <2>3, <2>4, <2>5 DEF l
<1>7. SubSeq(data, 1, n) = data
  BY SubSeqFull DEF n
<1>8. Max({offset, n}) = IF offset <= n THEN n ELSE offset
  BY <1>1, GreaterOfTwo
<1>9. lines = << >> => Len(rest) = n
  BY <1>1, <1>4, <1>6
<1>10. lines # << >> => Len(Last(lines)) \in 0 .. n
  <2> SUFFICES ASSUME lines # << >> PROVE Len(Last(lines)) \in 0 .. n
    OBVIOUS
  <2>1. Len(lines) \in 1 .. Len(lines) /\ Last(lines) = lines[Len(lines)]
    <3>1. Len(lines) \in Nat /\ Len(lines) # 0
      BY <1>4, EmptySeq, LenProperties
    <3> QED BY <3>1 DEF Last
  <2>2. Last(lines) \in Seq(Bytes)
    BY <1>4, <2>1, ElementOfSeq
  <2>3. Len(Last(lines)) \in Nat
    BY <2>2, LenProperties
  <2> QED BY <1>1, <1>4, <2>1, <2>3
<1> DEFINE kept == Len(rest)
<1>11. kept \in 0 .. n
  BY <1>1, <1>4, <1>6
<1> HIDE DEF kept
<1>12. n <= BufSize
  BY DEF n
<1>13. dataLen' = IF lines = << >> THEN IF offset <= n THEN n ELSE offset
                  ELSE IF rest # << >> THEN kept ELSE Len(Last(lines))
  BY <1>3, <1>8 DEF kept
<1>14. dataLen' \in 0 .. BufSize
  BY <1>1, <1>10, <1>11, <1>12, <1>13
<1>15. offset <= n => (rest # << >> => dataLen' <= kept)
  <2>1. lines = << >> => kept = n
    BY <1>9 DEF kept
  <2> QED BY <1>1, <1>11, <1>13, <2>1
<1>16. WithEnds(before \o lines) \o rest = WithEnds(before) \o data
  BY <1>4, <1>5, <1>7
<1>17. (\A j \in 1 .. n : j <= offset => data[j] # "end") =>
         /\ \A k \in 1 .. Len(lines) : NoEnd(lines[k])
         /\ \A j \in 1 .. Len(rest) : rest[j] # "end"
  BY <1>4, <1>6
<1>18. lines \in Seq(Seq(Bytes)) /\ rest \in Seq(Bytes) /\ Len(rest) <= Len(data)
  BY <1>4, <1>6, <1>11 DEF kept, n
<1>19. Notified(s, data, lines, rest)
  BY <1>3, <1>14, <1>15, <1>16, <1>17, <1>18 DEF Notified, kept, n, offset
<1> QED BY <1>19

\* A read is a turn of the loop with the first of the unread bytes.
Turn(s, b, u, more, left, data) ==
  /\ more \in Seq(Bytes) /\ left \in Seq(Bytes) /\ more \o left = u
  /\ data = b \o more /\ data \in Seq(Bytes) /\ Len(b) <= Len(data) /\ Len(data) <= BufSize
  /\ \A j \in 1 .. Len(b) : data[j] = b[j]
  /\ unread' = [unread EXCEPT ![s] = left]

LEMMA ReadTurns ==
  ASSUME TypeOK, NEW s \in Streams, Read(s)
  PROVE  \E more, left, data, lines, rest :
           /\ Turn(s, buf[s], unread[s], more, left, data)
           /\ Notified(s, data, lines, rest)
<1> DEFINE b == buf[s]
           u == unread[s]
<1>1. b \in Seq(Bytes) /\ u \in Seq(Bytes) /\ unread \in [Streams -> Seq(Bytes)]
  BY DEF TypeOK
<1>2. PICK n \in 1 .. Len(u) :
        /\ Len(b) + n <= BufSize
        /\ NotifyRead(s, b \o SubSeq(u, 1, n))
        /\ unread' = [unread EXCEPT ![s] = SubSeq(@, n + 1, Len(@))]
  BY DEF Read
<1> DEFINE more == SubSeq(u, 1, n)
           left == SubSeq(u, n + 1, Len(u))
           data == b \o more
<1>3. unread' = [unread EXCEPT ![s] = left]
  BY <1>1, <1>2
<1> HIDE DEF b, u
<1>4. Len(u) \in Nat /\ Len(b) \in Nat
  BY <1>1, LenProperties
<1>5. more \in Seq(Bytes) /\ Len(more) = n /\ left \in Seq(Bytes)
  <2>1. \A j \in 1 .. Len(u) : u[j] \in Bytes
    BY <1>1, ElementOfSeq
  <2>2. 1 \in Int /\ n \in Int /\ n + 1 \in Int /\ Len(u) \in Int
    BY <1>4
  <2>3. (\A j \in 1 .. n : u[j] \in Bytes) /\ (\A j \in n + 1 .. Len(u) : u[j] \in Bytes)
    BY <1>4, <2>1
  <2>4. more \in Seq(Bytes) /\ Len(more) = IF 1 <= n THEN n - 1 + 1 ELSE 0
    BY <2>2, <2>3, SubSeqProperties
  <2>5. left \in Seq(Bytes)
    BY <2>2, <2>3, SubSeqProperties
  <2> QED BY <2>4, <2>5
<1>6. more \o left = u
  <2>1. 1 \in 1 .. Len(u) + 1 /\ n \in 1 - 1 .. Len(u) /\ Len(u) \in n .. Len(u)
    BY <1>4
  <2>2. SubSeq(u, 1, n) \o SubSeq(u, n + 1, Len(u)) = SubSeq(u, 1, Len(u))
    BY <1>1, <2>1, ConcatAdjacentSubSeq
  <2>3. SubSeq(u, 1, Len(u)) = u
    BY <1>1, SubSeqFull
  <2> QED BY <2>2, <2>3
<1> HIDE DEF more, left
<1>7. /\ data \in Seq(Bytes) /\ Len(data) = Len(b) + n
      /\ \A j \in 1 .. Len(b) : data[j] = b[j]
  <2> DEFINE x == Len(b)
             d == data
  <2>1. Len(b) = x /\ x \in Nat /\ n \in Nat /\ d = b \o more
    BY <1>4
  <2> HIDE DEF x, d
  <2>2. Joins(Bytes, b, x, more, n, d)
    BY <1>1, <1>5, <2>1, ConcatAt
  <2>3. d \in Seq(Bytes) /\ Len(d) = x + n /\ \A j \in 1 .. x : d[j] = b[j]
    BY <2>2 DEF Joins
  <2> QED BY <2>3 DEF x, d
<1>8. NotifyRead(s, data)
  BY <1>2 DEF more
<1> HIDE DEF data
<1>9. Len(data) <= BufSize /\ Len(b) <= Len(data)
  BY <1>2, <1>4, <1>7
<1>10. PICK lines, rest : Notified(s, data, lines, rest)
  BY <1>7, <1>8, <1>9, ReadNotifies
<1>11. Turn(s, b, u, more, left, data)
  BY <1>3, <1>5, <1>6, <1>7, <1>9 DEF Turn, data
<1> QED BY <1>10, <1>11 DEF b, u

-----------------------------------------------------------------------------
(* Types                                                                   *)

LEMMA TypeInit == Init => TypeOK
<1> SUFFICES ASSUME Init PROVE TypeOK
  OBVIOUS
<1>1. << >> \in Seq(Bytes) /\ Len(<< >>) = 0 /\ << >> \in Seq(Seq(Bytes))
  BY EmptySeq
<1>2. BufSize \in Nat
  BY LineAssumption
<1> QED BY <1>1, <1>2 DEF Init, TypeOK

LEMMA TypeStep == TypeOK /\ [Next]_vars => TypeOK'
<1> SUFFICES ASSUME TypeOK, [Next]_vars PROVE TypeOK'
  OBVIOUS
<1> USE DEF TypeOK
<1>0. << >> \in Seq(Bytes) /\ Len(<< >>) = 0 /\ << >> \in Seq(Seq(Bytes)) /\ BufSize \in Nat
  BY EmptySeq, LineAssumption
<1>1. ASSUME NEW s \in Streams, Read(s) PROVE TypeOK'
  <2>1. PICK more, left, data, lines, rest :
          /\ Turn(s, buf[s], unread[s], more, left, data)
          /\ Notified(s, data, lines, rest)
    BY <1>1, ReadTurns
  <2>2. /\ left \in Seq(Bytes) /\ unread' = [unread EXCEPT ![s] = left]
        /\ data \in Seq(Bytes) /\ Len(data) <= BufSize
    BY <2>1 DEF Turn
  <2>3. /\ lines \in Seq(Seq(Bytes)) /\ rest \in Seq(Bytes) /\ Len(rest) <= Len(data)
        /\ delivered' = [delivered EXCEPT ![s] = @ \o lines]
        /\ buf' = [buf EXCEPT ![s] = rest]
        /\ parsing' = [parsing EXCEPT ![s] = rest # << >>]
        /\ dataLen' \in 0 .. BufSize
    BY <2>1 DEF Notified
  <2>4. Len(rest) <= BufSize
    <3>1. Len(rest) \in Nat /\ Len(data) \in Nat
      BY <2>2, <2>3, LenProperties
    <3> QED BY <1>0, <2>2, <2>3, <3>1
  <2>5. delivered[s] \o lines \in Seq(Seq(Bytes))
    <3>1. delivered[s] \in Seq(Seq(Bytes))
      OBVIOUS
    <3> QED BY ONLY <2>3, <3>1, ConcatProperties
  <2>6. unread' \in [Streams -> Seq(Bytes)]
    BY <2>2
  <2>7. buf' \in [Streams -> Seq(Bytes)] /\ \A t \in Streams : Len(buf'[t]) <= BufSize
    BY <2>3, <2>4
  <2>8. delivered' \in [Streams -> Seq(Seq(Bytes))]
    BY <2>3, <2>5
  <2>9. parsing' \in [Streams -> BOOLEAN]
    BY <2>3, Zenon
  <2>10. sent' = sent /\ blocked' \in [Streams -> BOOLEAN]
    BY <1>1, Zenon DEF Read
  <2> QED BY <2>3, <2>6, <2>7, <2>8, <2>9, <2>10
<1>2. ASSUME NEW s \in Streams, Reopen(s) PROVE TypeOK'
  BY <1>0, <1>2 DEF Reopen
<1>3. ASSUME NEW s \in Streams, NEW b \in Bytes, Arrive(s, b) PROVE TypeOK'
  <2>1. Append(sent[s], b) \in Seq(Bytes) /\ Append(unread[s], b) \in Seq(Bytes)
    BY AppendProperties
  <2> QED BY <1>3, <2>1 DEF Arrive
<1>4. CASE UNCHANGED vars
  BY <1>4 DEF vars
<1> QED BY <1>1, <1>2, <1>3, <1>4 DEF Next

\* A read buffer never holds more than it has room for, and the offset kept in
\* objbuf stays within a buffer.
THEOREM TypeCorrect == Spec => []TypeOK
BY TypeInit, TypeStep, PTL DEF Spec

-----------------------------------------------------------------------------
(* No byte is lost                                                         *)

\* What a read moves from one part to the next.
LEMMA Moved ==
  ASSUME NEW k \in Seq(Bytes), NEW b \in Seq(Bytes), NEW more \in Seq(Bytes), NEW left \in Seq(Bytes)
  PROVE  (k \o (b \o more)) \o left = (k \o b) \o (more \o left)
<1> DEFINE ml == more \o left
           bm == b \o more
<1>1. bm \in Seq(Bytes) /\ ml \in Seq(Bytes)
  BY ConcatProperties
<1>2. bm \o left = b \o ml
  BY ConcatAssociative
<1> HIDE DEF ml, bm
<1>3. (k \o bm) \o left = k \o (bm \o left)
  BY ONLY k \in Seq(Bytes), left \in Seq(Bytes), <1>1, ConcatAssociative, SMTT(30)
<1>4. (k \o b) \o ml = k \o (b \o ml)
  BY ONLY k \in Seq(Bytes), b \in Seq(Bytes), <1>1, ConcatAssociative, SMTT(30)
<1> QED BY <1>2, <1>3, <1>4 DEF ml, bm

LEMMA KeptStep == TypeOK /\ BytesKept /\ [Next]_vars => BytesKept'
<1> SUFFICES ASSUME TypeOK, BytesKept, [Next]_vars, NEW t \in Streams
             PROVE  WithEnds(delivered'[t]) \o buf'[t] \o unread'[t] = sent'[t]
  BY DEF BytesKept
<1>0. WithEnds(delivered[t]) \o buf[t] \o unread[t] = sent[t]
  BY DEF BytesKept
<1>1. ASSUME NEW s \in Streams, Read(s)
      PROVE  WithEnds(delivered'[t]) \o buf'[t] \o unread'[t] = sent'[t]
  <2>1. PICK more, left, data, lines, rest :
          /\ Turn(s, buf[s], unread[s], more, left, data)
          /\ Notified(s, data, lines, rest)
    BY <1>1, ReadTurns
  <2>2. /\ more \in Seq(Bytes) /\ left \in Seq(Bytes) /\ more \o left = unread[s]
        /\ data = buf[s] \o more
        /\ unread' = [unread EXCEPT ![s] = left]
    BY <2>1 DEF Turn
  <2>3. /\ delivered' = [delivered EXCEPT ![s] = @ \o lines]
        /\ buf' = [buf EXCEPT ![s] = rest]
        /\ WithEnds(delivered[s] \o lines) \o rest = WithEnds(delivered[s]) \o data
    BY <2>1 DEF Notified
  <2>4. sent' = sent
    BY <1>1 DEF Read
  <2>5. CASE t # s
    BY <1>0, <2>2, <2>3, <2>4, <2>5 DEF TypeOK
  <2>6. CASE t = s
    <3> DEFINE k == WithEnds(delivered[s])
               b == buf[s]
    <3>1. delivered[s] \in Seq(Seq(Bytes)) /\ b \in Seq(Bytes)
      BY DEF TypeOK
    <3>2. k \in Seq(Bytes)
      BY <3>1, EndsType
    <3>3. /\ delivered'[s] = delivered[s] \o lines /\ buf'[s] = rest /\ unread'[s] = left
      BY <2>2, <2>3 DEF TypeOK
    <3> HIDE DEF k, b
    <3>4. (k \o (b \o more)) \o left = (k \o b) \o (more \o left)
      BY ONLY <2>2, <3>1, <3>2, Moved, ZenonT(60)
    <3>5. WithEnds(delivered'[s]) \o buf'[s] \o unread'[s] = (k \o (b \o more)) \o left
      BY <2>2, <2>3, <3>3 DEF k, b
    <3>6. (k \o b) \o (more \o left) = sent'[s]
      BY <1>0, <2>2, <2>4, <2>6 DEF k, b
    <3> QED BY <2>6, <3>4, <3>5, <3>6
  <2> QED BY <2>5, <2>6
<1>2. ASSUME NEW s \in Streams, Reopen(s)
      PROVE  WithEnds(delivered'[t]) \o buf'[t] \o unread'[t] = sent'[t]
  <2>1. CASE t = s
    <3>1. delivered'[t] = << >> /\ buf'[t] = << >> /\ unread'[t] = << >> /\ sent'[t] = << >>
      BY <1>2, <2>1 DEF Reopen, TypeOK
    <3>2. WithEnds(<< >>) = << >>
      BY FlattenEmpty DEF WithEnds
    <3>3. << >> \o << >> = << >>
      BY EmptySeq, ConcatEmptySeq
    <3> QED BY <3>1, <3>2, <3>3
  <2>2. CASE t # s
    BY <1>0, <1>2, <2>2 DEF Reopen, TypeOK
  <2> QED BY <2>1, <2>2
<1>3. ASSUME NEW s \in Streams, NEW x \in Bytes, Arrive(s, x)
      PROVE  WithEnds(delivered'[t]) \o buf'[t] \o unread'[t] = sent'[t]
  <2>1. delivered' = delivered /\ buf' = buf
    BY <1>3 DEF Arrive
  <2>2. CASE t = s
    <3> DEFINE read == WithEnds(delivered[t]) \o buf[t]
               u == unread[t]
    <3>1. read \in Seq(Bytes) /\ u \in Seq(Bytes)
      <4>1. delivered[t] \in Seq(Seq(Bytes)) /\ buf[t] \in Seq(Bytes) /\ u \in Seq(Bytes)
        BY DEF TypeOK
      <4>2. WithEnds(delivered[t]) \in Seq(Bytes)
        BY <4>1, EndsType
      <4> QED BY <4>1, <4>2, ConcatProperties
    <3>2. unread'[t] = Append(u, x) /\ sent'[t] = Append(sent[t], x)
      BY <1>3, <2>2 DEF Arrive, TypeOK
    <3> HIDE DEF read, u
    <3>3. read \o Append(u, x) = Append(read \o u, x)
      <4>1. x \in Bytes
        OBVIOUS
      <4> QED BY ONLY <3>1, <4>1, AppendJoins
    <3>4. read \o u = sent[t]
      BY <1>0 DEF read, u
    <3>5. WithEnds(delivered'[t]) \o buf'[t] = read
      BY <2>1 DEF read
    <3> QED BY <3>2, <3>3, <3>4, <3>5
  <2>3. CASE t # s
    BY <1>0, <1>3, <2>1, <2>3 DEF Arrive, TypeOK
  <2> QED BY <2>2, <2>3
<1>4. CASE UNCHANGED vars
  BY <1>0, <1>4 DEF vars
<1> QED BY <1>1, <1>2, <1>3, <1>4 DEF Next

\* However the bytes of a stream are cut into reads, and whatever other
\* streams do to objbuf in between, its lines, its buffer and what it did not
\* read yet are the bytes that were sent.
THEOREM NothingLost == Spec => []BytesKept
<1>1. Init => BytesKept
  <2> SUFFICES ASSUME Init, NEW t \in Streams
               PROVE  WithEnds(delivered[t]) \o buf[t] \o unread[t] = sent[t]
    BY DEF BytesKept
  <2>1. delivered[t] = << >> /\ buf[t] = << >> /\ unread[t] = << >> /\ sent[t] = << >>
    BY DEF Init
  <2>2. WithEnds(<< >>) = << >>
    BY FlattenEmpty DEF WithEnds
  <2>3. << >> \o << >> = << >>
    BY EmptySeq, ConcatEmptySeq
  <2> QED BY <2>1, <2>2, <2>3
<1> QED BY <1>1, KeptStep, TypeInit, TypeStep, PTL DEF Spec

-----------------------------------------------------------------------------
(* One stream                                                              *)

\* With a stream that has objbuf for its own, a search skips only bytes that
\* were searched, and so finds every end.
FramedInv == TypeOK /\ LinesFramed /\ SkipsSearched

LEMMA FramedStep ==
  ASSUME NEW only, Streams = {only}, FramedInv, [Next]_vars
  PROVE  FramedInv'
<1>0. only \in Streams /\ \A s \in Streams : s = only
  OBVIOUS
<1>1. TypeOK /\ TypeOK'
  BY TypeStep DEF FramedInv
<1>2. /\ \A i \in 1 .. Len(delivered[only]) : NoEnd(delivered[only][i])
      /\ \A j \in 1 .. Len(buf[only]) : buf[only][j] # "end"
      /\ parsing[only] => dataLen <= Len(buf[only])
      /\ delivered[only] \in Seq(Seq(Bytes)) /\ buf[only] \in Seq(Bytes)
  <2>1. delivered[only] \in Seq(Seq(Bytes)) /\ buf[only] \in Seq(Bytes)
    BY <1>0, <1>1 DEF TypeOK
  <2>2. DOMAIN delivered[only] = 1 .. Len(delivered[only]) /\ DOMAIN buf[only] = 1 .. Len(buf[only])
    BY <2>1, LenProperties
  <2> QED BY <1>0, <2>1, <2>2 DEF FramedInv, LinesFramed, SkipsSearched, NoEnd
<1> DEFINE Goal == /\ \A i \in 1 .. Len(delivered'[only]) : NoEnd(delivered'[only][i])
                   /\ \A j \in 1 .. Len(buf'[only]) : buf'[only][j] # "end"
                   /\ parsing'[only] => dataLen' <= Len(buf'[only])
<1>3. SUFFICES Goal
  <2> HIDE DEF Goal
  <2> SUFFICES ASSUME Goal PROVE FramedInv'
    OBVIOUS
  <2>1. delivered'[only] \in Seq(Seq(Bytes)) /\ buf'[only] \in Seq(Bytes)
    BY <1>0, <1>1 DEF TypeOK
  <2>2. DOMAIN delivered'[only] = 1 .. Len(delivered'[only]) /\ DOMAIN buf'[only] = 1 .. Len(buf'[only])
    BY <2>1, LenProperties
  <2>3. \A s \in Streams : /\ \A i \in DOMAIN delivered'[s] : NoEnd(delivered'[s][i])
                           /\ \A j \in DOMAIN buf'[s] : buf'[s][j] # "end"
                           /\ parsing'[s] => dataLen' <= Len(buf'[s])
    BY <1>0, <2>2 DEF Goal
  <2> QED BY <1>1, <2>3 DEF FramedInv, LinesFramed, SkipsSearched, NoEnd
<1>4. ASSUME Read(only) PROVE Goal
  <2>1. PICK more, left, data, lines, rest :
          /\ Turn(only, buf[only], unread[only], more, left, data)
          /\ Notified(only, data, lines, rest)
    BY <1>0, <1>1, <1>4, ReadTurns
  <2> DEFINE offset == IF parsing[only] THEN dataLen ELSE 0
             old == delivered[only]
             new == old \o lines
  <2>2. /\ data \in Seq(Bytes) /\ Len(buf[only]) <= Len(data)
        /\ \A j \in 1 .. Len(buf[only]) : data[j] = buf[only][j]
    BY <2>1 DEF Turn
  <2>3. /\ lines \in Seq(Seq(Bytes))
        /\ delivered' = [delivered EXCEPT ![only] = @ \o lines]
        /\ buf' = [buf EXCEPT ![only] = rest]
        /\ parsing' = [parsing EXCEPT ![only] = rest # << >>]
        /\ (\A j \in 1 .. Len(data) : j <= offset => data[j] # "end") =>
             /\ \A k \in 1 .. Len(lines) : NoEnd(lines[k])
             /\ \A j \in 1 .. Len(rest) : rest[j] # "end"
        /\ offset <= Len(data) => (rest # << >> => dataLen' <= Len(rest))
    BY <2>1 DEF Notified
  <2>4. Len(buf[only]) \in Nat /\ Len(data) \in Nat
    BY <1>2, <2>2, LenProperties
  <2>5. offset <= Len(buf[only]) /\ offset \in Nat
    BY <1>0, <1>1, <1>2, <2>4, LineAssumption DEF TypeOK
  <2> HIDE DEF offset
  <2>6. offset <= Len(data)
    BY <2>2, <2>4, <2>5
  <2>7. \A j \in 1 .. Len(data) : j <= offset => data[j] # "end"
    <3> SUFFICES ASSUME NEW j \in 1 .. Len(data), j <= offset PROVE data[j] # "end"
      OBVIOUS
    <3>1. j \in 1 .. Len(buf[only])
      BY <2>4, <2>5
    <3> QED BY <1>2, <2>2, <3>1
  <2>8. /\ \A k \in 1 .. Len(lines) : NoEnd(lines[k])
        /\ \A j \in 1 .. Len(rest) : rest[j] # "end"
        /\ rest # << >> => dataLen' <= Len(rest)
    BY <2>3, <2>6, <2>7
  <2>9. delivered'[only] = new /\ buf'[only] = rest /\ parsing'[only] = (rest # << >>)
    BY <1>0, <1>1, <2>3 DEF TypeOK
  <2>10. \A i \in 1 .. Len(new) : NoEnd(new[i])
    <3>1. PICK x \in Nat, y \in Nat : x = Len(old) /\ y = Len(lines)
      BY <1>2, <2>3, LenProperties
    <3> HIDE DEF old
    <3>2. PICK u : u = old \o lines
      OBVIOUS
    <3>3. Joins(Seq(Bytes), old, x, lines, y, u)
      <4>1. old \in Seq(Seq(Bytes)) /\ lines \in Seq(Seq(Bytes))
        BY <1>2, <2>3 DEF old
      <4> QED BY ONLY <3>1, <3>2, <4>1, ConcatAt
    <3>4. /\ Len(u) = x + y /\ \A i \in 1 .. x : u[i] = old[i]
          /\ \A i \in 1 .. y : u[x + i] = lines[i]
      BY <3>3 DEF Joins
    <3>5. ASSUME NEW i \in 1 .. x + y PROVE NoEnd(u[i])
      <4>1. CASE i \in 1 .. x
        BY <1>2, <3>1, <3>4, <4>1 DEF old
      <4>2. CASE i \notin 1 .. x
        <5>1. i - x \in 1 .. y /\ x + (i - x) = i
          BY <4>2
        <5>2. u[i] = lines[i - x]
          BY <3>4, <5>1
        <5> QED BY <2>8, <3>1, <5>1, <5>2
      <4> QED BY <4>1, <4>2
    <3>6. new = u
      BY <3>2 DEF new
    <3> QED BY <3>4, <3>5, <3>6
  <2> QED BY <2>8, <2>9, <2>10
<1>5. ASSUME Reopen(only) PROVE Goal
  <2>1. delivered'[only] = << >> /\ buf'[only] = << >> /\ parsing'[only] = FALSE
    BY <1>0, <1>1, <1>5 DEF Reopen, TypeOK
  <2>2. Len(<< >>) = 0
    BY EmptySeq
  <2> QED BY <2>1, <2>2
<1>6. ASSUME NEW x \in Bytes, Arrive(only, x) PROVE Goal
  BY <1>2, <1>6 DEF Arrive
<1>7. CASE UNCHANGED vars
  BY <1>2, <1>7 DEF vars
<1> HIDE DEF Goal
<1> QED BY <1>0, <1>4, <1>5, <1>6, <1>7 DEF Next

\* A stream that is the only one to parse lines, as the connection to the
\* server once the modem talks KISS, never delivers two lines as one and never
\* leaves a complete line in its buffer.
THEOREM OneStreamFramed ==
  ASSUME NEW only, Streams = {only}
  PROVE  Spec => []LinesFramed
<1>1. Init => FramedInv
  <2> SUFFICES ASSUME Init PROVE LinesFramed /\ SkipsSearched
    BY TypeInit DEF FramedInv
  <2>1. \A s \in Streams : delivered[s] = << >> /\ buf[s] = << >> /\ parsing[s] = FALSE
    BY DEF Init
  <2>2. DOMAIN << >> = {}
    OBVIOUS
  <2> QED BY <2>1, <2>2 DEF LinesFramed, SkipsSearched
<1>2. FramedInv /\ [Next]_vars => FramedInv'
  BY FramedStep
<1>3. FramedInv => LinesFramed
  BY DEF FramedInv
<1> QED BY <1>1, <1>2, <1>3, PTL DEF Spec


-----------------------------------------------------------------------------
(* The chunks of a list                                                    *)

Number == 0 .. Wrap - 1
Chunk == [off : Nat, data : Seq(Number)]
List == [bufs : Seq(Chunk), tail : Nat, bytes : Int, buffers : Int]
Geometry == [len : Nat \ {0}, min : Nat \ {0}, max : Int]

\* The bytes of the first k chunks.
UpTo(bufs, k) == FlattenSeq([i \in 1 .. k |-> bufs[i].data])

\* What every list keeps to between two steps, and between two turns of a loop:
\* before data_tail no chunk is empty, behind it all are, and fresh.
Shape(g, l) ==
  /\ l \in List
  /\ \A i \in 1 .. Len(l.bufs) : l.bufs[i].off + Len(l.bufs[i].data) <= g.len
  /\ l.tail \in 0 .. Len(l.bufs) /\ (l.tail = 0 <=> Len(l.bufs) = 0)
  /\ g.max > 0 => Len(l.bufs) <= g.max
  /\ \A i \in 1 .. l.tail - 1 : Len(l.bufs[i].data) > 0
  /\ \A i \in l.tail + 1 .. Len(l.bufs) : l.bufs[i] = FreshBuf

LEMMA ListFields ==
  ASSUME NEW l \in List
  PROVE  /\ l.bufs \in Seq(Chunk) /\ l.tail \in Nat /\ l.bytes \in Int /\ l.buffers \in Int
         /\ l = [bufs |-> l.bufs, tail |-> l.tail, bytes |-> l.bytes, buffers |-> l.buffers]
BY DEF List

LEMMA ModSmall ==
  ASSUME NEW x \in Number
  PROVE  x % Wrap = x /\ (x + Wrap) % Wrap = x /\ (x - Wrap) % Wrap = x
<1>1. Wrap \in Nat \ {0}
  BY UstreamBufAssumption
<1> QED BY <1>1 DEF Number

LEMMA UpToNext ==
  ASSUME NEW bufs \in Seq(Chunk), NEW k \in 0 .. Len(bufs) - 1
  PROVE  /\ UpTo(bufs, k) \in Seq(Number)
         /\ UpTo(bufs, k + 1) = UpTo(bufs, k) \o bufs[k + 1].data
<1>1. Len(bufs) \in Nat /\ \A i \in 1 .. Len(bufs) : bufs[i] \in Chunk
  BY LenProperties, ElementOfSeq
<1>2. \A i \in 1 .. Len(bufs) : bufs[i].data \in Seq(Number)
  BY <1>1 DEF Chunk
<1> DEFINE some == [i \in 1 .. k |-> bufs[i].data]
           more == [i \in 1 .. k + 1 |-> bufs[i].data]
           last == bufs[k + 1].data
<1>3. k \in Nat /\ k + 1 \in 1 .. Len(bufs)
  BY <1>1
<1>4. some \in Seq(Seq(Number)) /\ Len(some) = k
  BY <1>2, <1>3, LenProperties
<1>5. last \in Seq(Number)
  BY <1>2, <1>3
<1>6. more = Append(some, last)
  <2>1. /\ Append(some, last) \in Seq(Seq(Number)) /\ Len(Append(some, last)) = k + 1
        /\ Append(some, last)[k + 1] = last /\ \A i \in 1 .. k : Append(some, last)[i] = some[i]
    <3> HIDE DEF some, last
    <3> QED BY <1>4, <1>5, AppendProperties
  <2>2. more \in Seq(Seq(Number)) /\ Len(more) = k + 1
    BY <1>2, <1>3, LenProperties
  <2>3. \A i \in 1 .. k + 1 : more[i] = Append(some, last)[i]
    BY <1>3, <2>1
  <2> HIDE DEF more, some, last
  <2> QED BY <2>1, <2>2, <2>3, SeqEqual
<1> HIDE DEF some, more, last
<1>7. FlattenSeq(some) \in Seq(Number) /\ FlattenSeq(Append(some, last)) = FlattenSeq(some) \o last
  BY <1>4, <1>5, FlattenType, FlattenAppend
<1> QED BY <1>6, <1>7 DEF UpTo, some, more, last

LEMMA UpToType ==
  ASSUME NEW bufs \in Seq(Chunk), NEW k \in 0 .. Len(bufs)
  PROVE  UpTo(bufs, k) \in Seq(Number)
<1>1. Len(bufs) \in Nat /\ \A i \in 1 .. Len(bufs) : bufs[i].data \in Seq(Number)
  <2>1. Len(bufs) \in Nat /\ \A i \in 1 .. Len(bufs) : bufs[i] \in Chunk
    BY LenProperties, ElementOfSeq
  <2> QED BY <2>1 DEF Chunk
<1>2. [i \in 1 .. k |-> bufs[i].data] \in Seq(Seq(Number))
  BY <1>1
<1> QED BY <1>2, FlattenType DEF UpTo

LEMMA UpToZero ==
  ASSUME NEW bufs
  PROVE  UpTo(bufs, 0) = << >>
<1>1. [i \in 1 .. 0 |-> bufs[i].data] = << >>
  OBVIOUS
<1> QED BY <1>1, FlattenEmpty DEF UpTo

\* Empty chunks add nothing.
LEMMA UpToEmpty ==
  ASSUME NEW bufs \in Seq(Chunk), NEW t \in 0 .. Len(bufs), NEW n \in t .. Len(bufs),
         \A i \in t + 1 .. Len(bufs) : bufs[i].data = << >>
  PROVE  UpTo(bufs, n) = UpTo(bufs, t)
<1>1. Len(bufs) \in Nat
  BY LenProperties
<1> DEFINE G == {k \in t .. n : UpTo(bufs, k) = UpTo(bufs, t)}
<1>2. \A k \in t .. n - 1 : k \in G => k + 1 \in G
  <2> SUFFICES ASSUME NEW k \in t .. n - 1, k \in G PROVE k + 1 \in G
    OBVIOUS
  <2>1. k \in 0 .. Len(bufs) - 1 /\ k + 1 \in t + 1 .. Len(bufs) /\ k + 1 \in t .. n
    BY <1>1
  <2>2. /\ UpTo(bufs, k) \in Seq(Number)
        /\ UpTo(bufs, k + 1) = UpTo(bufs, k) \o bufs[k + 1].data
    BY <2>1, UpToNext
  <2>3. UpTo(bufs, k) \o << >> = UpTo(bufs, k)
    BY <2>2, ConcatEmptySeq
  <2> QED BY <2>1, <2>2, <2>3
<1>3. t \in Int /\ n \in Int /\ (t <= n => t \in G) /\ n \in t .. n
  BY <1>1
<1>4. n \in G
  <2> HIDE DEF G
  <2>1. \A k \in t .. n : k \in G
    BY ONLY <1>2, <1>3, InductionUpTo
  <2> QED BY <1>3, <2>1
<1> QED BY <1>4

\* The first chunk, and those behind it.
LEMMA UpToTail ==
  ASSUME NEW bufs \in Seq(Chunk), bufs # << >>, NEW n \in 1 .. Len(bufs)
  PROVE  UpTo(bufs, n) = bufs[1].data \o UpTo(Tail(bufs), n - 1)
<1>1. /\ Tail(bufs) \in Seq(Chunk) /\ Len(Tail(bufs)) = Len(bufs) - 1
      /\ \A i \in 1 .. Len(Tail(bufs)) : Tail(bufs)[i] = bufs[i + 1]
  BY HeadTailProperties
<1>2. Len(bufs) \in Nat /\ 1 \in 1 .. Len(bufs) /\ bufs[1] \in Chunk
  <2>1. Len(bufs) \in Nat
    BY LenProperties
  <2> QED BY <2>1, ElementOfSeq
<1> DEFINE rest == Tail(bufs)
           first == bufs[1].data
           G == {k \in 1 .. n : UpTo(bufs, k) = first \o UpTo(rest, k - 1)}
<1>3. first \in Seq(Number)
  BY <1>2 DEF Chunk
<1> HIDE DEF rest, first
<1>4. 1 \in G
  <2>1. 0 \in 0 .. Len(bufs) - 1 /\ 0 + 1 = 1 /\ 1 - 1 = 0 /\ 1 \in 1 .. n
    BY <1>2
  <2>2. UpTo(bufs, 1) = UpTo(bufs, 0) \o first
    BY <2>1, UpToNext DEF first
  <2>3. << >> \o first = first /\ first \o << >> = first
    BY <1>3, ConcatEmptySeq
  <2> QED BY <2>1, <2>2, <2>3, UpToZero
<1>5. \A k \in 1 .. n - 1 : k \in G => k + 1 \in G
  <2> SUFFICES ASSUME NEW k \in 1 .. n - 1, k \in G PROVE k + 1 \in G
    OBVIOUS
  <2>1. /\ k \in 0 .. Len(bufs) - 1 /\ k - 1 \in 0 .. Len(rest) - 1 /\ (k - 1) + 1 = k
        /\ k \in 1 .. Len(rest) /\ k + 1 \in 1 .. n /\ (k + 1) - 1 = k /\ k + 1 \in 1 .. Len(bufs)
    BY <1>1, <1>2 DEF rest
  <2>2. UpTo(bufs, k + 1) = UpTo(bufs, k) \o bufs[k + 1].data
    BY <2>1, UpToNext
  <2>3. /\ UpTo(rest, k - 1) \in Seq(Number)
        /\ UpTo(rest, k) = UpTo(rest, k - 1) \o rest[k].data
    BY <1>1, <2>1, UpToNext DEF rest
  <2>4. rest[k] = bufs[k + 1] /\ bufs[k + 1] \in Chunk
    BY <1>1, <2>1, ElementOfSeq DEF rest
  <2> DEFINE here == UpTo(rest, k - 1)
             next == bufs[k + 1].data
  <2>5. next \in Seq(Number)
    BY <2>4 DEF Chunk
  <2>6. UpTo(bufs, k) = first \o here
    OBVIOUS
  <2> HIDE DEF here, next
  <2>7. (first \o here) \o next = first \o (here \o next)
    BY <1>3, <2>3, <2>5, ConcatAssociative, SMTT(30) DEF here
  <2> QED BY <2>1, <2>2, <2>3, <2>4, <2>6, <2>7 DEF here, next
<1>6. n \in G
  <2> HIDE DEF G
  <2>1. 1 \in Int /\ n \in Int /\ (1 <= n => 1 \in G) /\ n \in 1 .. n
    BY <1>2, <1>4
  <2>2. \A k \in 1 .. n : k \in G
    BY ONLY <1>5, <2>1, InductionUpTo
  <2> QED BY <2>1, <2>2
<1> QED BY <1>6 DEF rest, first

\* Chunks of at most len bytes.
LEMMA UpToLength ==
  ASSUME NEW bufs \in Seq(Chunk), NEW n \in 0 .. Len(bufs), NEW len \in Nat,
         \A i \in 1 .. Len(bufs) : Len(bufs[i].data) <= len
  PROVE  Len(UpTo(bufs, n)) <= n * len
<1>1. Len(bufs) \in Nat
  BY LenProperties
<1> DEFINE G == {k \in 0 .. n : Len(UpTo(bufs, k)) <= k * len}
<1>2. 0 \in G
  BY UpToZero
<1>3. \A k \in 0 .. n - 1 : k \in G => k + 1 \in G
  <2> SUFFICES ASSUME NEW k \in 0 .. n - 1, k \in G PROVE k + 1 \in G
    OBVIOUS
  <2>1. k \in 0 .. Len(bufs) - 1 /\ k + 1 \in 1 .. Len(bufs) /\ k + 1 \in 0 .. n
    BY <1>1
  <2>2. /\ UpTo(bufs, k) \in Seq(Number)
        /\ UpTo(bufs, k + 1) = UpTo(bufs, k) \o bufs[k + 1].data
    BY <2>1, UpToNext
  <2>3. bufs[k + 1].data \in Seq(Number)
    <3>1. bufs[k + 1] \in Chunk
      BY <2>1, ElementOfSeq
    <3> QED BY <3>1 DEF Chunk
  <2>4. Len(UpTo(bufs, k + 1)) = Len(UpTo(bufs, k)) + Len(bufs[k + 1].data)
    BY <2>2, <2>3, ConcatProperties
  <2>5. Len(UpTo(bufs, k)) \in Nat /\ Len(bufs[k + 1].data) \in Nat
    BY <2>2, <2>3, LenProperties
  <2>6. Len(bufs[k + 1].data) <= len /\ Len(UpTo(bufs, k)) <= k * len
    BY <2>1
  <2>7. k \in Nat /\ (k + 1) * len = k * len + len
    OBVIOUS
  <2> QED BY <2>1, <2>4, <2>5, <2>6, <2>7
<1>4. n \in G
  <2> HIDE DEF G
  <2>1. 0 \in Int /\ n \in Int /\ (0 <= n => 0 \in G) /\ n \in 0 .. n
    BY <1>1, <1>2
  <2>2. \A k \in 0 .. n : k \in G
    BY ONLY <1>3, <2>1, InductionUpTo
  <2> QED BY <2>1, <2>2
<1> QED BY <1>4

\* The same bytes give the same sequence.
LEMMA UpToSame ==
  ASSUME NEW a, NEW b, NEW k \in Nat, \A i \in 1 .. k : a[i].data = b[i].data
  PROVE  UpTo(a, k) = UpTo(b, k)
<1>1. [i \in 1 .. k |-> a[i].data] = [i \in 1 .. k |-> b[i].data]
  OBVIOUS
<1> QED BY <1>1 DEF UpTo

\* What the shape of a list says of its chunks.
LEMMA ShapeChunks ==
  ASSUME NEW g \in Geometry, NEW l, Shape(g, l)
  PROVE  /\ l.bufs \in Seq(Chunk) /\ Len(l.bufs) \in Nat /\ DOMAIN l.bufs = 1 .. Len(l.bufs)
         /\ \A i \in 1 .. Len(l.bufs) :
              /\ l.bufs[i] \in Chunk /\ l.bufs[i].off \in Nat
              /\ l.bufs[i].data \in Seq(Number) /\ Len(l.bufs[i].data) \in Nat
              /\ Room(g, l.bufs[i]) \in Nat /\ Len(l.bufs[i].data) <= g.len
              /\ l.bufs[i].off + Len(l.bufs[i].data) <= g.len
         /\ l.bufs = << >> <=> Len(l.bufs) = 0
<1>1. l.bufs \in Seq(Chunk)
  BY DEF Shape, List
<1>2. Len(l.bufs) \in Nat /\ DOMAIN l.bufs = 1 .. Len(l.bufs)
  BY <1>1, LenProperties
<1>3. ASSUME NEW i \in 1 .. Len(l.bufs)
      PROVE  /\ l.bufs[i] \in Chunk /\ l.bufs[i].off \in Nat
             /\ l.bufs[i].data \in Seq(Number) /\ Len(l.bufs[i].data) \in Nat
             /\ Room(g, l.bufs[i]) \in Nat /\ Len(l.bufs[i].data) <= g.len
             /\ l.bufs[i].off + Len(l.bufs[i].data) <= g.len
  <2>1. l.bufs[i] \in Chunk
    BY <1>1, ElementOfSeq
  <2>2. l.bufs[i].off \in Nat /\ l.bufs[i].data \in Seq(Number)
    BY <2>1 DEF Chunk
  <2>3. Len(l.bufs[i].data) \in Nat
    BY <2>2, LenProperties
  <2>4. l.bufs[i].off + Len(l.bufs[i].data) <= g.len /\ g.len \in Nat
    BY DEF Shape, Geometry
  <2> QED BY <2>1, <2>2, <2>3, <2>4 DEF Room
<1>4. l.bufs = << >> <=> Len(l.bufs) = 0
  BY <1>1, EmptySeq
<1> QED BY <1>1, <1>2, <1>3, <1>4

\* The bytes of a list are those of all its chunks, or of those up to data_tail.
LEMMA ContentsAre ==
  ASSUME NEW g \in Geometry, NEW l, Shape(g, l)
  PROVE  /\ Contents(l) \in Seq(Number) /\ Len(Contents(l)) \in Nat
         /\ Contents(l) = UpTo(l.bufs, Len(l.bufs))
         /\ Contents(l) = UpTo(l.bufs, l.tail)
<1>1. /\ l.bufs \in Seq(Chunk) /\ Len(l.bufs) \in Nat /\ DOMAIN l.bufs = 1 .. Len(l.bufs)
      /\ Len(l.bufs) \in l.tail .. Len(l.bufs) /\ l.tail \in 0 .. Len(l.bufs)
  BY ShapeChunks DEF Shape
<1>2. Contents(l) = UpTo(l.bufs, Len(l.bufs))
  BY <1>1 DEF Contents, UpTo
<1>3. \A i \in l.tail + 1 .. Len(l.bufs) : l.bufs[i].data = << >>
  BY DEF Shape, FreshBuf
<1>4. UpTo(l.bufs, Len(l.bufs)) = UpTo(l.bufs, l.tail)
  BY ONLY <1>1, <1>3, UpToEmpty
<1>5. Contents(l) \in Seq(Number) /\ Len(Contents(l)) \in Nat
  <2>1. Len(l.bufs) \in 0 .. Len(l.bufs)
    BY <1>1
  <2>2. UpTo(l.bufs, Len(l.bufs)) \in Seq(Number)
    BY <1>1, <2>1, UpToType
  <2> QED BY <1>2, <2>2, LenProperties
<1> QED BY <1>2, <1>4, <1>5

\* No empty chunk hides bytes behind it.
LEMMA SolidLeads ==
  ASSUME NEW g \in Geometry, NEW l, Shape(g, l)
  PROVE  DataAtHead(l)
<1> DEFINE n == Len(l.bufs)
           solid == {k \in DOMAIN l.bufs : \A i \in 1 .. k : l.bufs[i].data # << >>}
           t == l.tail
<1>1. /\ n \in Nat /\ DOMAIN l.bufs = 1 .. n /\ t \in 0 .. n /\ l.bufs \in Seq(Chunk)
      /\ \A i \in 1 .. n : l.bufs[i].data \in Seq(Number)
      /\ \A i \in 1 .. n : Len(l.bufs[i].data) \in Nat
  BY ShapeChunks DEF Shape
<1>2. \A i \in t + 1 .. n : l.bufs[i] = FreshBuf /\ l.bufs[i].data = << >>
  BY DEF Shape, FreshBuf
<1>3. \A i \in 1 .. t - 1 : i \in 1 .. n /\ l.bufs[i].data # << >>
  <2> SUFFICES ASSUME NEW i \in 1 .. t - 1 PROVE i \in 1 .. n /\ l.bufs[i].data # << >>
    OBVIOUS
  <2>1. Len(l.bufs[i].data) > 0 /\ i \in 1 .. n
    BY <1>1 DEF Shape
  <2> QED BY <1>1, <2>1, EmptySeq
<1>4. Contents(l) = UpTo(l.bufs, t)
  BY ContentsAre
<1>5. Leading(l) = FlattenSeq([i \in solid |-> l.bufs[i].data])
  BY DEF Leading
<1>6. CASE t > 0 /\ l.bufs[t].data = << >>
  <2>1. t - 1 \in 0 .. n /\ t \in t - 1 .. n /\ t - 1 \in 0 .. t /\ t \in 1 .. n
    BY <1>1, <1>6
  <2>2. \A i \in (t - 1) + 1 .. n : l.bufs[i].data = << >>
    BY <1>1, <1>2, <1>6
  <2>3. UpTo(l.bufs, t) = UpTo(l.bufs, t - 1)
    <3> HIDE DEF n, t
    <3> QED BY <1>1, <2>1, <2>2, UpToEmpty DEF n
  <2>4. solid = 1 .. t - 1
    BY <1>1, <1>3, <1>6
  <2>5. [i \in solid |-> l.bufs[i].data] = [i \in 1 .. t - 1 |-> l.bufs[i].data]
    BY <2>4
  <2>6. Leading(l) = UpTo(l.bufs, t - 1)
    BY <1>5, <2>5 DEF UpTo
  <2> QED BY <1>2, <1>1, <1>4, <2>3, <2>6 DEF DataAtHead
<1>7. CASE ~(t > 0 /\ l.bufs[t].data = << >>)
  <2>1. \A i \in 1 .. t : i \in 1 .. n /\ l.bufs[i].data # << >>
    BY <1>1, <1>3, <1>7
  <2>2. solid = 1 .. t
    <3>1. ASSUME NEW k \in solid PROVE k \in 1 .. t
      <4>1. k \in 1 .. n /\ \A i \in 1 .. k : l.bufs[i].data # << >>
        BY <1>1
      <4>2. k \notin t + 1 .. n
        BY <1>1, <1>2, <4>1
      <4> QED BY <1>1, <4>1, <4>2
    <3>2. \A k \in 1 .. t : k \in solid
      BY <1>1, <2>1
    <3> QED BY <3>1, <3>2
  <2>3. [i \in solid |-> l.bufs[i].data] = [i \in 1 .. t |-> l.bufs[i].data]
    BY <2>2
  <2>4. Leading(l) = UpTo(l.bufs, t)
    BY <1>5, <2>3 DEF UpTo
  <2> QED BY <1>1, <1>2, <1>4, <2>4 DEF DataAtHead
<1> QED BY <1>6, <1>7

-----------------------------------------------------------------------------
(* Room for more bytes                                                     *)

\* The counter of chunks is true.
Sized(l) == l.buffers = Len(l.bufs)

\* A list with as many chunks, the same tail and the same data holds the same.
LEMMA SameData ==
  ASSUME NEW g \in Geometry, NEW l, Shape(g, l), NEW q, Shape(g, q),
         Len(q.bufs) = Len(l.bufs), \A i \in 1 .. Len(l.bufs) : q.bufs[i].data = l.bufs[i].data
  PROVE  Contents(q) = Contents(l)
<1>1. Contents(l) = UpTo(l.bufs, Len(l.bufs)) /\ Contents(q) = UpTo(q.bufs, Len(l.bufs))
  BY ContentsAre
<1>2. Len(l.bufs) \in Nat
  BY ShapeChunks
<1>3. UpTo(q.bufs, Len(l.bufs)) = UpTo(l.bufs, Len(l.bufs))
  BY <1>2, UpToSame
<1> QED BY <1>1, <1>3

\* The move to the front of a chunk loses nothing, and leaves no chunk that is
\* empty and yet without room.
LEMMA SqueezeKeeps ==
  ASSUME NEW g \in Geometry, NEW l, Shape(g, l), Sized(l), NEW len \in Nat,
         NEW q, q = Squeeze(g, l, len)
  PROVE  /\ Shape(g, q) /\ Sized(q) /\ Contents(q) = Contents(l)
         /\ q.bytes = l.bytes /\ q.tail = l.tail /\ Len(q.bufs) = Len(l.bufs)
         /\ q.tail # 0 /\ Room(g, q.bufs[q.tail]) <= 0 => Len(q.bufs[q.tail].data) > 0
<1> DEFINE n == Len(l.bufs)
           t == l.tail
           b == l.bufs[t]
           moved == [b EXCEPT !.off = 0]
<1>1. /\ n \in Nat /\ l.bufs \in Seq(Chunk) /\ t \in 0 .. n /\ DOMAIN l.bufs = 1 .. n
      /\ t = 0 <=> n = 0
      /\ g.len \in Nat \ {0} /\ l \in List
  BY ShapeChunks DEF Shape, Geometry
<1>2. CASE l.tail # 0 /\ ShouldMove(g, l, len)
  <2>1. /\ t \in 1 .. n /\ b \in Chunk /\ b.off \in Nat /\ b.data \in Seq(Number)
        /\ Len(b.data) \in Nat /\ b.off + Len(b.data) <= g.len
    BY <1>1, <1>2, ShapeChunks
  <2>2. moved \in Chunk /\ moved.off = 0 /\ moved.data = b.data
    BY <2>1 DEF Chunk
  <2>3. q = [l EXCEPT !.bufs[l.tail].off = 0]
    BY <1>2 DEF Squeeze
  <2> HIDE DEF b, moved
  <2>4. q = [l EXCEPT !.bufs = [l.bufs EXCEPT ![t] = moved]]
    BY <1>1, <2>3 DEF b, moved, List
  <2>5. /\ q.bufs = [l.bufs EXCEPT ![t] = moved] /\ q.tail = t
        /\ q.bytes = l.bytes /\ q.buffers = l.buffers
    BY <1>1, <2>4 DEF List
  <2>6. /\ q.bufs \in Seq(Chunk) /\ Len(q.bufs) = n /\ q.bufs[t] = moved
        /\ \A i \in 1 .. n : i # t => q.bufs[i] = l.bufs[i]
    <3> HIDE DEF n, t
    <3> QED BY <1>1, <2>1, <2>2, <2>5, ExceptSeq DEF n
  <2>7. q \in List
    BY <1>1, <2>4, <2>5, <2>6 DEF List
  <2>8. \A i \in 1 .. n : q.bufs[i].data = l.bufs[i].data
    BY <2>2, <2>6 DEF b
  <2>9. \A i \in 1 .. n : q.bufs[i].off + Len(q.bufs[i].data) <= g.len
    <3>1. \A i \in 1 .. n : l.bufs[i].off + Len(l.bufs[i].data) <= g.len
      BY ShapeChunks
    <3>2. q.bufs[t].off + Len(q.bufs[t].data) <= g.len
      BY <1>1, <2>1, <2>2, <2>6
    <3> QED BY <2>6, <3>1, <3>2
  <2>10. Shape(g, q)
    <3>1. \A i \in 1 .. t - 1 : i \in 1 .. n /\ Len(q.bufs[i].data) > 0
      BY <1>1, <2>8 DEF Shape
    <3>2. \A i \in t + 1 .. n : q.bufs[i] = FreshBuf
      BY <1>1, <2>6, SMTT(30) DEF Shape
    <3> QED BY <1>1, <2>5, <2>6, <2>7, <2>9, <3>1, <3>2 DEF Shape
  <2>11. Contents(q) = Contents(l)
    BY <2>6, <2>8, <2>10, SameData
  <2>12. Room(g, q.bufs[q.tail]) <= 0 => Len(q.bufs[q.tail].data) > 0
    BY <1>1, <2>1, <2>2, <2>5, <2>6 DEF Room
  <2> QED BY <2>5, <2>6, <2>10, <2>11, <2>12 DEF Sized
<1>3. CASE ~(l.tail # 0 /\ ShouldMove(g, l, len))
  <2>1. q = l
    BY <1>3 DEF Squeeze
  <2>2. ASSUME t # 0, Room(g, b) <= 0 PROVE Len(b.data) > 0
    <3>1. /\ t \in 1 .. n /\ b.off \in Nat /\ b.data \in Seq(Number)
          /\ Len(b.data) \in Nat /\ b.off + Len(b.data) <= g.len
      BY <1>1, <2>2, ShapeChunks, SMTT(30)
    <3>2. g.len - b.off - Len(b.data) <= 0
      BY <2>2 DEF Room
    <3>3. Len(b.data) = 0 => b.off = g.len /\ b.off > g.len \div 2
      <4>1. \A x \in Nat \ {0} : x > 0 /\ x > x \div 2
        OBVIOUS
      <4>2. Len(b.data) = 0 => b.off = g.len
        BY <1>1, <3>1, <3>2
      <4> QED BY <1>1, <4>1, <4>2
    <3>4. ~(b.off > 0 /\ b.off > g.len \div 2)
      BY <1>3, <2>2 DEF ShouldMove
    <3> QED BY <1>1, <3>1, <3>3, <3>4
  <2> QED BY <2>1, <2>2
<1> QED BY <1>2, <1>3

\* A fresh chunk at the end.
LEMMA AddBufKeeps ==
  ASSUME NEW g \in Geometry, NEW l, Shape(g, l), Sized(l), g.max > 0 => Len(l.bufs) < g.max,
         NEW q, q = AddBuf(l)
  PROVE  /\ Shape(g, q) /\ Sized(q) /\ Contents(q) = Contents(l) /\ q.bytes = l.bytes
         /\ Len(q.bufs) = Len(l.bufs) + 1 /\ q.bufs[Len(l.bufs) + 1] = FreshBuf
         /\ q.tail = IF l.tail = 0 THEN 1 ELSE l.tail
         /\ \A i \in 1 .. Len(l.bufs) : q.bufs[i] = l.bufs[i]
<1> DEFINE n == Len(l.bufs)
<1>1. /\ n \in Nat /\ l.bufs \in Seq(Chunk) /\ l.tail \in 0 .. n /\ g.len \in Nat \ {0}
      /\ g.max \in Int /\ l \in List /\ (l.tail = 0 <=> n = 0)
  BY ShapeChunks DEF Shape, Geometry
<1>2. FreshBuf \in Chunk /\ FreshBuf.off = 0 /\ FreshBuf.data = << >> /\ Len(FreshBuf.data) = 0
  BY EmptySeq DEF FreshBuf, Chunk
<1>3. /\ q.bufs = Append(l.bufs, FreshBuf) /\ q.buffers = l.buffers + 1 /\ q.bytes = l.bytes
      /\ q.tail = IF l.tail = 0 THEN 1 ELSE l.tail
      /\ q = [bufs |-> q.bufs, tail |-> q.tail, bytes |-> q.bytes, buffers |-> q.buffers]
  BY <1>1 DEF AddBuf, List
<1>4. /\ q.bufs \in Seq(Chunk) /\ Len(q.bufs) = n + 1 /\ q.bufs[n + 1] = FreshBuf
      /\ \A i \in 1 .. n : q.bufs[i] = l.bufs[i]
  <2> HIDE DEF FreshBuf
  <2> QED BY <1>1, <1>2, <1>3, AppendProperties
<1>5. q \in List
  BY <1>1, <1>3, <1>4 DEF List, Sized
<1>6. Sized(q)
  BY <1>1, <1>3, <1>4 DEF Sized
<1>7. Shape(g, q)
  <2>1. \A i \in 1 .. n + 1 : q.bufs[i].off + Len(q.bufs[i].data) <= g.len
    <3>1. \A i \in 1 .. n : l.bufs[i].off + Len(l.bufs[i].data) <= g.len
      BY ShapeChunks
    <3>2. ASSUME NEW i \in 1 .. n + 1 PROVE q.bufs[i].off + Len(q.bufs[i].data) <= g.len
      <4>1. CASE i \in 1 .. n
        <5>1. q.bufs[i] = l.bufs[i]
          BY <1>4, <4>1
        <5> QED BY <3>1, <4>1, <5>1
      <4>2. CASE i = n + 1
        <5>1. q.bufs[i] = FreshBuf
          BY <1>4, <4>2
        <5> QED BY <1>1, <1>2, <5>1
      <4> QED BY <1>1, <4>1, <4>2
    <3> QED BY <3>2
  <2>2. g.max > 0 => n + 1 <= g.max
    BY <1>1
  <2>3. \A i \in 1 .. q.tail - 1 : Len(q.bufs[i].data) > 0
    BY <1>1, <1>3, <1>4 DEF Shape
  <2>4. \A i \in q.tail + 1 .. n + 1 : q.bufs[i] = FreshBuf
    BY <1>1, <1>3, <1>4 DEF Shape
  <2>5. q.tail \in 0 .. n + 1 /\ (q.tail = 0 <=> n + 1 = 0)
    BY <1>1, <1>3
  <2> QED BY <1>4, <1>5, <2>1, <2>2, <2>3, <2>4, <2>5 DEF Shape
<1>8. Contents(q) = Contents(l)
  <2>1. Contents(l) = UpTo(l.bufs, n) /\ Contents(q) = UpTo(q.bufs, n + 1)
    BY <1>4, <1>7, ContentsAre
  <2>2. UpTo(q.bufs, n) = UpTo(l.bufs, n)
    BY <1>1, <1>4, UpToSame
  <2>3. UpTo(q.bufs, n + 1) = UpTo(q.bufs, n)
    <3>1. n \in 0 .. Len(q.bufs) /\ n + 1 \in n .. Len(q.bufs)
      BY <1>1, <1>4
    <3>2. \A i \in n + 1 .. Len(q.bufs) : q.bufs[i].data = << >>
      BY <1>1, <1>2, <1>4
    <3> HIDE DEF n
    <3> QED BY <1>4, <3>1, <3>2, UpToEmpty
  <2> QED BY <2>1, <2>2, <2>3
<1> QED BY <1>3, <1>4, <1>6, <1>7, <1>8

\* A chunk to put bytes into has room; that there is none means a list with no
\* chunk left to allocate, all of them used and the last one full.
LEMMA PrepareKeeps ==
  ASSUME NEW g \in Geometry, NEW l, Shape(g, l), Sized(l), NEW len \in Nat,
         NEW p, p = Prepare(g, l, len)
  PROVE  /\ Shape(g, p.list) /\ Sized(p.list)
         /\ Contents(p.list) = Contents(l) /\ p.list.bytes = l.bytes
         /\ p.list.tail \in 1 .. Len(p.list.bufs)
         /\ p.ok \in BOOLEAN
         /\ p.ok => Room(g, p.list.bufs[p.list.tail]) > 0
         /\ ~p.ok => /\ p.list.tail = Len(p.list.bufs) /\ ~CanAlloc(g, p.list)
                     /\ Room(g, p.list.bufs[p.list.tail]) = 0
                     /\ Len(p.list.bufs[p.list.tail].data) > 0
<1> DEFINE q == Squeeze(g, l, len)
           n == Len(q.bufs)
           full == q.tail # 0 => Room(g, q.bufs[q.tail]) <= 0
<1>1. /\ Shape(g, q) /\ Sized(q) /\ Contents(q) = Contents(l)
      /\ q.bytes = l.bytes /\ q.tail = l.tail /\ Len(q.bufs) = Len(l.bufs)
      /\ q.tail # 0 /\ Room(g, q.bufs[q.tail]) <= 0 => Len(q.bufs[q.tail].data) > 0
  BY SqueezeKeeps
<1>2. p = IF q.tail # 0 /\ Room(g, q.bufs[q.tail]) > 0 THEN Prepared(TRUE, q)
          ELSE IF q.tail # 0 /\ q.tail < Len(q.bufs) THEN Prepared(TRUE, [q EXCEPT !.tail = @ + 1])
          ELSE IF CanAlloc(g, q) THEN Prepared(TRUE, [AddBuf(q) EXCEPT !.tail = Len(q.bufs) + 1])
          ELSE Prepared(FALSE, q)
  BY DEF Prepare
<1> HIDE DEF q
<1>3. /\ n \in Nat /\ q.bufs \in Seq(Chunk) /\ q.tail \in 0 .. n /\ (q.tail = 0 <=> n = 0)
      /\ g.len \in Nat \ {0} /\ g.max \in Int /\ q \in List
      /\ \A i \in 1 .. n : Room(g, q.bufs[i]) \in Nat
  BY <1>1, ShapeChunks DEF Shape, Geometry
<1>4. \A ok, x : Prepared(ok, x).ok = ok /\ Prepared(ok, x).list = x
  BY DEF Prepared
<1>5. CASE q.tail # 0 /\ Room(g, q.bufs[q.tail]) > 0
  <2>1. p = Prepared(TRUE, q)
    BY <1>2, <1>5
  <2>2. p.ok = TRUE /\ p.list = q
    BY <1>4, <2>1
  <2>3. q.tail \in 1 .. Len(q.bufs)
    BY <1>3, <1>5
  <2> QED BY <1>1, <1>5, <2>2, <2>3
<1>6. CASE full /\ q.tail # 0 /\ q.tail < n
  <2> DEFINE x == [q EXCEPT !.tail = @ + 1]
  <2>0. ~(q.tail # 0 /\ Room(g, q.bufs[q.tail]) > 0)
    BY <1>3, <1>6
  <2>1. p.ok = TRUE /\ p.list = x
    <3>1. p = Prepared(TRUE, x)
      BY <1>2, <1>6, <2>0
    <3> HIDE DEF x
    <3> QED BY <1>4, <3>1
  <2>2. /\ x.bufs = q.bufs /\ x.tail = q.tail + 1 /\ x.bytes = q.bytes /\ x.buffers = q.buffers
        /\ x \in List
    BY <1>3 DEF List
  <2> HIDE DEF x
  <2>3. Len(q.bufs[q.tail].data) > 0
    BY <1>1, <1>6
  <2>4. Shape(g, x)
    <3>1. \A i \in 1 .. x.tail - 1 : i \in 1 .. q.tail - 1 \/ i = q.tail
      BY <1>3, <2>2
    <3>2. \A i \in 1 .. x.tail - 1 : Len(x.bufs[i].data) > 0
      BY <1>1, <2>2, <2>3, <3>1 DEF Shape
    <3>3. \A i \in x.tail + 1 .. n : x.bufs[i] = FreshBuf
      BY <1>1, <1>3, <2>2 DEF Shape
    <3>4. x.tail \in 0 .. n /\ x.tail # 0 /\ n # 0
      BY <1>3, <1>6, <2>2
    <3> QED BY <1>1, <2>2, <3>2, <3>3, <3>4 DEF Shape
  <2>5. Contents(x) = Contents(q) /\ Sized(x)
    BY <1>1, <2>2 DEF Contents, Sized
  <2>6. x.tail \in 1 .. n /\ x.bufs[x.tail] = FreshBuf
    BY <1>1, <1>3, <1>6, <2>2 DEF Shape
  <2>7. Room(g, x.bufs[x.tail]) > 0
    BY <1>3, <2>6 DEF Room, FreshBuf
  <2> QED BY <1>1, <2>1, <2>2, <2>4, <2>5, <2>6, <2>7
<1>7. CASE full /\ ~(q.tail # 0 /\ q.tail < n) /\ CanAlloc(g, q)
  <2> DEFINE y == AddBuf(q)
             x == [y EXCEPT !.tail = n + 1]
  <2>0. ~(q.tail # 0 /\ Room(g, q.bufs[q.tail]) > 0)
    BY <1>3, <1>7
  <2>1. p.ok = TRUE /\ p.list = x
    <3>1. p = Prepared(TRUE, x)
      BY <1>2, <1>7, <2>0
    <3> HIDE DEF x
    <3> QED BY <1>4, <3>1
  <2>2. g.max > 0 => n < g.max
    BY <1>1, <1>3, <1>7 DEF CanAlloc, Sized
  <2>3. /\ Shape(g, y) /\ Sized(y) /\ Contents(y) = Contents(q) /\ y.bytes = q.bytes
        /\ Len(y.bufs) = n + 1 /\ y.bufs[n + 1] = FreshBuf
        /\ \A i \in 1 .. n : y.bufs[i] = q.bufs[i]
    <3> HIDE DEF n
    <3> QED BY <1>1, <2>2, AddBufKeeps DEF n
  <2> HIDE DEF y
  <2>4. y \in List
    BY <2>3 DEF Shape
  <2>5. /\ x.bufs = y.bufs /\ x.tail = n + 1 /\ x.bytes = y.bytes /\ x.buffers = y.buffers
        /\ x \in List
    <3>1. n + 1 \in Nat
      BY <1>3
    <3> HIDE DEF n
    <3> QED BY <2>4, <3>1 DEF List
  <2> HIDE DEF x
  <2>6. Shape(g, x)
    <3>1. \A i \in 1 .. n : Len(x.bufs[i].data) > 0
      <4>1. \A i \in 1 .. n : i \in 1 .. q.tail - 1 \/ i = q.tail
        BY <1>3, <1>7
      <4>2. n # 0 => Len(q.bufs[q.tail].data) > 0
        BY <1>1, <1>3, <1>7
      <4>3. \A i \in 1 .. q.tail - 1 : Len(q.bufs[i].data) > 0
        BY <1>1 DEF Shape
      <4>4. \A i \in 1 .. n : Len(q.bufs[i].data) > 0
        <5> SUFFICES ASSUME NEW i \in 1 .. n PROVE Len(q.bufs[i].data) > 0
          OBVIOUS
        <5>1. n # 0
          BY <1>3
        <5> QED BY <4>1, <4>2, <4>3, <5>1
      <4> HIDE DEF n
      <4> QED BY <2>3, <2>5, <4>4
    <3>2. \A i \in 1 .. x.tail - 1 : Len(x.bufs[i].data) > 0
      BY <1>3, <2>5, <3>1
    <3>3. \A i \in x.tail + 1 .. n + 1 : FALSE
      BY <1>3, <2>5
    <3>4. x.tail \in 0 .. n + 1 /\ x.tail # 0 /\ n + 1 # 0
      BY <1>3, <2>5
    <3> HIDE DEF n
    <3> QED BY <2>3, <2>5, <3>2, <3>3, <3>4 DEF Shape
  <2>7. Contents(x) = Contents(y) /\ Sized(x)
    BY <2>3, <2>5 DEF Contents, Sized
  <2>8. x.tail \in 1 .. Len(x.bufs) /\ x.bufs[x.tail] = FreshBuf
    BY <1>3, <2>3, <2>5
  <2>9. Room(g, x.bufs[x.tail]) > 0
    BY <1>3, <2>8 DEF Room, FreshBuf
  <2> QED BY <1>1, <2>1, <2>3, <2>5, <2>6, <2>7, <2>8, <2>9
<1>8. CASE full /\ ~(q.tail # 0 /\ q.tail < n) /\ ~CanAlloc(g, q)
  <2>0. ~(q.tail # 0 /\ Room(g, q.bufs[q.tail]) > 0)
    BY <1>3, <1>8
  <2>1. p.ok = FALSE /\ p.list = q
    BY <1>2, <1>4, <1>8, <2>0
  <2>2. n # 0
    BY <1>1, <1>3, <1>8 DEF CanAlloc, Sized
  <2>3. q.tail = n /\ q.tail \in 1 .. n
    BY <1>3, <1>8, <2>2
  <2>4. Room(g, q.bufs[q.tail]) = 0
    BY <1>3, <1>8, <2>3
  <2>5. Len(q.bufs[q.tail].data) > 0
    BY <1>1, <2>2, <2>3, <2>4
  <2> QED BY <1>1, <1>8, <2>1, <2>3, <2>4, <2>5
<1>9. full \/ (q.tail # 0 /\ Room(g, q.bufs[q.tail]) > 0)
  BY <1>3
<1> QED BY <1>5, <1>6, <1>7, <1>8, <1>9

-----------------------------------------------------------------------------
(* Bytes put in                                                            *)

LEMMA FillKeeps ==
  ASSUME NEW g \in Geometry, NEW l, Shape(g, l), Sized(l), l.tail # 0,
         NEW data \in Seq(Number), Len(data) <= Room(g, l.bufs[l.tail]),
         NEW q, q = Fill(l, data)
  PROVE  /\ Shape(g, q) /\ Sized(q) /\ q.bytes = l.bytes + Len(data)
         /\ Contents(q) = Contents(l) \o data
         /\ q.tail = l.tail
<1> DEFINE n == Len(l.bufs)
           t == l.tail
           old == l.bufs[t].data
           new == old \o data
           b == [l.bufs[t] EXCEPT !.data = new]
<1>1. /\ n \in Nat /\ l.bufs \in Seq(Chunk) /\ t \in 1 .. n /\ t \in Nat /\ DOMAIN l.bufs = 1 .. n
      /\ l \in List /\ Len(data) \in Nat /\ g.len \in Nat
      /\ \A i \in 1 .. n : l.bufs[i].off + Len(l.bufs[i].data) <= g.len
  <2>1. /\ n \in Nat /\ l.bufs \in Seq(Chunk) /\ DOMAIN l.bufs = 1 .. n
        /\ \A i \in 1 .. n : l.bufs[i].off + Len(l.bufs[i].data) <= g.len
    BY ShapeChunks
  <2>2. t \in 0 .. n /\ l \in List
    BY DEF Shape
  <2>3. Len(data) \in Nat /\ g.len \in Nat
    BY LenProperties DEF Geometry
  <2> QED BY <2>1, <2>2, <2>3
<1>2. l.bufs[t] \in Chunk /\ l.bufs[t].off \in Nat /\ old \in Seq(Number) /\ Len(old) \in Nat
  BY <1>1, ShapeChunks
<1>3. new \in Seq(Number) /\ Len(new) = Len(old) + Len(data)
  <2> HIDE DEF old
  <2> QED BY <1>2, ConcatProperties
<1> HIDE DEF new
<1>4. b \in Chunk /\ b.off = l.bufs[t].off /\ b.data = new
  BY <1>2, <1>3 DEF Chunk
<1>5. b.off + Len(b.data) <= g.len
  <2>1. Len(data) <= g.len - l.bufs[t].off - Len(old)
    BY DEF Room
  <2>2. /\ l.bufs[t].off \in Nat /\ Len(old) \in Nat /\ Len(data) \in Nat /\ g.len \in Nat
    BY <1>1, <1>2
  <2> DEFINE x == l.bufs[t].off
             y == Len(old)
             c == g.len
  <2>3. x + (y + Len(data)) <= c
    <3>1. Len(data) <= c - x - y /\ x \in Nat /\ y \in Nat /\ Len(data) \in Nat /\ c \in Nat
      BY <2>1, <2>2
    <3> HIDE DEF x, y, c
    <3> QED BY ONLY <3>1
  <2> QED BY <1>3, <1>4, <2>3
<1>6. q = [l EXCEPT !.bufs[l.tail].data = old \o data, !.bytes = l.bytes + Len(data)]
  BY <1>1 DEF Fill, List
<1>7. q = [l EXCEPT !.bufs = [l.bufs EXCEPT ![t] = b], !.bytes = l.bytes + Len(data)]
  BY <1>1, <1>6 DEF List, new
<1> HIDE DEF b, t
<1>8. /\ q.bufs = [l.bufs EXCEPT ![t] = b] /\ q.tail = t
      /\ q.bytes = l.bytes + Len(data) /\ q.buffers = l.buffers
  BY <1>1, <1>7 DEF List, t
<1>9. /\ q.bufs \in Seq(Chunk) /\ Len(q.bufs) = n /\ q.bufs[t] = b
      /\ \A i \in 1 .. n : i # t => q.bufs[i] = l.bufs[i]
  <2> HIDE DEF n
  <2> QED BY <1>1, <1>4, <1>8, ExceptSeq DEF n
<1>10. q \in List
  <2>1. l.bytes \in Int /\ l.bytes + Len(data) \in Int /\ l.buffers \in Int /\ t \in Nat
    <3>1. l \in List /\ Len(data) \in Nat /\ t \in Nat
      BY <1>1
    <3>2. l.bytes \in Int /\ l.buffers \in Int
      BY <3>1, ListFields
    <3> QED BY <3>1, <3>2
  <2>2. q = [bufs |-> q.bufs, tail |-> q.tail, bytes |-> q.bytes, buffers |-> q.buffers]
    BY <1>1, <1>7 DEF List
  <2> QED BY <1>1, <1>8, <1>9, <2>1, <2>2 DEF List
<1>11. Shape(g, q)
  <2>1. \A i \in 1 .. n : q.bufs[i].off + Len(q.bufs[i].data) <= g.len
    BY <1>1, <1>5, <1>9
  <2>2. \A i \in 1 .. t - 1 : Len(q.bufs[i].data) > 0
    <3>1. \A i \in 1 .. t - 1 : i \in 1 .. n /\ i # t
      BY <1>1
    <3>2. \A i \in 1 .. t - 1 : Len(l.bufs[i].data) > 0
      BY DEF Shape, t
    <3> QED BY <1>9, <3>1, <3>2
  <2>3. \A i \in t + 1 .. n : q.bufs[i] = FreshBuf
    <3>1. \A i \in t + 1 .. n : i \in 1 .. n /\ i # t
      BY <1>1
    <3>2. \A i \in t + 1 .. n : l.bufs[i] = FreshBuf
      BY DEF Shape, t
    <3> QED BY <1>9, <3>1, <3>2
  <2>4. t \in 0 .. n /\ t # 0 /\ n # 0 /\ (g.max > 0 => n <= g.max)
    BY <1>1 DEF Shape
  <2> QED BY <1>8, <1>9, <1>10, <2>1, <2>2, <2>3, <2>4 DEF Shape
<1>12. Contents(q) = Contents(l) \o data
  <2> DEFINE head == UpTo(l.bufs, t - 1)
  <2>1. Contents(l) = UpTo(l.bufs, t) /\ Contents(q) = UpTo(q.bufs, t)
    BY <1>8, <1>11, ContentsAre DEF t
  <2>2. t - 1 \in 0 .. n - 1 /\ (t - 1) + 1 = t /\ t - 1 \in Nat
    BY <1>1
  <2>3. /\ head \in Seq(Number) /\ UpTo(l.bufs, t) = head \o old
        /\ UpTo(q.bufs, t) = UpTo(q.bufs, t - 1) \o q.bufs[t].data
    <3> HIDE DEF n
    <3> QED BY <1>1, <1>9, <2>2, UpToNext DEF n
  <2>4. UpTo(q.bufs, t - 1) = head
    <3>1. \A i \in 1 .. t - 1 : i \in 1 .. n /\ i # t
      BY <1>1
    <3>2. \A i \in 1 .. t - 1 : q.bufs[i].data = l.bufs[i].data
      BY <1>9, <3>1
    <3> QED BY <2>2, <3>2, UpToSame
  <2> HIDE DEF head, old
  <2>5. (head \o old) \o data = head \o (old \o data)
    BY <1>2, <2>3, ConcatAssociative
  <2> QED BY <1>4, <1>9, <2>1, <2>3, <2>4, <2>5 DEF new
<1>13. Sized(q)
  BY <1>8, <1>9 DEF Sized
<1> QED BY <1>8, <1>11, <1>12, <1>13 DEF t

-----------------------------------------------------------------------------
(* Bytes taken out                                                         *)

\* Without the head chunk a list holds what was behind it.
LEMMA FreeBufKeeps ==
  ASSUME NEW g \in Geometry, NEW l, Shape(g, l), Sized(l), l.tail # 0,
         NEW q, q = FreeBuf(g, l)
  PROVE  /\ Shape(g, q) /\ Sized(q) /\ q.bytes = l.bytes
         /\ Contents(l) = l.bufs[1].data \o Contents(q)
         /\ IF l.tail > 1 THEN q.tail = l.tail - 1 ELSE Contents(q) = << >>
<1> DEFINE n == Len(l.bufs)
           behind == Tail(l.bufs)
           t == IF n = 1 THEN 0 ELSE IF l.tail = 1 THEN 1 ELSE l.tail - 1
           rest == [bufs |-> behind, tail |-> t, bytes |-> l.bytes, buffers |-> l.buffers - 1]
<1>1. /\ n \in Nat /\ l.bufs \in Seq(Chunk) /\ l.tail \in 1 .. n /\ l \in List /\ n >= 1
      /\ l.bufs # << >> /\ g.len \in Nat /\ g.max \in Int /\ g.min \in Nat \ {0}
      /\ \A i \in 1 .. n : l.bufs[i].off + Len(l.bufs[i].data) <= g.len
  <2>1. /\ n \in Nat /\ l.bufs \in Seq(Chunk) /\ (l.bufs = << >> <=> n = 0)
        /\ \A i \in 1 .. n : l.bufs[i].off + Len(l.bufs[i].data) <= g.len
    BY ShapeChunks
  <2>2. l.tail \in 0 .. n /\ l \in List
    BY DEF Shape
  <2> QED BY <2>1, <2>2 DEF Geometry
<1>2. /\ behind \in Seq(Chunk) /\ Len(behind) = n - 1
      /\ \A i \in 1 .. n - 1 : behind[i] = l.bufs[i + 1]
  BY <1>1, HeadTailProperties
<1> HIDE DEF behind
<1>3. q = IF rest.buffers >= g.min THEN rest ELSE AddBuf(rest)
  <2>1. l \in List
    BY <1>1
  <2>2. [l EXCEPT !.bufs = Tail(@), !.buffers = @ - 1,
                  !.tail = IF Len(l.bufs) = 1 THEN 0 ELSE IF @ = 1 THEN 1 ELSE @ - 1] = rest
    <3> HIDE DEF t
    <3>1. PICK x : x = [l EXCEPT !.bufs = behind, !.buffers = l.buffers - 1, !.tail = t]
      OBVIOUS
    <3>2. /\ x.bufs = behind /\ x.tail = t /\ x.bytes = l.bytes /\ x.buffers = l.buffers - 1
          /\ x = [bufs |-> x.bufs, tail |-> x.tail, bytes |-> x.bytes, buffers |-> x.buffers]
      BY <2>1, <3>1 DEF List
    <3>3. x = rest
      BY <3>2
    <3> QED BY <3>1, <3>3 DEF behind, t
  <2> QED BY <2>2 DEF FreeBuf
<1>4. /\ rest.bufs = behind /\ rest.tail = t /\ rest.bytes = l.bytes
      /\ rest.buffers = n - 1 /\ t \in 0 .. n - 1 /\ l.bytes \in Int
  <2>1. l.buffers = n /\ l.bytes \in Int
    BY <1>1 DEF Sized, List
  <2>2. t \in 0 .. n - 1
    <3>1. n \in Nat /\ n >= 1 /\ l.tail \in 1 .. n
      BY <1>1
    <3>2. \A m \in Nat : \A x \in 1 .. m :
            (IF m = 1 THEN 0 ELSE IF x = 1 THEN 1 ELSE x - 1) \in 0 .. m - 1
      OBVIOUS
    <3> HIDE DEF n
    <3> QED BY <3>1, <3>2
  <2> HIDE DEF t, n
  <2> QED BY <2>1, <2>2
<1>5. rest \in List
  <2>1. n - 1 \in Nat /\ t \in Nat
    BY <1>1, <1>4
  <2> HIDE DEF t, n
  <2> QED BY <1>2, <1>4, <2>1 DEF List
<1> HIDE DEF rest
<1>6. Sized(rest)
  BY <1>2, <1>4 DEF Sized
<1>7. Shape(g, rest)
  <2>1. \A i \in 1 .. n - 1 : behind[i].off + Len(behind[i].data) <= g.len
    <3>1. \A i \in 1 .. n - 1 : i + 1 \in 1 .. n
      BY <1>1
    <3> QED BY <1>1, <1>2, <3>1
  <2>2. \A i \in 1 .. t - 1 : Len(behind[i].data) > 0
    <3>1. \A i \in 1 .. t - 1 : i \in 1 .. n - 1 /\ i + 1 \in 1 .. l.tail - 1
      BY <1>1
    <3>2. \A i \in 1 .. l.tail - 1 : Len(l.bufs[i].data) > 0
      BY DEF Shape
    <3> QED BY <1>2, <3>1, <3>2
  <2>3. \A i \in t + 1 .. n - 1 : behind[i] = FreshBuf
    <3>1. \A i \in t + 1 .. n - 1 : i \in 1 .. n - 1 /\ i + 1 \in l.tail + 1 .. n
      BY <1>1
    <3>2. \A i \in l.tail + 1 .. n : l.bufs[i] = FreshBuf
      BY DEF Shape
    <3> QED BY <1>2, <3>1, <3>2
  <2>4. t = 0 <=> n - 1 = 0
    BY <1>1
  <2>5. g.max > 0 => n - 1 <= g.max
    BY <1>1 DEF Shape
  <2> HIDE DEF t, n
  <2> QED BY <1>2, <1>4, <1>5, <2>1, <2>2, <2>3, <2>4, <2>5 DEF Shape
<1>8. Contents(l) = l.bufs[1].data \o Contents(rest)
  <2>1. Contents(l) = UpTo(l.bufs, n) /\ Contents(rest) = UpTo(behind, n - 1)
    BY <1>2, <1>4, <1>7, ContentsAre
  <2>2. n \in 1 .. Len(l.bufs)
    BY <1>1
  <2>3. UpTo(l.bufs, n) = l.bufs[1].data \o UpTo(behind, n - 1)
    <3> HIDE DEF n
    <3> QED BY <1>1, <2>2, UpToTail DEF behind
  <2> QED BY <2>1, <2>3
<1>9. l.tail = 1 => Contents(rest) = << >>
  <2> SUFFICES ASSUME l.tail = 1 PROVE Contents(rest) = << >>
    OBVIOUS
  <2>1. \A i \in 0 + 1 .. n - 1 : behind[i] = FreshBuf /\ behind[i].data = << >>
    <3>1. \A i \in 1 .. n - 1 : behind[i] = FreshBuf
      BY <1>1, <1>2 DEF Shape
    <3> QED BY <3>1 DEF FreshBuf
  <2>2. 0 \in 0 .. n - 1 /\ n - 1 \in 0 .. n - 1
    BY <1>1
  <2>3. UpTo(behind, n - 1) = UpTo(behind, 0)
    <3> HIDE DEF n
    <3> QED BY <1>2, <2>1, <2>2, UpToEmpty
  <2>4. Contents(rest) = UpTo(behind, n - 1)
    BY <1>2, <1>4, <1>7, ContentsAre
  <2> QED BY <2>3, <2>4, UpToZero
<1>10. CASE rest.buffers >= g.min
  <2>1. q = rest
    BY <1>3, <1>10
  <2>2. l.tail > 1 => q.tail = l.tail - 1
    BY <1>1, <1>4, <2>1
  <2>3. l.tail > 1 \/ l.tail = 1
    BY <1>1
  <2> QED BY <1>4, <1>6, <1>7, <1>8, <1>9, <2>1, <2>2, <2>3
<1>11. CASE ~(rest.buffers >= g.min)
  <2>1. q = AddBuf(rest)
    BY <1>3, <1>11
  <2>2. g.max > 0 => Len(rest.bufs) < g.max
    BY <1>1, <1>2, <1>4 DEF Shape
  <2>3. /\ Shape(g, q) /\ Sized(q) /\ Contents(q) = Contents(rest) /\ q.bytes = rest.bytes
        /\ q.tail = IF rest.tail = 0 THEN 1 ELSE rest.tail
    BY <1>6, <1>7, <2>1, <2>2, AddBufKeeps
  <2>4. l.tail > 1 => q.tail = l.tail - 1
    BY <1>1, <1>4, <2>3
  <2>5. l.tail > 1 \/ l.tail = 1
    BY <1>1
  <2> QED BY <1>4, <1>8, <1>9, <2>3, <2>4, <2>5
<1> QED BY <1>10, <1>11

\* Half-way through taking the first n bytes of C: a.left of them are still
\* there, in front of the bytes that are to stay.
Taking(g, C, n) ==
  {a \in [list : List, left : Nat] :
     /\ Shape(g, a.list) /\ Sized(a.list)
     /\ a.left <= Len(Contents(a.list))
     /\ a.list.bytes = Len(Contents(a.list)) - a.left
     /\ Len(Contents(a.list)) - a.left = Len(C) - n
     /\ \A i \in 1 .. Len(C) - n : Contents(a.list)[a.left + i] = C[n + i]}

\* The first left bytes of the head chunk go.
CutHead(l, left) ==
  [l EXCEPT !.bufs[1] = [off |-> l.bufs[1].off + left,
                         data |-> SubSeq(l.bufs[1].data, left + 1, Len(l.bufs[1].data))]]

LEMMA HeadCut ==
  ASSUME NEW g \in Geometry, NEW l, Shape(g, l), Sized(l), l.tail # 0,
         NEW left \in Nat, left < Len(l.bufs[1].data),
         NEW q, q = CutHead(l, left)
  PROVE  /\ Shape(g, q) /\ Sized(q) /\ q.bytes = l.bytes
         /\ Len(Contents(q)) = Len(Contents(l)) - left
         /\ \A i \in 1 .. Len(Contents(q)) : Contents(q)[i] = Contents(l)[left + i]
<1> DEFINE n == Len(l.bufs)
           b == l.bufs[1]
           x == Len(b.data)
           c == [off |-> b.off + left, data |-> SubSeq(b.data, left + 1, x)]
<1>1. /\ n \in Nat /\ l.bufs \in Seq(Chunk) /\ l.tail \in 1 .. n /\ 1 \in 1 .. n /\ n \in 1 .. n
      /\ DOMAIN l.bufs = 1 .. n /\ l \in List /\ l.bufs # << >>
  <2>1. n \in Nat /\ l.bufs \in Seq(Chunk) /\ DOMAIN l.bufs = 1 .. n /\ (l.bufs = << >> <=> n = 0)
    BY ShapeChunks
  <2>2. l.tail \in 0 .. n /\ l \in List
    BY DEF Shape
  <2> QED BY <2>1, <2>2
<1>2. /\ b \in Chunk /\ b.off \in Nat /\ b.data \in Seq(Number) /\ x \in Nat
      /\ b.off + x <= g.len /\ g.len \in Nat
  BY <1>1, ShapeChunks DEF Geometry
<1>3. /\ c.data \in Seq(Number) /\ Len(c.data) = x - left /\ c.off = b.off + left
      /\ \A i \in 1 .. x - left : c.data[i] = b.data[left + i]
  <2> DEFINE d == b.data
             m == left + 1
  <2>1. d \in Seq(Number) /\ \A i \in 1 .. Len(d) : d[i] \in Number
    BY <1>2, ElementOfSeq
  <2>2. m \in Int /\ x \in Int /\ m <= x /\ \A i \in m .. x : i \in 1 .. Len(d)
    BY <1>2
  <2>3. c.data = SubSeq(d, m, x) /\ c.off = b.off + left
    OBVIOUS
  <2> HIDE DEF d, x, m
  <2>4. /\ c.data \in Seq(Number) /\ Len(c.data) = x - m + 1
        /\ \A i \in 1 .. x - m + 1 : c.data[i] = d[m + i - 1]
    <3>1. \A i \in m .. x : d[i] \in Number
      BY <2>1, <2>2
    <3>2. /\ SubSeq(d, m, x) \in Seq(Number)
          /\ Len(SubSeq(d, m, x)) = IF m <= x THEN x - m + 1 ELSE 0
          /\ \A i \in 1 .. x - m + 1 : SubSeq(d, m, x)[i] = d[m + i - 1]
      BY ONLY <2>2, <3>1, SubSeqProperties
    <3> QED BY <2>2, <2>3, <3>2
  <2>5. x - m + 1 = x - left /\ \A i \in 1 .. x - left : m + i - 1 = left + i
    BY <1>2 DEF m
  <2> QED BY <2>3, <2>4, <2>5 DEF d
<1>4. c \in Chunk
  <2>1. b.off + left \in Nat
    BY <1>2
  <2> QED BY <1>3, <2>1 DEF Chunk
<1>5. Len(c.data) > 0 /\ c.off + Len(c.data) <= g.len /\ Len(c.data) \in Nat
  <2> HIDE DEF b, c, x
  <2> QED BY <1>2, <1>3, SMTT(30) DEF b, x
<1>6. q = [l EXCEPT !.bufs = [l.bufs EXCEPT ![1] = c]]
  <2>1. q = [l EXCEPT !.bufs[1] = c]
    BY DEF CutHead
  <2> HIDE DEF c
  <2> QED BY <1>1, <2>1 DEF List
<1> HIDE DEF b, x, c
<1>7. /\ q.bufs = [l.bufs EXCEPT ![1] = c] /\ q.tail = l.tail
      /\ q.bytes = l.bytes /\ q.buffers = l.buffers
  BY <1>1, <1>6 DEF List
<1>8. /\ q.bufs \in Seq(Chunk) /\ Len(q.bufs) = n /\ q.bufs[1] = c /\ q.bufs # << >>
      /\ \A i \in 2 .. n : i \in 1 .. n /\ q.bufs[i] = l.bufs[i]
  <2>1. \A i \in 2 .. n : i \in 1 .. n /\ i # 1
    BY <1>1
  <2>2. n # 0
    BY <1>1
  <2> HIDE DEF n
  <2>3. /\ q.bufs \in Seq(Chunk) /\ Len(q.bufs) = n
        /\ \A i \in 1 .. n : q.bufs[i] = IF i = 1 THEN c ELSE l.bufs[i]
    BY <1>1, <1>4, <1>7, ExceptSeq DEF n
  <2>4. q.bufs # << >>
    BY <2>2, <2>3, EmptySeq
  <2> QED BY <1>1, <2>1, <2>3, <2>4
<1>9. q \in List
  BY <1>1, <1>6, <1>7, <1>8 DEF List
<1>10. Shape(g, q)
  <2>0. \A i \in 1 .. n : i = 1 \/ i \in 2 .. n
    BY <1>1
  <2>1. \A i \in 1 .. n : q.bufs[i].off + Len(q.bufs[i].data) <= g.len
    <3>1. \A i \in 1 .. n : l.bufs[i].off + Len(l.bufs[i].data) <= g.len
      BY ShapeChunks
    <3> QED BY <1>5, <1>8, <2>0, <3>1
  <2>2. \A i \in 1 .. l.tail - 1 : Len(q.bufs[i].data) > 0
    <3>1. \A i \in 1 .. l.tail - 1 : i \in 1 .. n /\ Len(l.bufs[i].data) > 0
      BY <1>1 DEF Shape
    <3> QED BY <1>5, <1>8, <2>0, <3>1
  <2>3. \A i \in l.tail + 1 .. n : q.bufs[i] = FreshBuf
    <3>1. \A i \in l.tail + 1 .. n : i \in 2 .. n /\ l.bufs[i] = FreshBuf
      BY <1>1 DEF Shape
    <3> QED BY <1>8, <3>1
  <2>4. l.tail \in 0 .. n /\ l.tail # 0 /\ n # 0 /\ (g.max > 0 => n <= g.max)
    BY <1>1 DEF Shape
  <2> QED BY <1>7, <1>8, <1>9, <2>1, <2>2, <2>3, <2>4 DEF Shape
<1> DEFINE rest == UpTo(Tail(l.bufs), n - 1)
           y == Len(rest)
<1>11. /\ rest \in Seq(Number) /\ y \in Nat
       /\ Contents(l) = b.data \o rest /\ Contents(q) = c.data \o rest
  <2>1. Contents(l) = UpTo(l.bufs, n) /\ Contents(q) = UpTo(q.bufs, n)
    BY <1>8, <1>10, ContentsAre
  <2>2. /\ Tail(l.bufs) \in Seq(Chunk) /\ Len(Tail(l.bufs)) = n - 1
        /\ Len(Tail(q.bufs)) = n - 1
        /\ \A i \in 1 .. n - 1 : Tail(l.bufs)[i] = l.bufs[i + 1]
        /\ \A i \in 1 .. n - 1 : Tail(q.bufs)[i] = q.bufs[i + 1]
    <3> HIDE DEF n
    <3>1. /\ Tail(l.bufs) \in Seq(Chunk) /\ Len(Tail(l.bufs)) = n - 1
          /\ \A i \in 1 .. Len(Tail(l.bufs)) : Tail(l.bufs)[i] = l.bufs[i + 1]
      BY <1>1, HeadTailProperties DEF n
    <3>2. /\ Len(Tail(q.bufs)) = n - 1
          /\ \A i \in 1 .. Len(Tail(q.bufs)) : Tail(q.bufs)[i] = q.bufs[i + 1]
      BY <1>8, HeadTailProperties
    <3> QED BY <3>1, <3>2
  <2>3. n - 1 \in Nat /\ n - 1 \in 0 .. n - 1
    BY <1>1
  <2>4. UpTo(Tail(q.bufs), n - 1) = rest
    <3>1. \A i \in 1 .. n - 1 : i + 1 \in 2 .. n
      BY <1>1
    <3>2. \A i \in 1 .. n - 1 : Tail(q.bufs)[i].data = Tail(l.bufs)[i].data
      BY <1>8, <2>2, <3>1
    <3> HIDE DEF n
    <3> QED BY <2>3, <3>2, UpToSame
  <2>5. rest \in Seq(Number)
    <3> HIDE DEF n
    <3> QED BY <2>2, <2>3, UpToType
  <2>6. UpTo(l.bufs, n) = b.data \o rest /\ UpTo(q.bufs, n) = c.data \o rest
    <3> HIDE DEF n
    <3>1. UpTo(l.bufs, n) = b.data \o UpTo(Tail(l.bufs), n - 1)
      BY <1>1, UpToTail DEF b, n
    <3>2. UpTo(q.bufs, n) = c.data \o UpTo(Tail(q.bufs), n - 1)
      BY <1>1, <1>8, UpToTail
    <3> QED BY <2>4, <3>1, <3>2
  <2> QED BY <2>1, <2>5, <2>6, LenProperties
<1> HIDE DEF rest, y
<1>12. /\ Joins(Number, b.data, x, rest, y, Contents(l))
       /\ Joins(Number, c.data, x - left, rest, y, Contents(q))
  <2> DEFINE bd == b.data
             cd == c.data
             z == x - left
             cl == Contents(l)
             cq == Contents(q)
  <2>1. /\ bd \in Seq(Number) /\ cd \in Seq(Number) /\ x \in Nat /\ z \in Nat /\ y \in Nat
        /\ Len(bd) = x /\ Len(cd) = z /\ Len(rest) = y /\ rest \in Seq(Number)
        /\ cl = bd \o rest /\ cq = cd \o rest
    <3>1. Len(bd) = x /\ Len(rest) = y
      BY DEF x, y
    <3>2. z \in Nat
      <4>1. left < x
        BY DEF x, b
      <4> QED BY <1>2, <4>1
    <3> QED BY <1>2, <1>3, <1>11, <3>1, <3>2
  <2> HIDE DEF bd, cd, z, cl, cq
  <2>2. Joins(Number, bd, x, rest, y, cl) /\ Joins(Number, cd, z, rest, y, cq)
    BY <2>1, ConcatAt
  <2> QED BY <2>2 DEF bd, cd, z, cl, cq
<1>13. /\ Len(Contents(l)) = x + y /\ Len(Contents(q)) = (x - left) + y
       /\ \A i \in 1 .. (x - left) + y : Contents(q)[i] = Contents(l)[left + i]
  <2> DEFINE cl == Contents(l)
             cq == Contents(q)
  <2>1. /\ Len(cl) = x + y /\ Len(cq) = (x - left) + y
        /\ \A i \in 1 .. x : cl[i] = b.data[i]
        /\ \A i \in 1 .. y : cl[x + i] = rest[i]
        /\ \A i \in 1 .. x - left : cq[i] = c.data[i]
        /\ \A i \in 1 .. y : cq[(x - left) + i] = rest[i]
    BY <1>12 DEF Joins
  <2> HIDE DEF cl, cq
  <2>2. ASSUME NEW i \in 1 .. (x - left) + y PROVE cq[i] = cl[left + i]
    <3>1. CASE i \in 1 .. x - left
      <4>1. left + i \in 1 .. x
        BY <1>2, <3>1
      <4> QED BY <1>3, <2>1, <3>1, <4>1
    <3>2. CASE i \notin 1 .. x - left
      <4> DEFINE j == i - (x - left)
      <4>1. j \in 1 .. y /\ (x - left) + j = i /\ x + j = left + i
        BY <1>2, <1>11, <3>2
      <4> HIDE DEF j
      <4>2. cq[(x - left) + j] = cl[x + j]
        BY <2>1, <4>1
      <4> QED BY <4>1, <4>2
    <3> QED BY <3>1, <3>2
  <2> QED BY <2>1, <2>2 DEF cl, cq
<1>14. Sized(q)
  BY <1>7, <1>8 DEF Sized
<1>15. (x - left) + y = (x + y) - left
  BY <1>2, <1>11
<1> QED BY <1>7, <1>10, <1>13, <1>14, <1>15

LEMMA TakeOnceKeeps ==
  ASSUME NEW g \in Geometry, NEW C \in Seq(Number), NEW n \in 0 .. Len(C),
         NEW a \in Taking(g, C, n), NEW e, e = TakeOnce(g, a)
  PROVE  e \in Taking(g, C, n) /\ (e.left = 0 \/ e.list.tail = a.list.tail - 1)
<1> DEFINE l == a.list
           D == Contents(l)
           x == Len(l.bufs[1].data)
           z == Len(C) - n
<1>1. /\ Shape(g, l) /\ Sized(l) /\ l \in List /\ a.left \in Nat
      /\ a.left <= Len(D) /\ l.bytes = Len(D) - a.left
      /\ Len(D) - a.left = z /\ \A i \in 1 .. z : D[a.left + i] = C[n + i]
  BY DEF Taking
<1>2. D \in Seq(Number) /\ Len(D) \in Nat /\ z \in Nat
  <2>1. Len(C) \in Nat
    BY LenProperties
  <2> QED BY <1>1, <2>1, ContentsAre
<1>3. CASE a.left = 0
  <2>1. e = a
    BY <1>3 DEF TakeOnce
  <2> QED BY <1>3, <2>1
<1>4. CASE a.left # 0
  <2>1. l.tail # 0 /\ Len(l.bufs) > 0 /\ 1 \in 1 .. Len(l.bufs)
    <3>1. l.tail = 0 => D = << >>
      BY <1>1, ContentsAre, UpToZero
    <3>2. l.tail # 0
      BY <1>1, <1>4, <3>1
    <3>3. Len(l.bufs) \in Nat
      BY <1>1, ShapeChunks
    <3>4. l.tail \in 0 .. Len(l.bufs)
      BY <1>1 DEF Shape
    <3> QED BY <3>2, <3>3, <3>4
  <2>2. Head(l.bufs) = l.bufs[1]
    BY DEF Head
  <2>3. x \in Nat /\ l.bufs[1].data \in Seq(Number)
    BY <1>1, <2>1, ShapeChunks
  <2>4. CASE a.left < x
    <3> DEFINE q == CutHead(l, a.left)
               E == Contents(q)
    <3>1. e = [list |-> q, left |-> 0]
      BY <1>4, <2>2, <2>4 DEF TakeOnce, CutHead
    <3>2. /\ Shape(g, q) /\ Sized(q) /\ q.bytes = l.bytes
          /\ Len(E) = Len(D) - a.left
          /\ \A i \in 1 .. Len(E) : E[i] = D[a.left + i]
      <4> DEFINE left == a.left
      <4>1. /\ Shape(g, l) /\ Sized(l) /\ l.tail # 0 /\ left \in Nat
            /\ left < Len(l.bufs[1].data) /\ q = CutHead(l, left)
        BY <1>1, <2>1, <2>4
      <4> HIDE DEF left, l, q
      <4>2. /\ Shape(g, q) /\ Sized(q) /\ q.bytes = l.bytes
            /\ Len(Contents(q)) = Len(Contents(l)) - left
            /\ \A i \in 1 .. Len(Contents(q)) : Contents(q)[i] = Contents(l)[left + i]
        BY <4>1, HeadCut
      <4> QED BY <4>2 DEF left
    <3> HIDE DEF q
    <3>3. e.list = q /\ e.left = 0 /\ q \in List /\ e \in [list : List, left : Nat]
      BY <3>1, <3>2 DEF Shape
    <3>4. Len(E) = z /\ \A i \in 1 .. z : E[i] = D[a.left + i] /\ 0 + i = i
      <4> DEFINE left == a.left
      <4>1. Len(D) - left = z /\ Len(E) = Len(D) - left /\ z \in Nat
            /\ \A i \in 1 .. Len(E) : E[i] = D[left + i]
        BY <1>1, <1>2, <3>2
      <4> HIDE DEF z, E, D, left
      <4>2. Len(E) = z
        BY <4>1
      <4>3. \A i \in 1 .. z : E[i] = D[left + i] /\ 0 + i = i
        BY <4>1, <4>2
      <4> QED BY <4>2, <4>3 DEF left
    <3>5. \A i \in 1 .. z : E[0 + i] = C[n + i]
      BY <1>1, <3>4
    <3> HIDE DEF E, z
    <3>6. 0 <= Len(E) /\ q.bytes = Len(E) - 0 /\ Len(E) - 0 = z
      BY <1>1, <1>2, <3>2, <3>4
    <3> QED BY <3>2, <3>3, <3>5, <3>6 DEF Taking, E, z
  <2>5. CASE ~(a.left < x)
    <3> DEFINE q == FreeBuf(g, l)
               E == Contents(q)
               y == Len(E)
               m == a.left - x
    <3>1. e = [list |-> q, left |-> m]
      BY <1>4, <2>2, <2>5 DEF TakeOnce
    <3>2. /\ Shape(g, q) /\ Sized(q) /\ q.bytes = l.bytes
          /\ D = l.bufs[1].data \o E
          /\ IF l.tail > 1 THEN q.tail = l.tail - 1 ELSE E = << >>
      BY <1>1, <2>1, FreeBufKeeps, ZenonT(60)
    <3> HIDE DEF q
    <3>3. E \in Seq(Number) /\ y \in Nat
      BY <3>2, ContentsAre
    <3>4. Joins(Number, l.bufs[1].data, x, E, y, D)
      <4> DEFINE d == l.bufs[1].data
      <4>1. d \in Seq(Number) /\ Len(d) = x /\ D = d \o E
        BY <2>3, <3>2
      <4> HIDE DEF d, D, E, x, y
      <4>2. Joins(Number, d, x, E, y, D)
        BY <2>3, <3>3, <4>1, ConcatAt DEF y
      <4> QED BY <4>2 DEF d
    <3>5. Len(D) = x + y /\ \A i \in 1 .. y : D[x + i] = E[i]
      BY <3>4 DEF Joins
    <3> HIDE DEF D, E, y, x, z
    <3>6. m \in Nat /\ m <= y /\ q.bytes = y - m /\ y - m = z
      <4> DEFINE k == a.left
                 v == Len(D)
      <4>1. /\ k \in Nat /\ x \in Nat /\ y \in Nat /\ v \in Nat /\ z \in Nat /\ ~(k < x)
            /\ k <= v /\ v - k = z /\ v = x + y /\ m = k - x
        BY <1>1, <1>2, <2>3, <2>5, <3>3, <3>5 DEF x
      <4>2. q.bytes = v - k
        BY <1>1, <3>2
      <4> HIDE DEF k, v, m
      <4>3. m \in Nat /\ m <= y /\ y - m = v - k /\ y - m = z
        BY <4>1
      <4> QED BY <4>2, <4>3 DEF m
    <3>7. \A i \in 1 .. z : E[m + i] = C[n + i]
      <4> SUFFICES ASSUME NEW i \in 1 .. z PROVE E[m + i] = C[n + i]
        OBVIOUS
      <4>1. m + i \in 1 .. y /\ x + (m + i) = a.left + i
        <5> DEFINE k == a.left
        <5>1. m = k - x /\ k \in Nat
          BY <1>1
        <5>2. z \in Nat /\ x \in Nat /\ y \in Nat /\ m \in Nat /\ y - m = z
          BY <1>2, <2>3, <3>3, <3>6
        <5> HIDE DEF m, k
        <5>3. m + i \in 1 .. y /\ x + (m + i) = k + i
          BY <5>1, <5>2
        <5> QED BY <5>3 DEF k
      <4>2. D[x + (m + i)] = E[m + i]
        BY <3>5, <4>1
      <4> QED BY <1>1, <4>1, <4>2
    <3>8. e.list = q /\ e.left = m /\ q \in List /\ e \in [list : List, left : Nat]
      BY <3>1, <3>2, <3>6 DEF Shape
    <3>9. m = 0 \/ q.tail = l.tail - 1
      <4>1. E = << >> => y = 0
        BY DEF y
      <4> QED BY <3>2, <3>6, <4>1
    <3> HIDE DEF m
    <3>10. e \in Taking(g, C, n)
      BY <3>2, <3>6, <3>7, <3>8 DEF Taking, E, y, z
    <3> QED BY <3>8, <3>9, <3>10
  <2> QED BY <2>4, <2>5
<1> QED BY <1>3, <1>4

LEMMA TakeKeeps ==
  ASSUME NEW g \in Geometry, NEW l, Shape(g, l), Sized(l), l.bytes = Len(Contents(l)),
         NEW n \in 0 .. Len(Contents(l)), NEW q, q = Take(g, l, n)
  PROVE  /\ Shape(g, q) /\ Sized(q) /\ q.bytes = Len(Contents(q))
         /\ Len(Contents(q)) = Len(Contents(l)) - n
         /\ \A i \in 1 .. Len(Contents(q)) : Contents(q)[i] = Contents(l)[n + i]
<1> DEFINE C == Contents(l)
           m == Len(l.bufs)
           D == Taking(g, C, n)
           first == [list |-> [l EXCEPT !.bytes = @ - n], left |-> n]
           turn == [i \in 1 .. m |-> [a \in D |-> TakeOnce(g, a)]]
           Is(f) == f = [k \in 0 .. m |-> IF k = 0 THEN first ELSE TakeOnce(g, f[k - 1])]
<1>1. C \in Seq(Number) /\ Len(C) \in Nat /\ m \in Nat /\ l.tail \in 0 .. m /\ n \in Nat
      /\ l \in List
  BY ContentsAre, ShapeChunks DEF Shape
<1>2. first \in D /\ first.list.tail = l.tail
  <2>1. PICK x : x = [l EXCEPT !.bytes = @ - n]
    OBVIOUS
  <2>2. /\ x.bufs = l.bufs /\ x.tail = l.tail /\ x.bytes = l.bytes - n /\ x.buffers = l.buffers
        /\ x \in List
    BY <1>1, <2>1 DEF List
  <2>3. Shape(g, x) /\ Sized(x) /\ Contents(x) = C
    BY <2>2 DEF Shape, Sized, Contents
  <2>4. first = [list |-> x, left |-> n]
    BY <2>1
  <2>5. first.list = x /\ first.left = n /\ first \in [list : List, left : Nat]
    BY <1>1, <2>2, <2>4
  <2>6. x.bytes = Len(C) - n
    BY <2>2
  <2> HIDE DEF first, C
  <2> QED BY <1>1, <2>2, <2>3, <2>5, <2>6 DEF Taking, C
<1>3. \A a \in D : /\ TakeOnce(g, a) \in D
                   /\ TakeOnce(g, a).left = 0 \/ TakeOnce(g, a).list.tail = a.list.tail - 1
  <2> SUFFICES ASSUME NEW a \in D
               PROVE  /\ TakeOnce(g, a) \in D
                      /\ TakeOnce(g, a).left = 0 \/ TakeOnce(g, a).list.tail = a.list.tail - 1
    OBVIOUS
  <2>1. PICK e : e = TakeOnce(g, a)
    OBVIOUS
  <2>2. e \in D /\ (e.left = 0 \/ e.list.tail = a.list.tail - 1)
    <3> HIDE DEF C
    <3> QED BY <1>1, <2>1, TakeOnceKeeps DEF C
  <2> QED BY <2>1, <2>2
<1> HIDE DEF D, first
<1>4. \A i \in 1 .. m : \A a \in D : turn[i][a] = TakeOnce(g, a) /\ turn[i][a] \in D
  BY <1>3
<1> HIDE DEF turn, m
<1>5. PICK h \in [0 .. m -> D] : h[0] = first /\ \A i \in 1 .. m : h[i] = turn[i][h[i - 1]]
  <2>1. \E h : h \in LoopRuns(D, m, first, turn)
    BY <1>1, <1>2, <1>4, LoopExists
  <2> QED BY <2>1 DEF LoopRuns
<1>6. Is(h)
  <2>1. \A k \in 0 .. m : h[k] = IF k = 0 THEN first ELSE TakeOnce(g, h[k - 1])
    <3> SUFFICES ASSUME NEW k \in 0 .. m, k # 0 PROVE h[k] = TakeOnce(g, h[k - 1])
      BY <1>5
    <3>1. k \in 1 .. m /\ k - 1 \in 0 .. m
      BY <1>1
    <3>2. h[k - 1] \in D
      BY <1>5, <3>1
    <3> QED BY <1>4, <1>5, <3>1, <3>2
  <2> QED BY <1>5, <2>1
<1> DEFINE f == CHOOSE f : Is(f)
<1>7. Is(f)
  <2> HIDE DEF Is
  <2> QED BY <1>6
<1>8. q = f[m].list
  BY DEF Take, m, first
<1> HIDE DEF f
<1>9. f[0] = first /\ \A k \in 1 .. m : f[k] = TakeOnce(g, f[k - 1])
  <2>1. \A k \in 0 .. m : f[k] = IF k = 0 THEN first ELSE TakeOnce(g, f[k - 1])
    BY <1>7
  <2>2. 0 \in 0 .. m /\ \A k \in 1 .. m : k \in 0 .. m /\ k # 0
    BY <1>1
  <2> QED BY <2>1, <2>2
<1> DEFINE G == {k \in 0 .. m : f[k] \in D /\ (f[k].left = 0 \/ f[k].list.tail = l.tail - k)}
<1>10. 0 \in G
  BY <1>1, <1>2, <1>9
<1>11. \A k \in 0 .. m - 1 : k \in G => k + 1 \in G
  <2> SUFFICES ASSUME NEW k \in 0 .. m - 1, k \in G PROVE k + 1 \in G
    OBVIOUS
  <2>1. k + 1 \in 1 .. m /\ k + 1 \in 0 .. m /\ (k + 1) - 1 = k /\ l.tail \in Int
    BY <1>1
  <2>2. f[k + 1] = TakeOnce(g, f[k]) /\ f[k] \in D
    BY <1>9, <2>1
  <2>3. f[k + 1] \in D /\ (f[k + 1].left = 0 \/ f[k + 1].list.tail = f[k].list.tail - 1)
    BY <1>3, <2>2
  <2>4. f[k].left = 0 => f[k + 1].left = 0
    BY <2>2 DEF TakeOnce
  <2>5. f[k + 1].left = 0 \/ f[k + 1].list.tail = l.tail - (k + 1)
    BY <2>1, <2>3, <2>4
  <2> QED BY <2>1, <2>3, <2>5
<1>12. m \in G
  <2> HIDE DEF G
  <2>1. 0 \in Int /\ m \in Int /\ (0 <= m => 0 \in G) /\ m \in 0 .. m
    BY <1>1, <1>10
  <2>2. \A k \in 0 .. m : k \in G
    BY ONLY <1>11, <2>1, InductionUpTo
  <2> QED BY <2>1, <2>2
<1> DEFINE left == f[m].left
<1>13. /\ Shape(g, q) /\ Sized(q) /\ left \in Nat /\ left <= Len(Contents(q))
       /\ q.bytes = Len(Contents(q)) - left /\ Len(Contents(q)) - left = Len(C) - n
       /\ \A i \in 1 .. Len(C) - n : Contents(q)[left + i] = C[n + i]
  <2>1. f[m] \in D
    BY <1>12
  <2> HIDE DEF C
  <2> QED BY <1>8, <2>1 DEF D, Taking
<1>14. left = 0
  <2>1. q.tail \in 0 .. Len(q.bufs) /\ Contents(q) = UpTo(q.bufs, q.tail) /\ Len(q.bufs) \in Nat
    BY <1>13, ContentsAre, ShapeChunks DEF Shape
  <2>2. ASSUME q.tail = l.tail - m PROVE left = 0
    <3>1. q.tail = 0
      BY <1>1, <2>1, <2>2
    <3>2. Len(Contents(q)) = 0
      BY <2>1, <3>1, UpToZero
    <3> HIDE DEF left
    <3> QED BY <1>13, <3>2
  <2> QED BY <1>8, <1>12, <2>2
<1> HIDE DEF left
<1>15. Len(Contents(q)) \in Nat
  BY <1>13, ContentsAre
<1>16. Len(Contents(q)) = Len(C) - n /\ q.bytes = Len(Contents(q))
  BY <1>1, <1>13, <1>14, <1>15
<1>17. \A i \in 1 .. Len(C) - n : 0 + i = i /\ Contents(q)[i] = C[n + i]
  BY <1>13, <1>14
<1> HIDE DEF C
<1> QED BY <1>13, <1>16, <1>17 DEF C

-----------------------------------------------------------------------------
(* A write stored                                                          *)

\* Half-way through storing a write of n bytes: T is what the list held and
\* the write.
Storing(T, n) ==
  {a \in [list : List, left : Seq(Number)] :
     /\ Len(a.left) <= n
     /\ Shape(WriteGeometry, a.list) /\ Sized(a.list)
     /\ a.list.bytes = Len(Contents(a.list))
     /\ Joins(Number, Contents(a.list), Len(Contents(a.list)), a.left, Len(a.left), T)}

LEMMA StoreOnceKeeps ==
  ASSUME WriteGeometry \in Geometry, NEW T, NEW N \in Nat, NEW a \in Storing(T, N),
         NEW e, e = StoreOnce(a)
  PROVE  e \in Storing(T, N)
<1> DEFINE l == a.list
           y == Len(a.left)
<1>1. /\ Shape(WriteGeometry, l) /\ Sized(l) /\ l.bytes = Len(Contents(l)) /\ l \in List
      /\ a.left \in Seq(Number) /\ a \in [list : List, left : Seq(Number)]
      /\ Joins(Number, Contents(l), Len(Contents(l)), a.left, y, T) /\ y <= N
  BY DEF Storing
<1>2. y \in Nat
  BY <1>1, LenProperties
<1>3. PICK p : p = Prepare(WriteGeometry, l, y)
  OBVIOUS
<1>4. /\ Shape(WriteGeometry, p.list) /\ Sized(p.list)
      /\ Contents(p.list) = Contents(l) /\ p.list.bytes = l.bytes
      /\ p.list.tail \in 1 .. Len(p.list.bufs)
      /\ p.ok => Room(WriteGeometry, p.list.bufs[p.list.tail]) > 0
  <2> HIDE DEF l, y
  <2> QED BY <1>1, <1>2, <1>3, PrepareKeeps DEF l
<1> DEFINE q == p.list
           room == Room(WriteGeometry, q.bufs[q.tail])
           n == IF room < y THEN room ELSE y
           put == SubSeq(a.left, 1, n)
           kept == SubSeq(a.left, n + 1, y)
<1>5. e = IF a.left = << >> THEN a
          ELSE IF ~p.ok THEN [a EXCEPT !.list = q]
          ELSE [list |-> Fill(q, put), left |-> kept]
  BY <1>3 DEF StoreOnce
<1>6. CASE a.left = << >>
  BY <1>5, <1>6
<1>7. CASE a.left # << >> /\ ~p.ok
  <2>1. e = [a EXCEPT !.list = q]
    BY <1>5, <1>7
  <2>2. q \in List
    BY <1>4 DEF Shape
  <2> HIDE DEF q
  <2>3. e.list = q /\ e.left = a.left /\ e \in [list : List, left : Seq(Number)]
    BY <1>1, <2>1, <2>2
  <2>4. Len(e.left) <= N
    BY <1>1, <2>3
  <2> QED BY <1>1, <1>4, <2>3, <2>4 DEF Storing, q
<1>8. CASE a.left # << >> /\ p.ok
  <2>1. room \in Nat /\ room > 0 /\ q.tail # 0
    <3>1. q.tail \in 1 .. Len(q.bufs) /\ q.tail # 0
      BY <1>4, ShapeChunks
    <3> QED BY <1>4, <1>8, <3>1, ShapeChunks
  <2> DEFINE d == a.left
  <2>2. d \in Seq(Number) /\ \A i \in 1 .. y : d[i] \in Number
    BY <1>1, ElementOfSeq
  <2> HIDE DEF room, d, q, l, y
  <2>3. n \in Nat /\ n <= room /\ n <= y
    BY <1>2, <2>1
  <2> HIDE DEF n
  <2>4. /\ SubSeq(d, 1, n) \in Seq(Number) /\ Len(SubSeq(d, 1, n)) = n
        /\ \A i \in 1 .. n : SubSeq(d, 1, n)[i] = d[i]
    <3>1. 1 \in Int /\ n \in Int /\ \A i \in 1 .. n : d[i] \in Number
      BY <1>2, <2>2, <2>3
    <3>2. /\ SubSeq(d, 1, n) \in Seq(Number)
          /\ Len(SubSeq(d, 1, n)) = IF 1 <= n THEN n - 1 + 1 ELSE 0
          /\ \A i \in 1 .. n - 1 + 1 : SubSeq(d, 1, n)[i] = d[1 + i - 1]
      BY ONLY <3>1, SubSeqProperties
    <3>3. n - 1 + 1 = n /\ \A i \in 1 .. n : 1 + i - 1 = i
      BY <2>3
    <3> QED BY <2>3, <3>2, <3>3
  <2>5. /\ SubSeq(d, n + 1, y) \in Seq(Number) /\ Len(SubSeq(d, n + 1, y)) = y - n
        /\ \A i \in 1 .. y - n : SubSeq(d, n + 1, y)[i] = d[n + i]
    <3> DEFINE k == n + 1
    <3>1. k \in Int /\ y \in Int /\ \A i \in k .. y : d[i] \in Number
      BY <1>2, <2>2, <2>3
    <3> HIDE DEF k
    <3>2. /\ SubSeq(d, k, y) \in Seq(Number)
          /\ Len(SubSeq(d, k, y)) = IF k <= y THEN y - k + 1 ELSE 0
          /\ \A i \in 1 .. y - k + 1 : SubSeq(d, k, y)[i] = d[k + i - 1]
      BY ONLY <3>1, SubSeqProperties
    <3>3. y - k + 1 = y - n /\ (~(k <= y) => y - n = 0) /\ \A i \in 1 .. y - n : k + i - 1 = n + i
      BY <1>2, <2>3 DEF k
    <3> QED BY <3>2, <3>3 DEF k
  <2>6. put \in Seq(Number) /\ Len(put) = n /\ kept \in Seq(Number) /\ Len(kept) = y - n
        /\ (\A i \in 1 .. n : put[i] = d[i]) /\ (\A i \in 1 .. y - n : kept[i] = d[n + i])
    BY <2>4, <2>5 DEF d
  <2>7. e = [list |-> Fill(q, put), left |-> kept]
    BY <1>5, <1>8
  <2> HIDE DEF put, kept
  <2>8. PICK z : z = Fill(q, put)
    OBVIOUS
  <2>9. /\ Shape(WriteGeometry, z) /\ Sized(z) /\ z.bytes = q.bytes + Len(put)
        /\ Contents(z) = Contents(q) \o put
    <3>1. Len(put) <= Room(WriteGeometry, q.bufs[q.tail])
      BY <2>3, <2>6 DEF room
    <3>2. Shape(WriteGeometry, q) /\ Sized(q)
      BY <1>4 DEF q
    <3> QED BY <2>1, <2>6, <2>8, <3>1, <3>2, FillKeeps
  <2> DEFINE C == Contents(q)
             E == Contents(z)
             x == Len(C)
  <2>10. C \in Seq(Number) /\ x \in Nat
    BY <1>4, ContentsAre DEF q
  <2>11. Joins(Number, C, x, put, n, E)
    <3> HIDE DEF C, E
    <3>1. E = C \o put /\ x \in Nat /\ Len(C) = x
      BY <2>9, <2>10 DEF C, E
    <3> HIDE DEF x
    <3> QED BY <2>3, <2>6, <2>10, <3>1, ConcatAt
  <2>12. Joins(Number, C, x, d, y, T)
    BY <1>1, <1>4 DEF q, d, l, y
  <2>13. E \in Seq(Number) /\ Len(E) = x + n
         /\ (\A i \in 1 .. x : E[i] = C[i]) /\ (\A i \in 1 .. n : E[x + i] = put[i])
    BY <2>11 DEF Joins
  <2>14. T \in Seq(Number) /\ Len(T) = x + y
         /\ (\A i \in 1 .. x : T[i] = C[i]) /\ (\A i \in 1 .. y : T[x + i] = d[i])
    BY <2>12 DEF Joins
  <2> HIDE DEF C, E, x
  <2>15. Joins(Number, E, x + n, kept, y - n, T)
    <3>1. Len(T) = (x + n) + (y - n)
      BY <1>2, <2>3, <2>10, <2>14
    <3>2. ASSUME NEW i \in 1 .. x + n PROVE T[i] = E[i]
      <4>1. CASE i \in 1 .. x
        BY <2>13, <2>14, <4>1
      <4>2. CASE i \notin 1 .. x
        <5> DEFINE j == i - x
        <5>1. j \in 1 .. n /\ j \in 1 .. y /\ x + j = i
          BY <1>2, <2>3, <2>10, <4>2
        <5> HIDE DEF j
        <5>2. E[x + j] = put[j] /\ T[x + j] = d[j] /\ put[j] = d[j]
          BY <2>6, <2>13, <2>14, <5>1
        <5> QED BY <5>1, <5>2
      <4> QED BY <4>1, <4>2
    <3>3. ASSUME NEW i \in 1 .. y - n PROVE T[(x + n) + i] = kept[i]
      <4>1. n + i \in 1 .. y /\ x + (n + i) = (x + n) + i
        BY <1>2, <2>3, <2>10
      <4>2. T[x + (n + i)] = d[n + i] /\ kept[i] = d[n + i]
        BY <2>6, <2>14, <4>1
      <4> QED BY <4>1, <4>2
    <3> QED BY <2>14, <3>1, <3>2, <3>3 DEF Joins
  <2>16. e.list = z /\ e.left = kept /\ e \in [list : List, left : Seq(Number)]
    <3>1. z \in List
      BY <2>9 DEF Shape
    <3> QED BY <2>6, <2>7, <2>8, <3>1
  <2>17. z.bytes = Len(E)
    <3>1. q.bytes = x
      BY <1>1, <1>4 DEF q, C, l, x
    <3> QED BY <2>6, <2>9, <2>13, <3>1
  <2>18. y - n <= N
    <3>1. y <= N
      BY <1>1 DEF y
    <3> QED BY <1>2, <2>3, <3>1
  <2> QED BY <2>6, <2>9, <2>13, <2>15, <2>16, <2>17, <2>18 DEF Storing, E
<1> QED BY <1>6, <1>7, <1>8

LEMMA StoreKeeps ==
  ASSUME WriteGeometry \in Geometry, NEW l, Shape(WriteGeometry, l), Sized(l),
         l.bytes = Len(Contents(l)), NEW data \in Seq(Number), NEW T, T = Contents(l) \o data,
         NEW e, e = Store(l, data)
  PROVE  e \in Storing(T, Len(data))
<1> DEFINE m == Len(data)
           C == Contents(l)
           D == Storing(T, m)
           first == [list |-> l, left |-> data]
           turn == [i \in 1 .. m |-> [a \in D |-> StoreOnce(a)]]
           Is(f) == f = [k \in 0 .. m |-> IF k = 0 THEN first ELSE StoreOnce(f[k - 1])]
<1>1. m \in Nat /\ C \in Seq(Number) /\ Len(C) \in Nat /\ l \in List
  BY ContentsAre, LenProperties DEF Shape
<1>2. first \in D
  <2>1. Joins(Number, C, Len(C), data, m, T)
    <3> HIDE DEF C, m
    <3> QED BY <1>1, ConcatAt DEF C, m
  <2>2. first.list = l /\ first.left = data /\ first \in [list : List, left : Seq(Number)]
    BY <1>1
  <2> HIDE DEF first, C
  <2> QED BY <2>1, <2>2 DEF Storing, C
<1>3. \A a \in D : StoreOnce(a) \in D
  BY <1>1, StoreOnceKeeps
<1> HIDE DEF D, first
<1>4. \A i \in 1 .. m : \A a \in D : turn[i][a] = StoreOnce(a) /\ turn[i][a] \in D
  BY <1>3
<1> HIDE DEF turn, m
<1>5. PICK h \in [0 .. m -> D] : h[0] = first /\ \A i \in 1 .. m : h[i] = turn[i][h[i - 1]]
  <2>1. \E h : h \in LoopRuns(D, m, first, turn)
    BY <1>1, <1>2, <1>4, LoopExists
  <2> QED BY <2>1 DEF LoopRuns
<1>6. Is(h)
  <2>1. \A k \in 0 .. m : h[k] = IF k = 0 THEN first ELSE StoreOnce(h[k - 1])
    <3> SUFFICES ASSUME NEW k \in 0 .. m, k # 0 PROVE h[k] = StoreOnce(h[k - 1])
      BY <1>5
    <3>1. k \in 1 .. m /\ k - 1 \in 0 .. m
      BY <1>1
    <3>2. h[k - 1] \in D
      BY <1>5, <3>1
    <3> QED BY <1>4, <1>5, <3>1, <3>2
  <2> QED BY <1>5, <2>1
<1> DEFINE f == CHOOSE f : Is(f)
<1>7. Is(f)
  <2> HIDE DEF Is
  <2> QED BY <1>6
<1>8. e = f[m]
  BY DEF Store, m, first
<1> HIDE DEF f
<1>9. f[0] = first /\ \A k \in 1 .. m : f[k] = StoreOnce(f[k - 1])
  <2>1. \A k \in 0 .. m : f[k] = IF k = 0 THEN first ELSE StoreOnce(f[k - 1])
    BY <1>7
  <2>2. 0 \in 0 .. m /\ \A k \in 1 .. m : k \in 0 .. m /\ k # 0
    BY <1>1
  <2> QED BY <2>1, <2>2
<1> DEFINE G == {k \in 0 .. m : f[k] \in D}
<1>10. 0 \in G
  BY <1>1, <1>2, <1>9
<1>11. \A k \in 0 .. m - 1 : k \in G => k + 1 \in G
  <2> SUFFICES ASSUME NEW k \in 0 .. m - 1, k \in G PROVE k + 1 \in G
    OBVIOUS
  <2>1. k + 1 \in 1 .. m /\ k + 1 \in 0 .. m /\ (k + 1) - 1 = k
    BY <1>1
  <2>2. f[k + 1] = StoreOnce(f[k]) /\ f[k] \in D
    BY <1>9, <2>1
  <2> QED BY <1>3, <2>1, <2>2
<1>12. f[m] \in D
  <2> HIDE DEF G
  <2>1. 0 \in Int /\ m \in Int /\ (0 <= m => 0 \in G) /\ m \in 0 .. m
    BY <1>1, <1>10
  <2>2. \A k \in 0 .. m : k \in G
    BY ONLY <1>11, <2>1, InductionUpTo
  <2> QED BY <2>1, <2>2 DEF G
<1> QED BY <1>8, <1>12 DEF D, m

-----------------------------------------------------------------------------
(* Numbered bytes                                                          *)

LEMMA ModType ==
  ASSUME NEW x \in Int
  PROVE  x % Wrap \in Number
<1>1. Wrap \in Nat \ {0}
  BY UstreamBufAssumption
<1> QED BY <1>1 DEF Number

LEMMA ModShift ==
  ASSUME NEW a \in Number, NEW b \in Nat, NEW d \in Nat, b + d <= Wrap
  PROVE  (((a + b) % Wrap) + d) % Wrap = (a + (b + d)) % Wrap
<1>1. Wrap \in Nat \ {0} /\ a \in Nat /\ a < Wrap
  BY UstreamBufAssumption DEF Number
<1>2. CASE a + b < Wrap
  <2>1. (a + b) % Wrap = a + b
    BY <1>1, <1>2, ModSmall DEF Number
  <2> QED BY <1>1, <2>1
<1>3. CASE ~(a + b < Wrap)
  <2> DEFINE x == (a + b) - Wrap
  <2>1. x \in Number /\ x + Wrap = a + b
    BY <1>1, <1>3 DEF Number
  <2>2. (a + b) % Wrap = x
    BY <2>1, ModSmall
  <2>3. (x + d) \in Number /\ (x + d) + Wrap = a + (b + d)
    BY <1>1, <1>3 DEF Number
  <2>4. (x + d) % Wrap = x + d /\ (a + (b + d)) % Wrap = x + d
    <3> HIDE DEF x
    <3>1. \A y \in Number : y % Wrap = y /\ (y + Wrap) % Wrap = y
      BY ModSmall
    <3> QED BY <2>3, <3>1
  <2> QED BY <2>2, <2>4
<1> QED BY <1>2, <1>3

LEMMA NumberedType ==
  ASSUME NEW f \in Nat, NEW n \in Nat
  PROVE  /\ Numbered(f, n) \in Seq(Number) /\ Len(Numbered(f, n)) = n
         /\ \A i \in 1 .. n : Numbered(f, n)[i] = (f + i - 1) % Wrap
<1>1. \A i \in 1 .. n : (f + i - 1) % Wrap \in Number
  <2> SUFFICES ASSUME NEW i \in 1 .. n PROVE (f + i - 1) % Wrap \in Number
    OBVIOUS
  <2>1. f + i - 1 \in Int
    OBVIOUS
  <2> QED BY <2>1, ModType
<1>2. Numbered(f, n) = [i \in 1 .. n |-> (f + i - 1) % Wrap]
  BY DEF Numbered
<1>3. [i \in 1 .. n |-> (f + i - 1) % Wrap] \in Seq(Number)
  BY <1>1
<1> QED BY <1>2, <1>3

\* A sequence with these elements is this one.
LEMMA NumberedIs ==
  ASSUME NEW f \in Nat, NEW n \in Nat, NEW C \in Seq(Number), Len(C) = n,
         \A i \in 1 .. n : C[i] = (f + i - 1) % Wrap
  PROVE  C = Numbered(f, n)
<1> DEFINE N == Numbered(f, n)
<1>1. /\ N \in Seq(Number) /\ Len(N) = n /\ \A i \in 1 .. n : N[i] = (f + i - 1) % Wrap
  BY NumberedType
<1> HIDE DEF N
<1>2. C = N
  BY <1>1, SeqEqual
<1> QED BY <1>2 DEF N

\* Numbers that go on where others end.
GoesOn(out, m, f, k) == \A i \in 1 .. k : (f + i - 1) % Wrap = (out + (m + i) - 1) % Wrap

LEMMA NumberedJoined ==
  ASSUME NEW out \in Number, NEW m \in Nat, NEW f \in Nat, NEW k \in Nat, GoesOn(out, m, f, k),
         NEW T, Joins(Number, Numbered(out, m), m, Numbered(f, k), k, T)
  PROVE  T = Numbered(out, m + k)
<1> DEFINE C == Numbered(out, m)
           D == Numbered(f, k)
<1>0. out \in Nat
  BY DEF Number
<1>1. /\ C \in Seq(Number) /\ Len(C) = m /\ \A i \in 1 .. m : C[i] = (out + i - 1) % Wrap
  BY <1>0, NumberedType
<1>2. /\ D \in Seq(Number) /\ Len(D) = k /\ \A i \in 1 .. k : D[i] = (f + i - 1) % Wrap
  BY NumberedType
<1>5. /\ T \in Seq(Number) /\ Len(T) = m + k
      /\ (\A i \in 1 .. m : T[i] = C[i]) /\ \A i \in 1 .. k : T[m + i] = D[i]
  BY DEF Joins
<1>6. ASSUME NEW i \in 1 .. m + k PROVE T[i] = (out + i - 1) % Wrap
  <2>1. CASE i \in 1 .. m
    BY <1>1, <1>5, <2>1
  <2>2. CASE i \notin 1 .. m
    <3> DEFINE j == i - m
    <3>1. j \in 1 .. k /\ m + j = i
      BY <2>2
    <3> HIDE DEF j
    <3>2. T[m + j] = D[j] /\ D[j] = (f + j - 1) % Wrap
          /\ (f + j - 1) % Wrap = (out + (m + j) - 1) % Wrap
      BY <1>2, <1>5, <3>1 DEF GoesOn
    <3> QED BY <3>1, <3>2
  <2> QED BY <2>1, <2>2
<1>7. m + k \in Nat
  OBVIOUS
<1> QED BY <1>0, <1>5, <1>6, <1>7, NumberedIs

-----------------------------------------------------------------------------
(* One direction of a stream                                               *)

\* The list holds the bytes from number out on, up to in.
Holds(l, out, in) ==
  /\ Sized(l) /\ l.bytes = Len(Contents(l)) /\ l.bytes < Wrap
  /\ Contents(l) = Numbered(out, l.bytes)
  /\ in = (out + l.bytes) % Wrap

LEMMA EmptyHolds ==
  ASSUME NEW g \in Geometry
  PROVE  Shape(g, EmptyList) /\ Holds(EmptyList, 0, 0) /\ EmptyList.bytes = 0
<1>1. EmptyList \in List /\ EmptyList.bufs = << >> /\ EmptyList.tail = 0
      /\ EmptyList.bytes = 0 /\ EmptyList.buffers = 0
  BY DEF EmptyList, List
<1> HIDE DEF EmptyList
<1>2. Shape(g, EmptyList)
  <2>1. Len(EmptyList.bufs) = 0 /\ (g.max > 0 => 0 <= g.max)
    BY <1>1 DEF Geometry
  <2>2. \A i \in 1 .. 0 : FALSE
    OBVIOUS
  <2> QED BY <1>1, <2>1, <2>2 DEF Shape
<1>3. Contents(EmptyList) = << >>
  BY <1>1, <1>2, ContentsAre, UpToZero
<1>4. Numbered(0, 0) = << >>
  BY DEF Numbered
<1>5. Wrap > 0 /\ 0 % Wrap = 0 /\ 0 \in Number
  <2>1. Wrap \in Nat \ {0}
    BY UstreamBufAssumption
  <2> QED BY <2>1, ModSmall DEF Number
<1> QED BY <1>1, <1>2, <1>3, <1>4, <1>5 DEF Holds, Sized

\* The first n bytes leave.
LEMMA TakeHolds ==
  ASSUME NEW g \in Geometry, NEW l, Shape(g, l), NEW out \in Number, NEW in, Holds(l, out, in),
         NEW n \in 0 .. l.bytes, NEW q, q = Take(g, l, n)
  PROVE  /\ Shape(g, q) /\ Holds(q, (out + n) % Wrap, in) /\ q.bytes = l.bytes - n
<1> DEFINE C == Contents(l)
           E == Contents(q)
           m == Len(C)
           o == (out + n) % Wrap
<1>1. C \in Seq(Number) /\ m \in Nat /\ l.bytes = m /\ n \in 0 .. m /\ m < Wrap
  BY ContentsAre DEF Holds
<1>2. /\ Shape(g, q) /\ Sized(q) /\ q.bytes = Len(E) /\ Len(E) = m - n
      /\ \A i \in 1 .. Len(E) : E[i] = C[n + i]
  <2>1. Sized(l) /\ l.bytes = Len(Contents(l)) /\ n \in 0 .. Len(Contents(l))
    BY <1>1 DEF Holds
  <2>2. /\ Shape(g, q) /\ Sized(q) /\ q.bytes = Len(Contents(q))
        /\ Len(Contents(q)) = Len(Contents(l)) - n
        /\ \A i \in 1 .. Len(Contents(q)) : Contents(q)[i] = Contents(l)[n + i]
    BY <2>1, TakeKeeps, SMTT(30)
  <2> QED BY <2>2
<1>3. E \in Seq(Number)
  BY <1>2, ContentsAre
<1>4. out \in Nat /\ Wrap \in Nat
  BY UstreamBufAssumption DEF Number
<1>5. \A i \in 1 .. m : C[i] = (out + i - 1) % Wrap
  <2>1. C = Numbered(out, m)
    BY <1>1 DEF Holds
  <2> HIDE DEF C, m
  <2> QED BY <1>1, <1>4, <2>1, NumberedType
<1>6. o \in Number /\ o \in Nat
  <2>1. out + n \in Int
    BY <1>4
  <2> QED BY <2>1, ModType DEF Number
<1> HIDE DEF C, E, m
<1>7. ASSUME NEW i \in 1 .. m - n PROVE E[i] = (o + i - 1) % Wrap
  <2> DEFINE d == i - 1
  <2>1. /\ n + i \in 1 .. m /\ d \in Nat /\ n \in Nat /\ n + d <= Wrap
        /\ o + i - 1 = o + d /\ out + (n + i) - 1 = out + (n + d)
    BY <1>1, <1>4, <1>6
  <2>2. E[i] = (out + (n + i) - 1) % Wrap
    BY <1>2, <1>5, <2>1
  <2> HIDE DEF d
  <2>3. (((out + n) % Wrap) + d) % Wrap = (out + (n + d)) % Wrap
    BY <2>1, ModShift
  <2> QED BY <2>1, <2>2, <2>3
<1>8. E = Numbered(o, m - n)
  <2>1. m - n \in Nat
    BY <1>1
  <2> HIDE DEF o
  <2> QED BY <1>2, <1>3, <1>6, <1>7, <2>1, NumberedIs
<1>9. in = (o + (m - n)) % Wrap
  <2>1. n \in Nat /\ m - n \in Nat /\ n + (m - n) = m /\ m <= Wrap
    BY <1>1, <1>4
  <2>2. (o + (m - n)) % Wrap = (out + (n + (m - n))) % Wrap
    BY <2>1, ModShift
  <2> QED BY <1>1, <2>1, <2>2 DEF Holds
<1>10. m - n < Wrap
  BY <1>1, <1>4
<1> HIDE DEF o
<1> QED BY <1>1, <1>2, <1>8, <1>9, <1>10 DEF Holds, E, o

\* n more bytes come in.
LEMMA FillHolds ==
  ASSUME NEW g \in Geometry, NEW l, Shape(g, l), NEW out \in Number, NEW in, Holds(l, out, in),
         l.tail # 0, NEW n \in 0 .. Room(g, l.bufs[l.tail]), l.bytes + n < Wrap,
         NEW q, q = Fill(l, Numbered(in, n))
  PROVE  /\ Shape(g, q) /\ Holds(q, out, (in + n) % Wrap) /\ q.bytes = l.bytes + n
<1> DEFINE m == l.bytes
           data == Numbered(in, n)
<1>1. m \in Nat /\ n \in Nat /\ Wrap \in Nat /\ out \in Nat /\ m = Len(Contents(l))
      /\ in = (out + m) % Wrap /\ Contents(l) = Numbered(out, m)
  <2>1. /\ m = Len(Contents(l)) /\ in = (out + m) % Wrap /\ Contents(l) = Numbered(out, m)
    BY DEF Holds
  <2>2. m \in Nat
    BY <2>1, ContentsAre
  <2>3. Room(g, l.bufs[l.tail]) \in Nat
    <3>1. Len(l.bufs) \in Nat
      BY ShapeChunks
    <3>2. l.tail \in 0 .. Len(l.bufs)
      BY DEF Shape
    <3>3. l.tail \in 1 .. Len(l.bufs)
      BY <3>1, <3>2
    <3> QED BY <3>3, ShapeChunks
  <2>4. Wrap \in Nat /\ out \in Nat /\ n \in Nat
    BY <2>3, UstreamBufAssumption DEF Number
  <2> QED BY <2>1, <2>2, <2>4
<1>2. in \in Nat
  <2>1. out + m \in Int
    BY <1>1
  <2> QED BY <1>1, <2>1, ModType DEF Number
<1>3. data \in Seq(Number) /\ Len(data) = n
  BY <1>1, <1>2, NumberedType
<1> HIDE DEF data
<1>4. /\ Shape(g, q) /\ Sized(q) /\ q.bytes = m + n /\ Contents(q) = Contents(l) \o data
  <2>1. q = Fill(l, data) /\ Sized(l)
    BY DEF data, Holds
  <2> QED BY <1>3, <2>1, FillKeeps
<1> HIDE DEF m
<1>5. GoesOn(out, m, in, n)
  <2> SUFFICES ASSUME NEW i \in 1 .. n PROVE (in + i - 1) % Wrap = (out + (m + i) - 1) % Wrap
    BY DEF GoesOn
  <2> DEFINE d == i - 1
  <2>1. d \in Nat /\ in + i - 1 = in + d /\ out + (m + i) - 1 = out + (m + d) /\ m + d <= Wrap
    BY <1>1, <1>2 DEF m
  <2> HIDE DEF d
  <2>2. (((out + m) % Wrap) + d) % Wrap = (out + (m + d)) % Wrap
    BY <1>1, <2>1, ModShift
  <2> QED BY <1>1, <2>1, <2>2
<1>6. Contents(q) = Numbered(out, m + n)
  <2> DEFINE C == Contents(l)
             T == Contents(q)
  <2>1. C = Numbered(out, m) /\ data = Numbered(in, n) /\ T = C \o data
    BY <1>1, <1>4 DEF data
  <2> HIDE DEF C, T
  <2>2. T = Numbered(out, m + n)
    <3>1. C \in Seq(Number) /\ Len(C) = m
      <4>1. out \in Nat /\ m \in Nat
        BY <1>1
      <4> QED BY <2>1, <4>1, NumberedType
    <3>2. Joins(Number, C, m, data, n, T)
      BY <1>1, <1>3, <2>1, <3>1, ConcatAt
    <3>3. Joins(Number, Numbered(out, m), m, Numbered(in, n), n, T)
      BY <2>1, <3>2
    <3> QED BY <1>1, <1>2, <1>5, <3>3, NumberedJoined
  <2> QED BY <2>2 DEF T
<1>7. (in + n) % Wrap = (out + (m + n)) % Wrap
  <2>1. m + n <= Wrap
    BY <1>1 DEF m
  <2> QED BY <1>1, <2>1, ModShift
<1>8. Len(Contents(q)) = m + n
  <2>1. m + n \in Nat
    BY <1>1
  <2> QED BY <1>1, <1>6, <2>1, NumberedType
<1> QED BY <1>4, <1>6, <1>7, <1>8 DEF Holds, m

\* The k bytes from number f on may be stored behind those of the list.
Follows(l, out, in, f, k) ==
  /\ Shape(WriteGeometry, l) /\ out \in Number /\ Holds(l, out, in)
  /\ f \in Nat /\ k \in Nat /\ GoesOn(out, l.bytes, f, k) /\ l.bytes + k < Wrap

\* What was not stored is the end of what was to be.
LEMMA StoreHolds ==
  ASSUME WriteGeometry \in Geometry, NEW l, NEW out, NEW in, NEW f, NEW k, Follows(l, out, in, f, k),
         NEW a, a = Store(l, Numbered(f, k))
  PROVE  /\ Shape(WriteGeometry, a.list) /\ Len(a.left) \in 0 .. k
         /\ a.list.bytes = l.bytes + (k - Len(a.left))
         /\ Holds(a.list, out, (out + a.list.bytes) % Wrap)
<1>0. /\ Shape(WriteGeometry, l) /\ out \in Number /\ Holds(l, out, in)
      /\ f \in Nat /\ k \in Nat /\ GoesOn(out, l.bytes, f, k) /\ l.bytes + k < Wrap
  BY DEF Follows
<1> USE <1>0
<1> DEFINE m == l.bytes
           C == Contents(l)
           data == Numbered(f, k)
           E == Contents(a.list)
           x == Len(E)
           y == Len(a.left)
<1>1. C \in Seq(Number) /\ Len(C) = m /\ m \in Nat /\ C = Numbered(out, m) /\ Sized(l)
  BY ContentsAre DEF Holds
<1>2. data \in Seq(Number) /\ Len(data) = k
  BY NumberedType
<1>3. PICK T : T = C \o data
  OBVIOUS
<1>4. a \in Storing(T, k)
  <2>1. a = Store(l, data) /\ l.bytes = Len(Contents(l)) /\ T = Contents(l) \o data
    BY <1>1, <1>3
  <2> HIDE DEF data
  <2>2. a \in Storing(T, Len(data))
    BY <1>1, <1>2, <2>1, StoreKeeps
  <2> QED BY <1>2, <2>2
<1>5. /\ Shape(WriteGeometry, a.list) /\ Sized(a.list) /\ a.list.bytes = x
      /\ a.left \in Seq(Number) /\ Joins(Number, E, x, a.left, y, T) /\ y <= k
  BY <1>4 DEF Storing
<1>6. E \in Seq(Number) /\ x \in Nat /\ y \in Nat
  BY <1>5, ContentsAre, LenProperties
<1>7. T = Numbered(out, m + k)
  <2> HIDE DEF C, data, m
  <2>1. Joins(Number, C, m, data, k, T)
    BY <1>1, <1>2, <1>3, ConcatAt
  <2>2. Joins(Number, Numbered(out, m), m, Numbered(f, k), k, T)
    BY <1>1, <2>1 DEF data
  <2>3. GoesOn(out, m, f, k)
    BY DEF m
  <2> QED BY <1>1, <2>2, <2>3, NumberedJoined
<1>8. out \in Nat /\ m + k \in Nat /\ Wrap \in Nat
  BY <1>1, UstreamBufAssumption, SMTT(30) DEF Number
<1>9. Len(T) = m + k /\ \A i \in 1 .. m + k : T[i] = (out + i - 1) % Wrap
  <2> HIDE DEF m
  <2> QED BY <1>7, <1>8, NumberedType
<1>10. Len(T) = x + y /\ \A i \in 1 .. x : T[i] = E[i]
  BY <1>5 DEF Joins
<1> HIDE DEF E, x, y, m
<1>11. x + y = m + k /\ x = m + (k - y) /\ x < Wrap
  <2>1. m + k < Wrap /\ m \in Nat
    BY <1>1 DEF m
  <2> QED BY <1>6, <1>8, <1>9, <1>10, <2>1
<1>12. E = Numbered(out, x)
  <2>1. \A i \in 1 .. x : E[i] = (out + i - 1) % Wrap
    <3>1. \A i \in 1 .. x : i \in 1 .. m + k
      BY <1>6, <1>8, <1>11
    <3> QED BY <1>9, <1>10, <3>1
  <2> QED BY <1>6, <1>8, <2>1, NumberedIs DEF x
<1>13. y \in 0 .. k
  BY <1>5, <1>6
<1> QED BY <1>5, <1>11, <1>12, <1>13 DEF Holds, E, x, y, m

LEMMA GoesOnFrom ==
  ASSUME NEW out \in Number, NEW m \in Nat, NEW in, in = (out + m) % Wrap,
         NEW j \in Nat, NEW k \in Nat, m + (j + k) <= Wrap
  PROVE  GoesOn(out, m + j, in + j, k)
<1> SUFFICES ASSUME NEW i \in 1 .. k
             PROVE  ((in + j) + i - 1) % Wrap = (out + ((m + j) + i) - 1) % Wrap
  BY DEF GoesOn
<1> DEFINE d == (j + i) - 1
<1>1. out \in Nat /\ Wrap \in Nat /\ in \in Nat
  <2>1. out \in Nat /\ Wrap \in Nat
    BY UstreamBufAssumption DEF Number
  <2>2. in \in Number
    BY <2>1, ModType
  <2> QED BY <2>1, <2>2 DEF Number
<1>2. /\ d \in Nat /\ m + d <= Wrap
      /\ (in + j) + i - 1 = in + d /\ out + ((m + j) + i) - 1 = out + (m + d)
  BY <1>1
<1> HIDE DEF d
<1>3. (((out + m) % Wrap) + d) % Wrap = (out + (m + d)) % Wrap
  BY <1>2, ModShift
<1> QED BY <1>2, <1>3

\* As many bytes as the list may hold fit under the wrap.
LEMMA ReadBound ==
  ASSUME NEW l, Shape(ReadGeometry, l)
  PROVE  Len(Contents(l)) < Wrap
<1> DEFINE n == Len(l.bufs)
<1>1. /\ ReadGeometry \in Geometry /\ ReadGeometry.len = ReadLen /\ ReadGeometry.max = ReadMax
      /\ ReadLen \in Nat /\ ReadMax \in Nat /\ ReadMax > 0 /\ Wrap > ReadMax * ReadLen
      /\ Wrap \in Nat
  BY UstreamBufAssumption DEF ReadGeometry, Geometry
<1>2. n \in Nat /\ n \in 0 .. n /\ l.bufs \in Seq(Chunk) /\ Contents(l) = UpTo(l.bufs, n)
      /\ (\A i \in 1 .. n : Len(l.bufs[i].data) <= ReadLen) /\ Len(Contents(l)) \in Nat
  <2>1. /\ n \in Nat /\ l.bufs \in Seq(Chunk)
        /\ \A i \in 1 .. n : Len(l.bufs[i].data) <= ReadGeometry.len
    BY <1>1, ShapeChunks
  <2>2. Contents(l) = UpTo(l.bufs, n) /\ Len(Contents(l)) \in Nat
    BY <1>1, ContentsAre
  <2> QED BY <1>1, <2>1, <2>2
<1>3. n <= ReadMax
  BY <1>1 DEF Shape
<1> HIDE DEF n
<1>4. Len(Contents(l)) <= n * ReadLen
  BY <1>1, <1>2, UpToLength DEF n
<1>5. n * ReadLen <= ReadMax * ReadLen
  <2>1. ReadMax = n + (ReadMax - n) /\ ReadMax - n \in Nat
    BY <1>1, <1>2, <1>3
  <2>2. ReadMax * ReadLen = n * ReadLen + (ReadMax - n) * ReadLen
    BY <1>1, <1>2
  <2>3. (ReadMax - n) * ReadLen \in Nat
    BY <1>1, <2>1
  <2>4. n * ReadLen \in Nat
    BY <1>1, <1>2
  <2> QED BY <2>2, <2>3, <2>4
<1>6. n * ReadLen \in Nat /\ ReadMax * ReadLen \in Nat
  BY <1>1, <1>2
<1> DEFINE x == n * ReadLen
           y == ReadMax * ReadLen
           c == Len(Contents(l))
<1>7. /\ x \in Nat /\ y \in Nat /\ c \in Nat /\ Wrap \in Nat
      /\ c <= x /\ x <= y /\ Wrap > y
  BY <1>1, <1>2, <1>4, <1>5, <1>6
<1> HIDE DEF x, y, c
<1>8. c < Wrap
  BY <1>7
<1> QED BY <1>8 DEF c

\* Bytes in the tail chunk are bytes of the list.
LEMMA TailCounts ==
  ASSUME NEW g \in Geometry, NEW l, Shape(g, l), l.tail # 0, Len(l.bufs[l.tail].data) > 0
  PROVE  Len(Contents(l)) > 0
<1> DEFINE t == l.tail
<1>1. Len(l.bufs) \in Nat /\ l.bufs \in Seq(Chunk) /\ Contents(l) = UpTo(l.bufs, t)
  BY ShapeChunks, ContentsAre
<1>2. t \in 1 .. Len(l.bufs) /\ t - 1 \in 0 .. Len(l.bufs) - 1 /\ (t - 1) + 1 = t
  BY <1>1 DEF Shape
<1> HIDE DEF t
<1>3. /\ UpTo(l.bufs, t - 1) \in Seq(Number)
      /\ UpTo(l.bufs, t) = UpTo(l.bufs, t - 1) \o l.bufs[t].data
  BY <1>1, <1>2, UpToNext
<1>4. l.bufs[t].data \in Seq(Number) /\ Len(l.bufs[t].data) \in Nat
  BY <1>2, ShapeChunks
<1>5. Len(UpTo(l.bufs, t)) = Len(UpTo(l.bufs, t - 1)) + Len(l.bufs[t].data)
  BY <1>3, <1>4, ConcatProperties
<1>6. Len(UpTo(l.bufs, t - 1)) \in Nat /\ Len(l.bufs[t].data) > 0
  BY <1>3, LenProperties DEF t
<1> DEFINE x == Len(UpTo(l.bufs, t - 1))
           y == Len(l.bufs[t].data)
<1>7. x \in Nat /\ y \in Nat /\ y > 0 /\ Len(Contents(l)) = x + y
  BY <1>1, <1>4, <1>5, <1>6
<1> HIDE DEF x, y
<1> QED BY <1>7

LEMMA PreparedHolds ==
  ASSUME NEW g \in Geometry, NEW l, Shape(g, l), NEW out, NEW in, Holds(l, out, in),
         NEW len \in Nat, NEW p, p = Prepare(g, l, len)
  PROVE  Shape(g, p.list) /\ Holds(p.list, out, in) /\ p.list.bytes = l.bytes /\ p.list.tail # 0
<1>1. /\ Shape(g, p.list) /\ Sized(p.list) /\ Contents(p.list) = Contents(l)
      /\ p.list.bytes = l.bytes /\ p.list.tail \in 1 .. Len(p.list.bufs)
  <2>1. Sized(l)
    BY DEF Holds
  <2> QED BY <2>1, PrepareKeeps
<1>2. p.list.tail # 0
  BY <1>1, ShapeChunks
<1> QED BY <1>1, <1>2 DEF Holds

-----------------------------------------------------------------------------
(* The invariant of the chunked buffers                                    *)

\* Both lists keep their shape and hold the bytes between their two ends; what
\* was given up after a write error holds none.
BufInv ==
  /\ Shape(ReadGeometry, r) /\ Shape(WriteGeometry, w)
  /\ {readIn, readOut, writeIn, writeOut} \subseteq Number
  /\ Holds(r, readOut, readIn)
  /\ GivenUp \/ (Holds(w, writeOut, writeIn) /\ w.bytes <= MaxPending)
  /\ readBlocked \subseteq {"full", "user"}
  /\ {eof, writeError, stateChange} \subseteq BOOLEAN
  /\ BlockedOnlyWhenFull

LEMMA Geometries ==
  /\ ReadGeometry \in Geometry /\ WriteGeometry \in Geometry
  /\ Wrap \in Nat /\ MaxPending \in Nat /\ MaxPending < Wrap
BY UstreamBufAssumption DEF ReadGeometry, WriteGeometry, Geometry

\* The bytes that leave a direction, and those that come in.
LEMMA MovesOn ==
  ASSUME NEW x \in Number, NEW n \in Nat
  PROVE  (x + n) % Wrap \in Number
<1>1. x + n \in Int
  BY DEF Number
<1> QED BY <1>1, ModType

LEMMA BufInit_Inv == BufInit => BufInv
<1> SUFFICES ASSUME BufInit PROVE BufInv
  OBVIOUS
<1>1. /\ r = EmptyList /\ w = EmptyList /\ readBlocked = {}
      /\ eof = FALSE /\ writeError = FALSE /\ stateChange = FALSE
      /\ readIn = 0 /\ readOut = 0 /\ writeIn = 0 /\ writeOut = 0
  BY DEF BufInit
<1>2. /\ Shape(ReadGeometry, EmptyList) /\ Shape(WriteGeometry, EmptyList)
      /\ Holds(EmptyList, 0, 0) /\ EmptyList.bytes = 0
  BY Geometries, EmptyHolds
<1>3. 0 \in Number /\ 0 <= MaxPending
  BY UstreamBufAssumption DEF Number
<1> QED BY <1>1, <1>2, <1>3 DEF BufInv, BlockedOnlyWhenFull

LEMMA ReadPending_Inv ==
  ASSUME BufInv, ReadPending
  PROVE  BufInv'
<1> DEFINE g == ReadGeometry
<1>1. /\ Shape(g, r) /\ Shape(WriteGeometry, w) /\ Holds(r, readOut, readIn)
      /\ readIn \in Number /\ readOut \in Number /\ writeIn \in Number /\ writeOut \in Number
      /\ GivenUp \/ (Holds(w, writeOut, writeIn) /\ w.bytes <= MaxPending)
      /\ {eof, writeError, stateChange} \subseteq BOOLEAN
  BY DEF BufInv
<1>2. PICK p : p = Prepare(g, r, 1)
  OBVIOUS
<1>3. /\ readBlocked = {}
      /\ \/ /\ p.ok
            /\ \E n \in 0 .. Room(g, p.list.bufs[p.list.tail]) :
                 /\ r' = Fill(p.list, Numbered(readIn, n))
                 /\ readIn' = (readIn + n) % Wrap
            /\ readBlocked' = readBlocked
         \/ /\ ~p.ok
            /\ r' = p.list
            /\ readBlocked' = readBlocked \cup {"full"}
            /\ readIn' = readIn
      /\ readOut' = readOut /\ w' = w /\ writeIn' = writeIn /\ writeOut' = writeOut
      /\ eof' = eof /\ writeError' = writeError /\ stateChange' = stateChange
  BY <1>2 DEF ReadPending, writeSide, flags
<1>4. /\ g \in Geometry /\ Wrap \in Nat
  BY Geometries
<1>5. Shape(g, p.list) /\ Holds(p.list, readOut, readIn) /\ p.list.tail # 0
  <2> HIDE DEF g
  <2> QED BY <1>1, <1>2, <1>4, PreparedHolds
<1>6. GivenUp' \/ (Holds(w, writeOut, writeIn)' /\ w'.bytes <= MaxPending)
  BY <1>1, <1>3 DEF GivenUp, Holds, Sized
<1>7. CASE p.ok /\ \E n \in 0 .. Room(g, p.list.bufs[p.list.tail]) :
                     r' = Fill(p.list, Numbered(readIn, n)) /\ readIn' = (readIn + n) % Wrap
  <2>1. PICK n \in 0 .. Room(g, p.list.bufs[p.list.tail]) :
          r' = Fill(p.list, Numbered(readIn, n)) /\ readIn' = (readIn + n) % Wrap
    BY <1>7
  <2> DEFINE data == Numbered(readIn, n)
             q == Fill(p.list, data)
  <2>2. Room(g, p.list.bufs[p.list.tail]) \in Nat
    <3>1. p.list.tail \in 1 .. Len(p.list.bufs)
      <4>1. Len(p.list.bufs) \in Nat /\ p.list.tail \in 0 .. Len(p.list.bufs)
        BY <1>4, <1>5, ShapeChunks DEF Shape
      <4> QED BY <1>5, <4>1
    <3> HIDE DEF g
    <3> QED BY <1>4, <1>5, <3>1, ShapeChunks
  <2>3. n \in Nat /\ n <= Room(g, p.list.bufs[p.list.tail]) /\ readIn \in Nat
    BY <1>1, <2>2 DEF Number
  <2>4. data \in Seq(Number) /\ Len(data) = n
    BY <2>3, NumberedType
  <2> HIDE DEF data
  <2>5. Shape(g, q) /\ Contents(q) = Contents(p.list) \o data /\ Sized(p.list)
    <3>1. Sized(p.list)
      BY <1>5 DEF Holds
    <3> HIDE DEF g
    <3> QED BY <1>4, <1>5, <2>3, <2>4, <3>1, FillKeeps
  <2> HIDE DEF q
  <2>6. p.list.bytes + n < Wrap
    <3>1. Contents(p.list) \in Seq(Number) /\ p.list.bytes = Len(Contents(p.list))
      BY <1>4, <1>5, ContentsAre DEF Holds
    <3>2. Len(Contents(q)) = p.list.bytes + n
      <4> DEFINE C == Contents(p.list)
                 E == Contents(q)
      <4>1. E = C \o data /\ C \in Seq(Number) /\ p.list.bytes = Len(C)
        BY <2>5, <3>1
      <4> HIDE DEF C, E
      <4>2. Len(C \o data) = Len(C) + Len(data)
        BY <2>4, <4>1, ConcatProperties
      <4> QED BY <2>4, <4>1, <4>2 DEF E
    <3> QED BY <2>5, <3>2, ReadBound
  <2>7. Shape(g, q) /\ Holds(q, readOut, (readIn + n) % Wrap)
    <3>1. q = Fill(p.list, Numbered(readIn, n))
      BY DEF q, data
    <3> HIDE DEF g
    <3> QED BY <1>1, <1>4, <1>5, <2>6, <3>1, FillHolds
  <2>8. r' = q /\ readIn' \in Number /\ readIn' = (readIn + n) % Wrap
    BY <1>1, <2>1, <2>3, MovesOn DEF q, data
  <2>9. Shape(g, r)' /\ Holds(r, readOut, readIn)'
    BY <1>3, <2>7, <2>8
  <2>10. readBlocked' = {}
    BY <1>3, <1>7
  <2> QED BY <1>1, <1>3, <1>6, <2>8, <2>9, <2>10 DEF BufInv, BlockedOnlyWhenFull
<1>8. CASE ~p.ok
  <2>1. r' = p.list /\ readBlocked' = {"full"} /\ readIn' = readIn
    BY <1>3, <1>8
  <2>2. /\ p.list.tail = Len(p.list.bufs) /\ ~CanAlloc(g, p.list)
        /\ Room(g, p.list.bufs[p.list.tail]) = 0
        /\ Len(p.list.bufs[p.list.tail].data) > 0
    <3>1. Sized(r)
      BY <1>1 DEF Holds
    <3> HIDE DEF g
    <3> QED BY <1>1, <1>2, <1>4, <1>8, <3>1, PrepareKeeps
  <2>3. p.list.bytes > 0
    BY <1>4, <1>5, <2>2, TailCounts DEF Holds
  <2>4. BlockedOnlyWhenFull'
    BY <2>1, <2>2, <2>3 DEF BlockedOnlyWhenFull
  <2>5. Shape(g, r)' /\ Holds(r, readOut, readIn)'
    BY <1>3, <1>5, <2>1
  <2>6. readBlocked' \subseteq {"full", "user"}
    BY <2>1
  <2> QED BY <1>1, <1>3, <1>6, <2>1, <2>4, <2>5, <2>6 DEF BufInv
<1> QED BY <1>3, <1>7, <1>8

LEMMA ConsumeBytes_Inv ==
  ASSUME BufInv, NEW n \in Nat, n <= r.bytes, ConsumeBytes(n)
  PROVE  BufInv'
<1>1. /\ Shape(ReadGeometry, r) /\ Shape(WriteGeometry, w) /\ Holds(r, readOut, readIn)
      /\ readIn \in Number /\ readOut \in Number /\ writeIn \in Number /\ writeOut \in Number
      /\ GivenUp \/ (Holds(w, writeOut, writeIn) /\ w.bytes <= MaxPending)
      /\ {eof, writeError, stateChange} \subseteq BOOLEAN
      /\ readBlocked \subseteq {"full", "user"}
  BY DEF BufInv
<1>2. /\ r' = Take(ReadGeometry, r, n) /\ readOut' = (readOut + n) % Wrap
      /\ readBlocked' = readBlocked \ {"full"}
      /\ readIn' = readIn /\ w' = w /\ writeIn' = writeIn /\ writeOut' = writeOut
      /\ eof' = eof /\ writeError' = writeError /\ stateChange' = stateChange
  BY DEF ConsumeBytes, writeSide, flags
<1>3. r.bytes \in Nat
  BY <1>1, Geometries, ContentsAre DEF Holds
<1>4. PICK q : q = Take(ReadGeometry, r, n)
  OBVIOUS
<1>5. Shape(ReadGeometry, q) /\ Holds(q, (readOut + n) % Wrap, readIn)
  <2>1. n \in 0 .. r.bytes
    BY <1>3
  <2> QED BY <1>1, <1>4, <2>1, Geometries, TakeHolds
<1>6. Shape(ReadGeometry, r)' /\ Holds(r, readOut, readIn)' /\ readOut' \in Number
  BY <1>1, <1>2, <1>4, <1>5, MovesOn
<1>7. GivenUp' \/ (Holds(w, writeOut, writeIn)' /\ w'.bytes <= MaxPending)
  BY <1>1, <1>2 DEF GivenUp, Holds, Sized
<1>8. "full" \notin readBlocked' /\ readBlocked' \subseteq {"full", "user"}
  BY <1>1, <1>2
<1> QED BY <1>1, <1>2, <1>6, <1>7, <1>8 DEF BufInv, BlockedOnlyWhenFull

LEMMA ReadInto_Inv ==
  ASSUME BufInv, NEW n \in Nat, ReadInto(n)
  PROVE  BufInv'
<1> DEFINE there == Len(Leading(r))
           k == IF n < there THEN n ELSE there
<1>1. ConsumeBytes(k)
  BY DEF ReadInto
<1>2. there = r.bytes /\ there \in Nat
  <2>1. Shape(ReadGeometry, r) /\ Holds(r, readOut, readIn)
    BY DEF BufInv
  <2>2. Leading(r) = Contents(r) /\ Len(Contents(r)) \in Nat
    BY <2>1, Geometries, SolidLeads, ContentsAre DEF DataAtHead
  <2> QED BY <2>1, <2>2 DEF Holds
<1>3. k \in Nat /\ k <= r.bytes
  BY <1>2
<1> HIDE DEF k
<1> QED BY <1>1, <1>3, ConsumeBytes_Inv

\* Whatever part of the last k of n bytes is stored behind m others, the number
\* of the client's next byte is right.
Counted(out, m, n, k) ==
  \A d \in Nat : d <= k => (writeIn + (n - k + d)) % Wrap = (out + (m + d)) % Wrap

\* A write, or what printf leaves for one, behind what the list holds.
LEMMA Accept_Inv ==
  ASSUME BufInv, NEW l, NEW out, NEW in, NEW f, NEW k, Follows(l, out, in, f, k),
         l.bytes + k <= MaxPending, NEW n \in Nat, k <= n, Counted(out, l.bytes, n, k),
         Accept(Store(l, Numbered(f, k)), n), writeOut' = out,
         UNCHANGED << readSide, flags >>
  PROVE  BufInv'
<1>0. /\ Shape(WriteGeometry, l) /\ out \in Number /\ Holds(l, out, in)
      /\ f \in Nat /\ k \in Nat
      /\ \A d \in Nat : d <= k => (writeIn + (n - k + d)) % Wrap = (out + (l.bytes + d)) % Wrap
  BY DEF Follows, Counted
<1> USE <1>0
<1>1. /\ Shape(ReadGeometry, r) /\ Holds(r, readOut, readIn)
      /\ readIn \in Number /\ readOut \in Number /\ writeIn \in Number /\ writeOut \in Number
      /\ {eof, writeError, stateChange} \subseteq BOOLEAN
      /\ readBlocked \subseteq {"full", "user"} /\ BlockedOnlyWhenFull
  BY DEF BufInv
<1>2. PICK a : a = Store(l, Numbered(f, k))
  OBVIOUS
<1>3. l.bytes \in Nat /\ l.bytes + k < Wrap /\ MaxPending \in Nat
  <2>1. l.bytes \in Nat
    BY Geometries, ContentsAre DEF Holds
  <2> QED BY <2>1, Geometries
<1>4. /\ Shape(WriteGeometry, a.list) /\ Len(a.left) \in 0 .. k
      /\ a.list.bytes = l.bytes + (k - Len(a.left))
      /\ Holds(a.list, out, (out + a.list.bytes) % Wrap)
  <2>1. Follows(l, out, in, f, k)
    BY <1>3 DEF Follows
  <2> QED BY <1>2, <2>1, Geometries, StoreHolds
<1> DEFINE y == Len(a.left)
           d == k - y
<1>5. w' = a.list /\ writeIn' = (writeIn + n - y) % Wrap
  BY <1>2 DEF Accept
<1>6. /\ r' = r /\ readBlocked' = readBlocked /\ readIn' = readIn /\ readOut' = readOut
      /\ eof' = eof /\ writeError' = writeError /\ stateChange' = stateChange
  BY DEF readSide, flags
<1>7. d \in Nat /\ d <= k /\ y \in Nat /\ writeIn \in Nat
  BY <1>1, <1>4 DEF Number
<1> HIDE DEF y
<1>8. writeIn + n - y = writeIn + (n - k + d) /\ n - k + d \in Nat
  BY <1>7
<1>9. writeIn' = (out + a.list.bytes) % Wrap /\ writeIn' \in Number
  <2>1. writeIn' = (writeIn + (n - k + d)) % Wrap
    BY <1>5, <1>8
  <2>2. a.list.bytes = l.bytes + d
    BY <1>4 DEF y
  <2> HIDE DEF d
  <2>3. writeIn' = (out + (l.bytes + d)) % Wrap
    BY <1>7, <2>1
  <2>4. writeIn' \in Number
    BY <1>1, <1>8, <2>1, MovesOn DEF d
  <2> QED BY <2>2, <2>3, <2>4
<1>10. w'.bytes <= MaxPending /\ Shape(WriteGeometry, w)' /\ Holds(w, writeOut, writeIn)'
  <2>1. a.list.bytes <= MaxPending
    <3> DEFINE b == l.bytes
               c == a.list.bytes
    <3>1. b \in Nat /\ b + k <= MaxPending /\ c = b + d
      BY <1>3, <1>4 DEF y
    <3> HIDE DEF b, c, d
    <3>2. c <= MaxPending
      BY <1>3, <1>7, <3>1
    <3> QED BY <3>2 DEF c
  <2> QED BY <1>4, <1>5, <1>9, <2>1
<1>11. BlockedOnlyWhenFull'
  BY <1>1, <1>6 DEF BlockedOnlyWhenFull
<1>12. Shape(ReadGeometry, r)' /\ Holds(r, readOut, readIn)'
  BY <1>1, <1>6
<1> QED BY <1>1, <1>6, <1>9, <1>10, <1>11, <1>12 DEF BufInv

LEMMA NothingHolds ==
  ASSUME NEW l, NEW out \in Number, Sized(l), l.bytes = 0, Contents(l) \in Seq(Number),
         Len(Contents(l)) = 0
  PROVE  Holds(l, out, out)
<1>1. out \in Nat /\ 0 \in Nat /\ 0 < Wrap
  BY UstreamBufAssumption DEF Number
<1>2. Contents(l) = Numbered(out, 0)
  <2>1. \A i \in 1 .. 0 : Contents(l)[i] = (out + i - 1) % Wrap
    OBVIOUS
  <2> QED BY <1>1, <2>1, NumberedIs
<1>3. out = (out + 0) % Wrap
  BY <1>1, ModSmall
<1> QED BY <1>1, <1>2, <1>3 DEF Holds

LEMMA UstreamWrite_Inv ==
  ASSUME BufInv, NEW n \in Nat, UstreamWrite(n)
  PROVE  BufInv'
<1> DEFINE m == w.bytes
<1>1. /\ Shape(ReadGeometry, r) /\ Shape(WriteGeometry, w) /\ Holds(r, readOut, readIn)
      /\ readIn \in Number /\ readOut \in Number /\ writeIn \in Number /\ writeOut \in Number
      /\ {eof, writeError, stateChange} \subseteq BOOLEAN
      /\ readBlocked \subseteq {"full", "user"} /\ BlockedOnlyWhenFull
  BY DEF BufInv
<1>2. ~writeError /\ m + n <= MaxPending
  BY DEF UstreamWrite
<1>3. Holds(w, writeOut, writeIn)
  BY <1>2 DEF BufInv, GivenUp
<1>4. /\ m \in Nat /\ MaxPending \in Nat /\ MaxPending < Wrap /\ Wrap \in Nat
      /\ Sized(w) /\ Contents(w) \in Seq(Number) /\ m = Len(Contents(w))
      /\ writeIn = (writeOut + m) % Wrap
  BY <1>1, <1>3, Geometries, ContentsAre DEF Holds
<1>5. writeIn \in Nat /\ writeOut \in Nat
  BY <1>1, <1>4 DEF Number
<1>6. CASE m = 0 /\ FailWrite
  <2>1. /\ r' = r /\ readBlocked' = readBlocked /\ readIn' = readIn /\ readOut' = readOut
        /\ w' = w /\ writeIn' = writeIn /\ writeOut' = writeOut
        /\ eof' = eof /\ writeError' = TRUE /\ stateChange' = TRUE
    BY <1>6 DEF FailWrite, readSide, writeSide
  <2>2. Holds(r, readOut, readIn)' /\ Holds(w, writeOut, writeIn)' /\ BlockedOnlyWhenFull'
    BY <1>1, <1>3, <2>1 DEF BlockedOnlyWhenFull
  <2>3. w'.bytes <= MaxPending
    BY <1>2, <1>4, <2>1
  <2> QED BY <1>1, <2>1, <2>2, <2>3 DEF BufInv
<1>7. ASSUME NEW k \in IF m = 0 THEN 0 .. n ELSE {0},
             Accept(Store(w, Numbered(writeIn + k, n - k)), n),
             writeOut' = (writeOut + k) % Wrap, UNCHANGED << readSide, flags >>
      PROVE  BufInv'
  <2> DEFINE f == writeIn + k
             c == n - k
             out == (writeOut + k) % Wrap
  <2>1. k \in Nat /\ k <= n
    BY <1>7
  <2>2. f \in Nat /\ c \in Nat /\ c <= n /\ n - c = k /\ m + c <= MaxPending /\ m + c < Wrap
    BY <1>2, <1>4, <1>5, <2>1
  <2>3. out \in Number /\ out \in Nat
    <3>1. out \in Number
      BY <1>1, <2>1, MovesOn
    <3> QED BY <3>1, <1>4 DEF Number
  <2>4. CASE k = 0
    <3>1. out = writeOut /\ f = writeIn
      BY <1>1, <1>5, <2>4, ModSmall
    <3>2. GoesOn(out, m, f, c)
      <4>1. GoesOn(writeOut, m + 0, writeIn + 0, c)
        <5>1. m + (0 + c) <= Wrap /\ 0 \in Nat
          BY <1>4, <2>2
        <5> HIDE DEF c, m
        <5> QED BY <1>1, <1>4, <2>2, <5>1, GoesOnFrom
      <4>2. m + 0 = m /\ writeIn + 0 = f
        BY <1>4, <1>5, <3>1
      <4> QED BY <3>1, <4>1, <4>2
    <3>3. Counted(out, m, n, c)
      <4> HIDE DEF c
      <4> SUFFICES ASSUME NEW d \in Nat, d <= c
                   PROVE  (writeIn + (n - c + d)) % Wrap = (out + (m + d)) % Wrap
        BY DEF Counted
      <4>1. n - c + d = d /\ m + d <= Wrap
        BY <1>4, <2>2, <2>4
      <4>2. (((writeOut + m) % Wrap) + d) % Wrap = (writeOut + (m + d)) % Wrap
        BY <1>1, <1>4, <4>1, ModShift
      <4> QED BY <1>4, <3>1, <4>1, <4>2
    <3>4. Follows(w, out, writeIn, f, c)
      BY <1>1, <1>3, <2>2, <2>3, <3>1, <3>2 DEF Follows
    <3> HIDE DEF f, c, out
    <3>5. Accept(Store(w, Numbered(f, c)), n) /\ writeOut' = out
      BY <1>7 DEF f, c, out
    <3> QED BY <1>7, <2>2, <3>3, <3>4, <3>5, Accept_Inv
  <2>5. CASE k # 0
    <3>1. m = 0 /\ writeIn = writeOut
      <4>1. m = 0
        BY <1>7, <2>5
      <4> QED BY <1>1, <1>4, <1>5, <4>1, ModSmall
    <3>2. Holds(w, out, out)
      <4> HIDE DEF out
      <4> QED BY <1>4, <2>3, <3>1, NothingHolds
    <3>3. GoesOn(out, m, f, c)
      <4> SUFFICES ASSUME NEW i \in 1 .. c
                   PROVE  (f + i - 1) % Wrap = (out + (m + i) - 1) % Wrap
        BY DEF GoesOn
      <4> DEFINE d == i - 1
      <4>1. d \in Nat /\ f + i - 1 = writeOut + (k + d) /\ out + (m + i) - 1 = out + d
        BY <1>5, <2>1, <2>2, <2>3, <3>1
      <4>2. k + d <= Wrap
        <5> HIDE DEF m
        <5>1. n < Wrap /\ k + c = n
          BY <1>2, <1>4, <2>1
        <5>2. d <= c
          BY <2>2
        <5> HIDE DEF c, d
        <5> QED BY <1>4, <2>1, <2>2, <4>1, <5>1, <5>2
      <4> HIDE DEF d
      <4>3. (((writeOut + k) % Wrap) + d) % Wrap = (writeOut + (k + d)) % Wrap
        BY <1>1, <2>1, <4>1, <4>2, ModShift
      <4> QED BY <4>1, <4>3
    <3>4. Counted(out, m, n, c)
      <4> SUFFICES ASSUME NEW d \in Nat, d <= c
                   PROVE  (writeIn + (n - c + d)) % Wrap = (out + (m + d)) % Wrap
        BY DEF Counted
      <4>1. n - c + d = k + d /\ k + d <= Wrap /\ m + d = d
        <5> HIDE DEF m
        <5>1. n < Wrap /\ k + c = n
          BY <1>2, <1>4, <2>1
        <5> HIDE DEF c
        <5> QED BY <1>4, <2>1, <2>2, <3>1, <5>1
      <4>2. (((writeOut + k) % Wrap) + d) % Wrap = (writeOut + (k + d)) % Wrap
        BY <1>1, <2>1, <4>1, ModShift
      <4> QED BY <3>1, <4>1, <4>2
    <3>5. Follows(w, out, out, f, c)
      BY <1>1, <2>2, <2>3, <3>2, <3>3 DEF Follows
    <3> HIDE DEF f, c, out
    <3>6. Accept(Store(w, Numbered(f, c)), n) /\ writeOut' = out
      BY <1>7 DEF f, c, out
    <3> QED BY <1>7, <2>2, <3>4, <3>5, <3>6, Accept_Inv
  <2> QED BY <2>4, <2>5
<1> QED BY <1>6, <1>7 DEF UstreamWrite

LEMMA Printf_Inv ==
  ASSUME BufInv, NEW n \in Nat, Printf(n)
  PROVE  BufInv'
<1> DEFINE m == w.bytes
           g == WriteGeometry
           out == writeOut
<1>1. /\ Shape(ReadGeometry, r) /\ Shape(g, w) /\ Holds(r, readOut, readIn)
      /\ readIn \in Number /\ readOut \in Number /\ writeIn \in Number /\ out \in Number
      /\ {eof, writeError, stateChange} \subseteq BOOLEAN
      /\ readBlocked \subseteq {"full", "user"} /\ BlockedOnlyWhenFull
  BY DEF BufInv
<1>2. ~writeError /\ m + n <= MaxPending
  BY DEF Printf
<1>3. Holds(w, out, writeIn)
  BY <1>2 DEF BufInv, GivenUp
<1>4. /\ m \in Nat /\ MaxPending \in Nat /\ MaxPending < Wrap /\ Wrap \in Nat
      /\ writeIn = (out + m) % Wrap /\ g \in Geometry
  BY <1>1, <1>3, Geometries, ContentsAre DEF Holds
<1>5. writeIn \in Nat /\ out \in Nat
  BY <1>1, <1>4 DEF Number
<1>6. PICK p : p = Prepare(g, w, 1)
  OBVIOUS
<1>7. /\ Shape(g, p.list) /\ Holds(p.list, out, writeIn) /\ p.list.bytes = m /\ p.list.tail # 0
  <2> HIDE DEF g
  <2> QED BY <1>1, <1>3, <1>4, <1>6, PreparedHolds
<1> DEFINE room == Room(g, p.list.bufs[p.list.tail])
           k == IF n < room THEN n ELSE room - 1
           q == Fill(p.list, Numbered(writeIn, k))
           c == n - k
           f == writeIn + k
<1>8. /\ writeOut' = writeOut /\ UNCHANGED << readSide, flags >>
      /\ p.ok => Accept(Store(q, Numbered(f, c)), n)
      /\ ~p.ok => w' = p.list /\ writeIn' = writeIn
  BY <1>6 DEF Printf
<1>9. CASE p.ok
  <2>1. room \in Nat /\ room > 0
    <3>1. Sized(w)
      BY <1>3 DEF Holds
    <3>2. p.list.tail \in 1 .. Len(p.list.bufs) /\ room > 0
      <4> HIDE DEF g
      <4> QED BY <1>1, <1>4, <1>6, <1>9, <3>1, PrepareKeeps
    <3>3. room \in Nat
      <4> HIDE DEF g
      <4> QED BY <1>4, <1>7, <3>2, ShapeChunks
    <3> QED BY <3>2, <3>3
  <2> HIDE DEF room
  <2>2. k \in Nat /\ k <= n /\ k \in 0 .. room
    BY <2>1
  <2>3. c \in Nat /\ c <= n /\ n - c = k /\ k + c = n /\ f \in Nat
    BY <1>5, <2>2
  <2> HIDE DEF k
  <2>4. m + k < Wrap /\ m + k + c <= MaxPending /\ m + k + c < Wrap /\ m + (k + c) <= Wrap
        /\ m + k \in Nat
    <3> HIDE DEF m
    <3>1. m + n < Wrap
      BY <1>2, <1>4
    <3> HIDE DEF c
    <3> QED BY <1>2, <1>4, <2>2, <2>3, <3>1
  <2>5. Shape(g, q) /\ Holds(q, out, (writeIn + k) % Wrap) /\ q.bytes = m + k
    <3>1. p.list.bytes + k < Wrap /\ k \in 0 .. Room(g, p.list.bufs[p.list.tail])
      BY <1>7, <2>2, <2>4 DEF room
    <3>2. q = Fill(p.list, Numbered(writeIn, k))
      OBVIOUS
    <3> HIDE DEF g, q, out
    <3>3. /\ Shape(g, q) /\ Holds(q, out, (writeIn + k) % Wrap) /\ q.bytes = p.list.bytes + k
      BY <1>1, <1>4, <1>7, <3>1, <3>2, FillHolds
    <3> QED BY <1>7, <3>3
  <2>6. GoesOn(out, m + k, f, c)
    <3> HIDE DEF m, out, c
    <3> QED BY <1>1, <1>4, <2>2, <2>3, <2>4, GoesOnFrom
  <2>7. Counted(out, m + k, n, c)
    <3> SUFFICES ASSUME NEW d \in Nat, d <= c
                 PROVE  (writeIn + (n - c + d)) % Wrap = (out + (m + k + d)) % Wrap
      BY DEF Counted
    <3> HIDE DEF m, out, c
    <3>1. n - c + d = k + d /\ k + d \in Nat /\ m + (k + d) <= Wrap /\ m + k + d = m + (k + d)
      BY <1>4, <2>2, <2>3, <2>4
    <3>2. (((out + m) % Wrap) + (k + d)) % Wrap = (out + (m + (k + d))) % Wrap
      BY <1>1, <1>4, <3>1, ModShift
    <3> QED BY <1>4, <3>1, <3>2
  <2> DEFINE in == (writeIn + k) % Wrap
  <2>8. Follows(q, out, in, f, c)
    <3> HIDE DEF q, m, c, f
    <3> QED BY <1>1, <2>3, <2>4, <2>5, <2>6 DEF Follows
  <2>9. q.bytes + c <= MaxPending /\ Counted(out, q.bytes, n, c)
    <3> HIDE DEF q, m, c
    <3> QED BY <2>4, <2>5, <2>7
  <2>10. Accept(Store(q, Numbered(f, c)), n) /\ writeOut' = out
    BY <1>8, <1>9
  <2> HIDE DEF q, m, c, f, out, in
  <2> QED BY <1>8, <2>3, <2>8, <2>9, <2>10, Accept_Inv
<1>10. CASE ~p.ok
  <2>1. /\ r' = r /\ readBlocked' = readBlocked /\ readIn' = readIn /\ readOut' = readOut
        /\ w' = p.list /\ writeIn' = writeIn /\ writeOut' = writeOut
        /\ eof' = eof /\ writeError' = writeError /\ stateChange' = stateChange
    BY <1>8, <1>10 DEF readSide, flags
  <2>2. /\ Holds(r, readOut, readIn)' /\ Holds(w, writeOut, writeIn)' /\ BlockedOnlyWhenFull'
        /\ Shape(WriteGeometry, w)' /\ Shape(ReadGeometry, r)'
    BY <1>1, <1>7, <2>1 DEF BlockedOnlyWhenFull
  <2>3. w'.bytes <= MaxPending
    <3>1. w'.bytes = m
      BY <1>7, <2>1
    <3> HIDE DEF m
    <3> QED BY <1>2, <1>4, <3>1
  <2> QED BY <1>1, <2>1, <2>2, <2>3 DEF BufInv
<1> QED BY <1>9, <1>10

LEMMA WritePending_Inv ==
  ASSUME BufInv, WritePending
  PROVE  BufInv'
<1> DEFINE m == w.bytes
           g == WriteGeometry
<1>1. /\ Shape(ReadGeometry, r) /\ Shape(g, w) /\ Holds(r, readOut, readIn)
      /\ readIn \in Number /\ readOut \in Number /\ writeIn \in Number /\ writeOut \in Number
      /\ {eof, writeError, stateChange} \subseteq BOOLEAN
      /\ readBlocked \subseteq {"full", "user"} /\ BlockedOnlyWhenFull
  BY DEF BufInv
<1>2. ~writeError
  BY DEF WritePending
<1>3. Holds(w, writeOut, writeIn) /\ m <= MaxPending
  BY <1>2 DEF BufInv, GivenUp
<1>4. m \in Nat /\ g \in Geometry /\ m = Len(Leading(w)) /\ MaxPending \in Nat
  <2>1. Leading(w) = Contents(w)
    BY <1>1, Geometries, SolidLeads DEF DataAtHead
  <2> QED BY <1>1, <1>3, <2>1, Geometries, ContentsAre DEF Holds
<1>5. PICK n \in 0 .. Len(Leading(w)), fails \in BOOLEAN :
        /\ w' = Take(g, w, n) /\ writeOut' = (writeOut + n) % Wrap
        /\ writeError' = fails
        /\ stateChange' = (stateChange \/ fails \/ (eof /\ n > 0 /\ n = w.bytes))
  BY DEF WritePending
<1>6. /\ r' = r /\ readBlocked' = readBlocked /\ readIn' = readIn /\ readOut' = readOut
      /\ writeIn' = writeIn /\ eof' = eof
  BY DEF WritePending, readSide
<1>7. n \in 0 .. m /\ n \in Nat
  BY <1>4, <1>5
<1>8. PICK q : q = Take(g, w, n)
  OBVIOUS
<1>9. Shape(g, q) /\ Holds(q, (writeOut + n) % Wrap, writeIn) /\ q.bytes = m - n
  <2> HIDE DEF g
  <2> QED BY <1>1, <1>3, <1>4, <1>7, <1>8, TakeHolds
<1>10. Shape(WriteGeometry, w)' /\ Holds(w, writeOut, writeIn)' /\ writeOut' \in Number
  BY <1>1, <1>5, <1>6, <1>7, <1>8, <1>9, MovesOn
<1>11. w'.bytes <= MaxPending
  <2>1. w'.bytes = m - n
    BY <1>5, <1>8, <1>9
  <2> HIDE DEF m
  <2> QED BY <1>3, <1>4, <1>7, <2>1
<1>12. /\ Shape(ReadGeometry, r)' /\ Holds(r, readOut, readIn)' /\ BlockedOnlyWhenFull'
  BY <1>1, <1>6 DEF BlockedOnlyWhenFull
<1>13. writeError' \in BOOLEAN /\ stateChange' \in BOOLEAN
  BY <1>5
<1> QED BY <1>1, <1>6, <1>10, <1>11, <1>12, <1>13 DEF BufInv

\* A list given up keeps the shape of one.
LEMMA GivenUpShape ==
  ASSUME NEW g \in Geometry, NEW l, Shape(g, l), NEW q, q = [l EXCEPT !.bufs = << >>, !.tail = 0]
  PROVE  Shape(g, q) /\ q.bufs = << >>
<1>1. l \in List
  BY DEF Shape
<1>2. q \in List /\ q.bufs = << >> /\ q.tail = 0
  <2>1. l = [bufs |-> l.bufs, tail |-> l.tail, bytes |-> l.bytes, buffers |-> l.buffers]
        /\ l.bytes \in Int /\ l.buffers \in Int
    BY <1>1 DEF List
  <2>2. q = [bufs |-> << >>, tail |-> 0, bytes |-> l.bytes, buffers |-> l.buffers]
    BY <2>1
  <2>3. << >> \in Seq(Chunk) /\ 0 \in Nat
    OBVIOUS
  <2> QED BY <2>1, <2>2, <2>3 DEF List
<1>3. Len(q.bufs) = 0 /\ (g.max > 0 => 0 <= g.max)
  BY <1>2 DEF Geometry
<1>4. \A i \in 1 .. 0 : FALSE
  OBVIOUS
<1> QED BY <1>2, <1>3, <1>4 DEF Shape

LEMMA StateChangeCb_Inv ==
  ASSUME BufInv, StateChangeCb
  PROVE  BufInv'
<1>1. /\ Shape(ReadGeometry, r) /\ Shape(WriteGeometry, w) /\ Holds(r, readOut, readIn)
      /\ {readIn, readOut, writeIn, writeOut} \subseteq Number
      /\ {eof, writeError, stateChange} \subseteq BOOLEAN
      /\ readBlocked \subseteq {"full", "user"} /\ BlockedOnlyWhenFull
      /\ GivenUp \/ (Holds(w, writeOut, writeIn) /\ w.bytes <= MaxPending)
  BY DEF BufInv
<1>2. /\ r' = r /\ readBlocked' = readBlocked /\ readIn' = readIn /\ readOut' = readOut
      /\ writeIn' = writeIn /\ writeOut' = writeOut /\ eof' = eof /\ writeError' = writeError
      /\ stateChange' = FALSE
      /\ w' = IF writeError THEN [w EXCEPT !.bufs = << >>, !.tail = 0] ELSE w
  BY DEF StateChangeCb, readSide
<1>3. BlockedOnlyWhenFull' /\ Holds(r, readOut, readIn)' /\ Shape(ReadGeometry, r)'
  BY <1>1, <1>2 DEF BlockedOnlyWhenFull
<1>4. Shape(WriteGeometry, w)' /\ (GivenUp' \/ (Holds(w, writeOut, writeIn)' /\ w'.bytes <= MaxPending))
  <2>1. CASE writeError
    <3>1. PICK q : q = [w EXCEPT !.bufs = << >>, !.tail = 0]
      OBVIOUS
    <3>2. Shape(WriteGeometry, q) /\ q.bufs = << >>
      BY <1>1, <3>1, Geometries, GivenUpShape
    <3>3. w' = q
      BY <1>2, <2>1, <3>1
    <3> QED BY <1>2, <2>1, <3>2, <3>3 DEF GivenUp
  <2>2. CASE ~writeError
    <3>1. w' = w /\ Holds(w, writeOut, writeIn) /\ w.bytes <= MaxPending
      BY <1>1, <1>2, <2>2 DEF GivenUp
    <3> QED BY <1>1, <1>2, <3>1
  <2> QED BY <2>1, <2>2
<1> QED BY <1>1, <1>2, <1>3, <1>4 DEF BufInv

LEMMA BufNext_Inv == BufInv /\ [BufNext]_bufVars => BufInv'
<1> SUFFICES ASSUME BufInv, [BufNext]_bufVars PROVE BufInv'
  OBVIOUS
<1>1. ASSUME ReadPending PROVE BufInv'
  BY <1>1, ReadPending_Inv
<1>2. ASSUME NEW n \in 1 .. ReadMax * ReadLen, Consume(n) PROVE BufInv'
  <2>1. n \in Nat
    OBVIOUS
  <2> QED BY <1>2, <2>1, ConsumeBytes_Inv DEF Consume
<1>3. ASSUME NEW n \in 1 .. ReadMax * ReadLen, ReadInto(n) PROVE BufInv'
  <2>1. n \in Nat
    OBVIOUS
  <2> QED BY <1>3, <2>1, ReadInto_Inv
<1>4. ASSUME SetReadBlocked PROVE BufInv'
  <2>1. /\ r' = r /\ readIn' = readIn /\ readOut' = readOut
        /\ w' = w /\ writeIn' = writeIn /\ writeOut' = writeOut
        /\ eof' = eof /\ writeError' = writeError /\ stateChange' = stateChange
    BY <1>4 DEF SetReadBlocked, writeSide, flags
  <2>2. /\ readBlocked' \subseteq readBlocked \cup {"user"}
        /\ readBlocked' \subseteq {"full", "user"}
    BY <1>4 DEF SetReadBlocked, BufInv
  <2>3. BlockedOnlyWhenFull'
    BY <2>1, <2>2 DEF BufInv, BlockedOnlyWhenFull
  <2> QED BY <2>1, <2>2, <2>3 DEF BufInv, GivenUp
<1>5. ASSUME Eof PROVE BufInv'
  <2>1. /\ r' = r /\ readBlocked' = readBlocked /\ readIn' = readIn /\ readOut' = readOut
        /\ w' = w /\ writeIn' = writeIn /\ writeOut' = writeOut
        /\ eof' = TRUE /\ writeError' = writeError /\ stateChange' = TRUE
    BY <1>5 DEF Eof, readSide, writeSide
  <2> QED BY <2>1 DEF BufInv, BlockedOnlyWhenFull, GivenUp
<1>6. ASSUME NEW n \in 1 .. MaxWrite, UstreamWrite(n) PROVE BufInv'
  <2>1. n \in Nat
    OBVIOUS
  <2> QED BY <1>6, <2>1, UstreamWrite_Inv
<1>7. ASSUME NEW n \in 1 .. MaxWrite, Printf(n) PROVE BufInv'
  <2>1. n \in Nat
    OBVIOUS
  <2> QED BY <1>7, <2>1, Printf_Inv
<1>8. ASSUME WritePending PROVE BufInv'
  BY <1>8, WritePending_Inv
<1>9. ASSUME StateChangeCb PROVE BufInv'
  BY <1>9, StateChangeCb_Inv
<1>10. ASSUME InitDefaults PROVE BufInv'
  <2>1. BufInit => BufInv
    BY BufInit_Inv
  <2>2. /\ Shape(ReadGeometry, EmptyList) /\ Shape(WriteGeometry, EmptyList)
        /\ Holds(EmptyList, 0, 0) /\ EmptyList.bytes = 0
    BY Geometries, EmptyHolds
  <2>3. 0 \in Number /\ 0 <= MaxPending
    BY UstreamBufAssumption DEF Number
  <2> QED BY <1>10, <2>2, <2>3 DEF InitDefaults, BufInv, BlockedOnlyWhenFull
<1>11. ASSUME UNCHANGED bufVars PROVE BufInv'
  BY <1>11 DEF bufVars, readSide, writeSide, flags, BufInv, BlockedOnlyWhenFull, GivenUp
<1> QED BY <1>1, <1>2, <1>3, <1>4, <1>5, <1>6, <1>7, <1>8, <1>9, <1>10, <1>11 DEF BufNext

-----------------------------------------------------------------------------
(* What the invariant says of the chunked buffers                          *)

LEMMA ShapeListOK ==
  ASSUME NEW g \in Geometry, NEW l, Shape(g, l)
  PROVE  ListOK(g, l)
<1> DEFINE n == Len(l.bufs)
<1>1. /\ n \in Nat /\ DOMAIN l.bufs = 1 .. n /\ l.bufs \in Seq(Chunk) /\ g.len \in Nat
      /\ l.tail \in 0 .. n /\ (l.tail = 0 <=> n = 0) /\ (g.max > 0 => n <= g.max)
      /\ \A i \in 1 .. n : l.bufs[i].off + Len(l.bufs[i].data) <= g.len
  BY ShapeChunks DEF Shape, Geometry
<1>2. l.bufs = << >> <=> n = 0
  BY <1>1, EmptySeq
<1>3. ASSUME NEW i \in 1 .. n
      PROVE  /\ l.bufs[i].off \in 0 .. g.len
             /\ l.bufs[i].data \in Seq(0 .. Wrap - 1)
             /\ Room(g, l.bufs[i]) >= 0
  <2> DEFINE x == l.bufs[i].off
             y == Len(l.bufs[i].data)
             c == g.len
  <2>1. x \in Nat /\ y \in Nat /\ l.bufs[i].data \in Seq(Number)
    BY ShapeChunks
  <2>2. x + y <= c /\ c \in Nat
    BY <1>1
  <2>3. Room(g, l.bufs[i]) = c - x - y
    BY DEF Room
  <2> HIDE DEF x, y, c
  <2>4. x \in 0 .. c /\ c - x - y >= 0
    BY <2>1, <2>2
  <2> QED BY <2>1, <2>3, <2>4 DEF Number, x, c
<1> HIDE DEF n
<1>4. DOMAIN l.bufs = 1 .. n /\ (l.tail = 0 <=> l.bufs = << >>)
  BY <1>1, <1>2
<1> QED BY <1>1, <1>3, <1>4 DEF ListOK, n

LEMMA HoldsInOrder ==
  ASSUME NEW g \in Geometry, NEW l, Shape(g, l), NEW out \in Number, NEW in \in Number,
         Holds(l, out, in)
  PROVE  Contents(l) = Numbered(out, (in - out) % Wrap)
<1> DEFINE m == l.bytes
<1>1. m \in Nat /\ m < Wrap /\ in = (out + m) % Wrap /\ Contents(l) = Numbered(out, m)
  BY ContentsAre DEF Holds
<1>2. Wrap \in Nat \ {0} /\ out \in Nat /\ out < Wrap /\ m \in Number
  BY <1>1, UstreamBufAssumption DEF Number
<1> HIDE DEF m
<1>3. (in - out) % Wrap = m
  <2>1. CASE out + m < Wrap
    <3>1. out + m \in Number
      BY <1>1, <1>2, <2>1 DEF Number
    <3>2. in = out + m
      BY <1>1, <3>1, ModSmall
    <3>3. in - out = m
      BY <1>1, <1>2, <3>2
    <3> QED BY <1>2, <3>3, ModSmall
  <2>2. CASE ~(out + m < Wrap)
    <3> DEFINE x == (out + m) - Wrap
    <3>1. x \in Number /\ x + Wrap = out + m
      BY <1>1, <1>2, <2>2 DEF Number
    <3>2. in = x
      BY <1>1, <3>1, ModSmall
    <3>3. in - out = m - Wrap
      BY <1>1, <1>2, <3>2
    <3> QED BY <1>2, <3>3, ModSmall
  <2> QED BY <2>1, <2>2
<1> QED BY <1>1, <1>3

LEMMA BufInvTypeOK == BufInv => BufTypeOK
<1> SUFFICES ASSUME BufInv PROVE BufTypeOK
  OBVIOUS
<1>1. ListOK(ReadGeometry, r) /\ ListOK(WriteGeometry, w)
  BY Geometries, ShapeListOK DEF BufInv
<1>2. /\ r.buffers = Len(r.bufs) /\ r.bytes = Len(Contents(r))
      /\ ~GivenUp => w.buffers = Len(w.bufs) /\ w.bytes = Len(Contents(w))
  BY DEF BufInv, Holds, Sized
<1> QED BY <1>1, <1>2 DEF BufTypeOK, BufInv, Number

LEMMA BufInvInOrder == BufInv => InOrder
<1> SUFFICES ASSUME BufInv PROVE InOrder
  OBVIOUS
<1>1. DataAtHead(r) /\ DataAtHead(w)
  BY Geometries, SolidLeads DEF BufInv
<1>2. /\ Shape(ReadGeometry, r) /\ Shape(WriteGeometry, w)
      /\ readIn \in Number /\ readOut \in Number /\ writeIn \in Number /\ writeOut \in Number
      /\ Holds(r, readOut, readIn) /\ (~GivenUp => Holds(w, writeOut, writeIn))
  BY DEF BufInv
<1>3. Contents(r) = Numbered(readOut, (readIn - readOut) % Wrap)
  BY <1>2, Geometries, HoldsInOrder
<1>4. ~GivenUp => Contents(w) = Numbered(writeOut, (writeIn - writeOut) % Wrap)
  BY <1>2, Geometries, HoldsInOrder
<1> QED BY <1>1, <1>3, <1>4 DEF InOrder

LEMMA BufInvHolds == BufSpec => []BufInv
<1>1. BufInit => BufInv
  BY BufInit_Inv
<1>2. BufInv /\ [BufNext]_bufVars => BufInv'
  BY BufNext_Inv
<1> QED BY <1>1, <1>2, PTL DEF BufSpec

\* Every chunk stays within its size, data_tail is one of them, no list grows
\* beyond max_buffers, and data_bytes and buffers are what they count.
THEOREM BufTypeCorrect == BufSpec => []BufTypeOK
<1>1. BufInv => BufTypeOK
  BY BufInvTypeOK
<1> QED BY <1>1, BufInvHolds, PTL

\* However the chunks are recycled, squeezed, allocated and skipped, for any
\* sizes: no byte is lost, doubled or passed by another, and none is where the
\* loops do not look.
THEOREM BytesInOrder == BufSpec => []InOrder
<1>1. BufInv => InOrder
  BY BufInvInOrder
<1> QED BY <1>1, BufInvHolds, PTL

\* A stream is blocked for want of room only while the client has bytes to
\* consume that make some.
THEOREM BlockedWhenFull == BufSpec => []BlockedOnlyWhenFull
<1>1. BufInv => BlockedOnlyWhenFull
  BY DEF BufInv
<1> QED BY <1>1, BufInvHolds, PTL
=============================================================================
