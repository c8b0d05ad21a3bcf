----------------------------- MODULE Kiss_proofs -----------------------------
(***************************************************************************)
(* KISS frames.  The decoder of the daemon against any sequence of frames, *)
(* any size of its buffer and any receive timer: its types, its timer, how *)
(* it gets back into step with the line, and that what it reads in step    *)
(* arrives intact.  Then tnc_config.c: what its own decoder makes of the   *)
(* beginning of a frame, and from that its types, that it takes no other   *)
(* parameters than the TNC's, and that a healthy exchange succeeds.        *)
(***************************************************************************)
EXTENDS KissCodec, TncConfig, Lemmas

-----------------------------------------------------------------------------
(* Sums and escapes                                                        *)

LEMMA ByteFacts ==
  /\ \A x \in Byte : x \in Nat /\ x <= 255
  /\ \A x \in Nat : x % 256 \in Byte
  /\ 0 \in Byte
BY DEF Byte

\* s[k] is the sum of the first k bytes of b.
SumsUp(b, s) ==
  /\ s[0] = 0 /\ \A k \in 1 .. Len(b) : s[k] = (s[k - 1] + b[k]) % 256
  /\ \A k \in 0 .. Len(b) : s[k] \in Byte

LEMMA Sum8Sums ==
  ASSUME NEW b \in Seq(Byte)
  PROVE  SumsUp(b, Sum8(b))
<1> DEFINE n == Len(b)
           Is(f) == f = [k \in 0 .. n |-> IF k = 0 THEN 0 ELSE (f[k - 1] + b[k]) % 256]
           s == CHOOSE f : Is(f)
<1>1. n \in Nat /\ \A k \in 1 .. n : b[k] \in Byte
  BY LenProperties, ElementOfSeq
<1>2. \E f : Is(f)
  <2> DEFINE turn == [k \in 1 .. n |-> [x \in Byte |-> (x + b[k]) % 256]]
  <2>1. \A k \in 1 .. n : \A x \in Byte : turn[k][x] = (x + b[k]) % 256
    OBVIOUS
  <2> HIDE DEF turn, n
  <2>2. ASSUME NEW k \in 1 .. n, NEW x \in Byte PROVE turn[k][x] \in Byte
    <3>1. x + b[k] \in Nat
      BY <1>1, ByteFacts
    <3> QED BY <2>1, <3>1, ByteFacts, SMTT(30)
  <2>3. 0 \in Byte
    BY ByteFacts
  <2>4. PICK f : f \in LoopRuns(Byte, n, 0, turn)
    BY <1>1, <2>2, <2>3, LoopExists
  <2>5. f \in [0 .. n -> Byte] /\ f[0] = 0 /\ \A k \in 1 .. n : f[k] = turn[k][f[k - 1]]
    BY <2>4 DEF LoopRuns
  <2>6. ASSUME NEW k \in 1 .. n PROVE f[k] = (f[k - 1] + b[k]) % 256
    <3>1. k - 1 \in 0 .. n
      BY <1>1
    <3>2. f[k - 1] \in Byte
      BY <2>5, <3>1
    <3> QED BY <2>1, <2>5, <3>2
  <2>7. f = [k \in 0 .. n |-> IF k = 0 THEN 0 ELSE (f[k - 1] + b[k]) % 256]
    <3>1. f = [k \in 0 .. n |-> f[k]]
      BY <2>5
    <3>2. \A k \in 0 .. n : k = 0 \/ k \in 1 .. n
      BY <1>1
    <3>3. \A k \in 0 .. n : f[k] = IF k = 0 THEN 0 ELSE (f[k - 1] + b[k]) % 256
      BY <2>5, <2>6, <3>2
    <3> QED BY <3>1, <3>3
  <2> QED BY <2>7
<1>3. Is(s)
  <2> HIDE DEF Is
  <2> QED BY <1>2
<1>4. Sum8(b) = s
  BY DEF Sum8
<1> HIDE DEF s, n
<1>5. \A k \in 0 .. n : s[k] = IF k = 0 THEN 0 ELSE (s[k - 1] + b[k]) % 256
  BY <1>3
<1>6. 0 \in 0 .. n /\ \A k \in 1 .. n : k \in 0 .. n /\ k # 0
  BY <1>1
<1>7. s[0] = 0 /\ \A k \in 1 .. n : s[k] = (s[k - 1] + b[k]) % 256
  BY <1>5, <1>6
<1> DEFINE G == {k \in 0 .. n : s[k] \in Byte}
<1>8. \A k \in 0 .. n : k \in G
  <2>1. 0 \in Int /\ n \in Int /\ (0 <= n => 0 \in G)
    BY <1>1, <1>6, <1>7 DEF Byte
  <2>2. ASSUME NEW k \in 0 .. n - 1, k \in G PROVE k + 1 \in G
    <3>1. k + 1 \in 1 .. n /\ (k + 1) - 1 = k /\ k + 1 \in 0 .. n
      BY <1>1
    <3>2. s[k + 1] = (s[k] + b[k + 1]) % 256
      BY <1>7, <3>1
    <3>3. s[k] \in Byte /\ b[k + 1] \in Byte
      BY <1>1, <2>2, <3>1
    <3>4. s[k] + b[k + 1] \in Nat
      BY <3>3, ByteFacts
    <3>5. s[k + 1] \in Byte
      BY <3>2, <3>4, ByteFacts
    <3> QED BY <3>1, <3>5
  <2> HIDE DEF G
  <2>3. \A k \in 0 .. n - 1 : k \in G => k + 1 \in G
    BY <2>2
  <2> QED BY ONLY <2>1, <2>3, InductionUpTo
<1> QED BY <1>4, <1>7, <1>8 DEF SumsUp, n

\* The last byte of a control frame makes its sum 255, if it is right.
LEMMA BodySum ==
  ASSUME NEW f \in Frames
  PROVE  /\ Body(f) \in Seq(Byte) /\ (f.cmd = 0 => Body(f) = f.payload)
         /\ f.cmd # 0 => (Sum8(Body(f))[Len(Body(f))] = 255 <=> f.crcOk)
<1> DEFINE p == f.payload
           n == Len(p)
           s == Sum8(p)
           c == IF f.crcOk THEN CalcCrc(p) ELSE (CalcCrc(p) + 1) % 256
           b == Append(p, c)
           t == Sum8(b)
<1>1. p \in Seq(Byte) /\ n \in Nat /\ f.crcOk \in BOOLEAN
  <2>1. p \in Seq(Byte) /\ f.crcOk \in BOOLEAN
    BY KissAssumption
  <2> QED BY <2>1, LenProperties
<1>2. SumsUp(p, s)
  BY <1>1, Sum8Sums
<1>3. CalcCrc(p) = 255 - s[n] /\ s[n] \in 0 .. 255
  <2>1. n \in 0 .. n
    BY <1>1
  <2> QED BY <1>2, <2>1 DEF SumsUp, CalcCrc, Byte
<1>4. c \in Byte /\ ((s[n] + c) % 256 = 255 <=> f.crcOk)
  <2> HIDE DEF s, n, p
  <2>1. CASE f.crcOk
    BY <1>3, <2>1 DEF Byte
  <2>2. CASE ~f.crcOk
    <3>1. c = (256 - s[n]) % 256
      BY <1>3, <2>2
    <3> QED BY <1>3, <2>2, <3>1 DEF Byte
  <2> QED BY <2>1, <2>2
<1> HIDE DEF c
<1>5. /\ b \in Seq(Byte) /\ Len(b) = n + 1 /\ b[n + 1] = c
      /\ \A i \in 1 .. n : b[i] = p[i]
  BY <1>1, <1>4, AppendProperties
<1>6. SumsUp(b, t)
  BY <1>5, Sum8Sums
<1> HIDE DEF p, n, s, b, t
<1>7. t[n] = s[n]
  <2> DEFINE G == {k \in 0 .. n : t[k] = s[k]}
  <2>1. 0 \in Int /\ n \in Int /\ (0 <= n => 0 \in G)
    BY <1>1, <1>2, <1>6 DEF SumsUp
  <2>2. ASSUME NEW k \in 0 .. n - 1, k \in G PROVE k + 1 \in G
    <3>1. k + 1 \in 1 .. n /\ (k + 1) - 1 = k /\ k + 1 \in 0 .. n /\ k + 1 \in 1 .. n + 1
      BY <1>1
    <3>2. s[k + 1] = (s[k] + p[k + 1]) % 256
      BY <1>2, <3>1 DEF SumsUp, n
    <3>3. t[k + 1] = (t[k] + b[k + 1]) % 256
      BY <1>5, <1>6, <3>1 DEF SumsUp
    <3>4. b[k + 1] = p[k + 1]
      BY <1>5, <3>1
    <3>5. t[k] = s[k]
      BY <2>2
    <3> QED BY <3>1, <3>2, <3>3, <3>4, <3>5
  <2> HIDE DEF G
  <2>3. \A k \in 0 .. n - 1 : k \in G => k + 1 \in G
    BY <2>2
  <2>4. \A k \in 0 .. n : k \in G
    BY ONLY <2>1, <2>3, InductionUpTo
  <2>5. n \in 0 .. n
    BY <1>1
  <2> QED BY <2>4, <2>5 DEF G
<1>8. t[n + 1] = (s[n] + c) % 256
  <2>1. n + 1 \in 1 .. n + 1 /\ (n + 1) - 1 = n
    BY <1>1
  <2> QED BY <1>5, <1>6, <1>7, <2>1 DEF SumsUp
<1>9. CASE f.cmd = 0
  BY <1>1, <1>9 DEF Body, p
<1>10. CASE f.cmd # 0
  <2>1. Body(f) = b
    BY <1>10 DEF Body, b, c, p
  <2> QED BY <1>4, <1>5, <1>8, <1>10, <2>1 DEF t
<1> QED BY <1>9, <1>10

LEMMA EscapedByte ==
  ASSUME NEW c \in Byte
  PROVE  /\ Escaped(c) \in Seq(Byte \ {FEND}) /\ Len(Escaped(c)) \in 1 .. 2
         /\ c = FEND => Len(Escaped(c)) = 2 /\ Escaped(c)[1] = FESC /\ Escaped(c)[2] = TFEND
         /\ c = FESC => Len(Escaped(c)) = 2 /\ Escaped(c)[1] = FESC /\ Escaped(c)[2] = TFESC
         /\ c \notin {FEND, FESC} => Len(Escaped(c)) = 1 /\ Escaped(c)[1] = c
<1>1. CASE c = FEND
  <2>1. Escaped(c) = << FESC, TFEND >>
    BY <1>1 DEF Escaped, FEND, FESC
  <2>2. FESC \in Byte \ {FEND} /\ TFEND \in Byte \ {FEND} /\ FEND # FESC
    BY DEF Byte, FESC, TFEND, FEND
  <2> QED BY <1>1, <2>1, <2>2
<1>2. CASE c = FESC
  <2>1. FESC \in Byte \ {FEND} /\ TFESC \in Byte \ {FEND} /\ FEND # FESC
    BY DEF Byte, FESC, TFESC, FEND
  <2>2. Escaped(c) = << FESC, TFESC >>
    BY <1>2, <2>1 DEF Escaped
  <2> QED BY <1>2, <2>1, <2>2
<1>3. CASE c \notin {FEND, FESC}
  <2>1. Escaped(c) = << c >>
    BY <1>3 DEF Escaped
  <2>2. c \in Byte \ {FEND}
    BY <1>3
  <2> QED BY <1>3, <2>1, <2>2
<1> QED BY <1>1, <1>2, <1>3

\* z[k] bytes are on the line for the first k of b.
Stuffs(b, z) ==
  /\ z[0] = 0
  /\ \A k \in 1 .. Len(b) : z[k] = z[k - 1] + Len(Escaped(b[k]))
  /\ \A k \in 0 .. Len(b) : z[k] \in Nat /\ z[k] >= k

LEMMA StuffedStuffs ==
  ASSUME NEW b \in Seq(Byte)
  PROVE  Stuffs(b, Stuffed(b))
<1> DEFINE n == Len(b)
           l(k) == Len(Escaped(b[k]))
           Is(f) == f = [k \in 0 .. n |-> IF k = 0 THEN 0 ELSE f[k - 1] + l(k)]
           z == CHOOSE f : Is(f)
<1>1. n \in Nat /\ \A k \in 1 .. n : l(k) \in Nat /\ l(k) >= 1
  <2>1. ASSUME NEW k \in 1 .. n PROVE l(k) \in Nat /\ l(k) >= 1
    <3>1. b[k] \in Byte
      BY ElementOfSeq
    <3>2. l(k) \in 1 .. 2
      BY <3>1, EscapedByte
    <3> HIDE DEF l
    <3> QED BY <3>2
  <2> QED BY <2>1, LenProperties
<1>2. \E f : Is(f)
  <2> DEFINE turn == [k \in 1 .. n |-> [x \in Nat |-> x + l(k)]]
  <2>1. \A k \in 1 .. n : \A x \in Nat : turn[k][x] = x + l(k)
    OBVIOUS
  <2> HIDE DEF turn, n, l
  <2>2. \A k \in 1 .. n : \A x \in Nat : turn[k][x] \in Nat
    BY <1>1, <2>1, SMTT(30)
  <2>3. 0 \in Nat
    OBVIOUS
  <2>4. PICK f : f \in LoopRuns(Nat, n, 0, turn)
    BY <1>1, <2>2, <2>3, LoopExists
  <2>5. f \in [0 .. n -> Nat] /\ f[0] = 0 /\ \A k \in 1 .. n : f[k] = turn[k][f[k - 1]]
    BY <2>4 DEF LoopRuns
  <2>6. ASSUME NEW k \in 1 .. n PROVE f[k] = f[k - 1] + l(k)
    <3>1. k - 1 \in 0 .. n
      BY <1>1
    <3>2. f[k - 1] \in Nat
      BY <2>5, <3>1
    <3> QED BY <2>1, <2>5, <3>2
  <2>7. f = [k \in 0 .. n |-> IF k = 0 THEN 0 ELSE f[k - 1] + l(k)]
    BY <2>5, <2>6
  <2> QED BY <2>7
<1>3. Is(z)
  <2> HIDE DEF Is
  <2> QED BY <1>2
<1>4. Stuffed(b) = z
  BY DEF Stuffed
<1> HIDE DEF z, n, l
<1>5. \A k \in 0 .. n : z[k] = IF k = 0 THEN 0 ELSE z[k - 1] + l(k)
  BY <1>3
<1>6. 0 \in 0 .. n /\ \A k \in 1 .. n : k \in 0 .. n /\ k # 0
  BY <1>1
<1>7. z[0] = 0 /\ \A k \in 1 .. n : z[k] = z[k - 1] + l(k)
  BY <1>5, <1>6
<1> DEFINE G == {k \in 0 .. n : z[k] \in Nat /\ z[k] >= k}
<1>8. \A k \in 0 .. n : k \in G
  <2>1. 0 \in Int /\ n \in Int /\ (0 <= n => 0 \in G)
    BY <1>1, <1>6, <1>7
  <2>2. ASSUME NEW k \in 0 .. n - 1, k \in G PROVE k + 1 \in G
    <3>1. k + 1 \in 1 .. n /\ (k + 1) - 1 = k /\ k + 1 \in 0 .. n
      BY <1>1
    <3>2. z[k + 1] = z[k] + l(k + 1) /\ l(k + 1) \in Nat /\ l(k + 1) >= 1
      BY <1>1, <1>7, <3>1
    <3>3. z[k] \in Nat /\ z[k] >= k
      BY <2>2
    <3> QED BY <3>1, <3>2, <3>3
  <2> HIDE DEF G
  <2>3. \A k \in 0 .. n - 1 : k \in G => k + 1 \in G
    BY <2>2
  <2> QED BY ONLY <2>1, <2>3, InductionUpTo
<1> QED BY <1>4, <1>7, <1>8 DEF Stuffs, n, l

\* e holds the escaped bytes of b, each where z says.
Laid(b, z, e) ==
  /\ e \in Seq(Byte \ {FEND}) /\ Len(e) = z[Len(b)]
  /\ \A k \in 1 .. Len(b) : /\ z[k] <= Len(e)
                            /\ \A i \in 1 .. Len(Escaped(b[k])) : e[z[k - 1] + i] = Escaped(b[k])[i]

LEMMA EncodeLaid ==
  ASSUME NEW b \in Seq(Byte), NEW z, Stuffs(b, z)
  PROVE  Laid(b, z, EncodeAppend(b))
<1> DEFINE n == Len(b)
           S == Byte \ {FEND}
           seqs == [i \in DOMAIN b |-> Escaped(b[i])]
           e == EncodeAppend(b)
<1>1. n \in Nat /\ \A k \in 1 .. n : b[k] \in Byte
  BY LenProperties, ElementOfSeq
<1>2. \A k \in 1 .. n : Escaped(b[k]) \in Seq(S)
  BY <1>1, EscapedByte
<1>3. /\ seqs \in Seq(Seq(S)) /\ Len(seqs) = n
      /\ \A k \in 1 .. n : seqs[k] = Escaped(b[k]) /\ seqs[k] \in Seq(S)
  <2>1. DOMAIN b = 1 .. n
    OBVIOUS
  <2>2. seqs \in [1 .. n -> Seq(S)]
    BY <1>2, <2>1
  <2>3. \A k \in 1 .. n : seqs[k] = Escaped(b[k])
    BY <2>1
  <2> HIDE DEF seqs, S, n
  <2>4. seqs \in Seq(Seq(S)) /\ Len(seqs) = n
    BY <1>1, <2>2
  <2> QED BY <2>2, <2>3, <2>4
<1>4. e = FlattenSeq(seqs)
  BY DEF EncodeAppend
<1>5. \A k \in 1 .. n : z[k] = z[k - 1] + Len(seqs[k])
  BY <1>3 DEF Stuffs
<1>6. /\ z[0] = 0
      /\ \A k \in 0 .. n : z[k] \in Nat
  BY DEF Stuffs
<1> HIDE DEF S, seqs, e, n
<1>7. e \in Seq(S)
  BY <1>3, <1>4, FlattenType
<1>8. CASE n = 0
  <2>1. seqs = << >>
    BY <1>3, <1>8, EmptySeq
  <2>2. e = << >>
    BY <1>4, <2>1, FlattenEmpty
  <2>3. Len(e) = 0
    BY <2>2, EmptySeq
  <2>4. Len(e) = z[n] /\ \A k \in 1 .. n : FALSE
    BY <1>6, <1>8, <2>3
  <2> QED BY <1>7, <2>4 DEF Laid, n, S, e
<1>9. CASE n # 0
  <2>1. PICK f \in [1 .. n -> Seq(S)] :
          f[1] = seqs[1] /\ (\A i \in 2 .. n : f[i] = f[i - 1] \o seqs[i]) /\ e = f[n]
    BY <1>3, <1>4, <1>9, FlattenLoop
  <2> DEFINE Holds(k) ==
               /\ Len(f[k]) = z[k]
               /\ \A j \in 1 .. k : /\ z[j] <= z[k]
                                    /\ \A i \in 1 .. Len(seqs[j]) : f[k][z[j - 1] + i] = seqs[j][i]
             G == {k \in 1 .. n : Holds(k)}
  <2>2. 1 <= n => 1 \in G
    <3> SUFFICES ASSUME 1 <= n PROVE 1 \in G
      OBVIOUS
    <3>1. 1 \in 1 .. n /\ 1 - 1 = 0 /\ 1 \in 0 .. n
      BY <1>1
    <3>2. Len(seqs[1]) \in Nat
      BY <1>3, <3>1, LenProperties
    <3>3. z[1] = Len(seqs[1]) /\ z[1] \in Nat
      BY <1>5, <1>6, <3>1, <3>2
    <3>4. \A i \in 1 .. Len(seqs[1]) : z[1 - 1] + i = i
      BY <1>6
    <3>5. \A j \in 1 .. 1 : j = 1
      OBVIOUS
    <3>6. Holds(1)
      BY <2>1, <3>3, <3>4, <3>5
    <3> QED BY <3>1, <3>6
  <2>3. ASSUME NEW k \in 1 .. n - 1, k \in G PROVE k + 1 \in G
    <3>1. k + 1 \in 2 .. n /\ k + 1 \in 1 .. n /\ (k + 1) - 1 = k /\ k \in 1 .. n /\ k \in Nat
      BY <1>1
    <3>2. k \in 0 .. n /\ k + 1 \in 0 .. n
      BY <1>1
    <3>3. Holds(k)
      BY <2>3
    <3> DEFINE x == z[k]
               y == Len(seqs[k + 1])
    <3>4. x \in Nat /\ y \in Nat /\ z[k + 1] = x + y
      <4>1. y \in Nat
        BY <1>3, <3>1, LenProperties
      <4> QED BY <1>5, <1>6, <3>1, <3>2, <4>1
    <3>5. Joins(S, f[k], x, seqs[k + 1], y, f[k + 1])
      <4>1. f[k] \in Seq(S) /\ seqs[k + 1] \in Seq(S) /\ Len(f[k]) = x
        BY <1>3, <2>1, <3>1, <3>3
      <4>2. f[k + 1] = f[k] \o seqs[k + 1]
        BY <2>1, <3>1
      <4> HIDE DEF x
      <4> QED BY <3>4, <4>1, <4>2, ConcatAt
    <3>6. ASSUME NEW j \in 1 .. k + 1
          PROVE  /\ z[j] <= z[k + 1]
                 /\ \A i \in 1 .. Len(seqs[j]) : f[k + 1][z[j - 1] + i] = seqs[j][i]
      <4>1. CASE j = k + 1
        <5>1. z[j - 1] = x
          BY <3>1, <4>1
        <5> HIDE DEF x, y
        <5>2. \A i \in 1 .. y : f[k + 1][x + i] = seqs[k + 1][i]
          BY <3>5 DEF Joins
        <5> QED BY <3>4, <4>1, <5>1, <5>2 DEF y
      <4>2. CASE j \in 1 .. k
        <5>1. /\ z[j] <= x
              /\ \A i \in 1 .. Len(seqs[j]) : f[k][z[j - 1] + i] = seqs[j][i]
          BY <3>3, <4>2
        <5>2. j \in 1 .. n /\ j \in 0 .. n /\ j - 1 \in 0 .. n
          <6>1. n \in Nat /\ k \in Nat /\ k <= n
            BY <1>1, <3>1
          <6> QED BY ONLY <4>2, <6>1
        <5>3. z[j] = z[j - 1] + Len(seqs[j]) /\ z[j] \in Nat /\ z[j - 1] \in Nat
          BY <1>5, <1>6, <5>2
        <5>4. Len(seqs[j]) \in Nat
          BY <1>3, <5>2, LenProperties
        <5> HIDE DEF x, y
        <5>5. ASSUME NEW i \in 1 .. Len(seqs[j])
              PROVE  f[k + 1][z[j - 1] + i] = seqs[j][i]
          <6>1. z[j - 1] + i \in 1 .. x
            BY <3>4, <5>1, <5>3, <5>4, SMTT(30)
          <6>2. f[k + 1][z[j - 1] + i] = f[k][z[j - 1] + i]
            BY <3>5, <6>1 DEF Joins
          <6> QED BY <5>1, <6>2
        <5> QED BY <3>4, <5>1, <5>3, <5>5
      <4> QED BY <3>1, <4>1, <4>2
    <3>7. Len(f[k + 1]) = z[k + 1]
      BY <3>4, <3>5 DEF Joins
    <3>8. Holds(k + 1)
      BY <3>6, <3>7
    <3> QED BY <3>1, <3>8
  <2>4. n \in G
    <3> HIDE DEF G
    <3>1. 1 \in Int /\ n \in Int /\ n \in 1 .. n
      BY <1>1, <1>9
    <3>2. \A k \in 1 .. n - 1 : k \in G => k + 1 \in G
      BY <2>3
    <3>3. \A k \in 1 .. n : k \in G
      BY ONLY <2>2, <3>1, <3>2, InductionUpTo
    <3> QED BY <3>1, <3>3
  <2>5. Holds(n)
    BY <2>4
  <2>6. /\ Len(e) = z[n]
        /\ \A k \in 1 .. n : z[k] <= Len(e)
        /\ \A k \in 1 .. n : \A i \in 1 .. Len(seqs[k]) : e[z[k - 1] + i] = seqs[k][i]
    BY <2>1, <2>5
  <2>7. ASSUME NEW k \in 1 .. n, NEW i \in 1 .. Len(Escaped(b[k]))
        PROVE  e[z[k - 1] + i] = Escaped(b[k])[i]
    <3>1. seqs[k] = Escaped(b[k])
      BY <1>3
    <3> QED BY <2>6, <3>1
  <2> QED BY <1>7, <2>6, <2>7 DEF Laid, n, S, e
<1> QED BY <1>8, <1>9

-----------------------------------------------------------------------------
(* A frame on the line                                                     *)

\* A FEND, a head that is none, the stuffed body, a FEND.
LEMMA OnLineFacts ==
  ASSUME NEW f \in Frames
  PROVE  /\ OnLine(f) \in Seq(Byte)
         /\ Len(OnLine(f)) \in Nat /\ Len(OnLine(f)) >= 3
         /\ OnLine(f)[1] = FEND
         /\ \A i \in 2 .. Len(OnLine(f)) - 1 : OnLine(f)[i] # FEND
         /\ OnLine(f)[Len(OnLine(f))] = FEND
<1> DEFINE head == << FEND, f.cmd >>
           body == EncodeAppend(Body(f))
           hb == head \o body
           end == << FEND >>
<1>1. f.cmd \in 0 .. 15
  BY KissAssumption
<1>2. head \in Seq(Byte) /\ Len(head) = 2 /\ head[1] = FEND /\ head[2] # FEND
  BY <1>1 DEF FEND, Byte
<1>3. body \in Seq(Byte) /\ Len(body) \in Nat /\ \A i \in 1 .. Len(body) : body[i] # FEND
  <2>1. Body(f) \in Seq(Byte)
    BY BodySum
  <2>2. Stuffs(Body(f), Stuffed(Body(f)))
    BY <2>1, StuffedStuffs
  <2>3. body \in Seq(Byte \ {FEND})
    BY <2>1, <2>2, EncodeLaid DEF Laid
  <2> HIDE DEF body
  <2>4. Len(body) \in Nat /\ \A i \in 1 .. Len(body) : body[i] \in Byte \ {FEND}
    BY <2>3, LenProperties, ElementOfSeq
  <2>5. Byte \ {FEND} \subseteq Byte
    OBVIOUS
  <2>6. body \in Seq(Byte)
    BY <2>3, <2>5, SeqMonotonic
  <2> QED BY <2>4, <2>6
<1>4. end \in Seq(Byte) /\ Len(end) = 1 /\ end[1] = FEND
  BY DEF FEND, Byte
<1>5. OnLine(f) = hb \o end
  BY DEF OnLine, Encode
<1> HIDE DEF head, body, end
<1>6. /\ hb \in Seq(Byte) /\ Len(hb) = 2 + Len(body)
      /\ \A i \in 1 .. 2 + Len(body) : hb[i] = IF i <= 2 THEN head[i] ELSE body[i - 2]
  <2>1. /\ hb \in Seq(Byte) /\ Len(hb) = Len(head) + Len(body)
        /\ \A i \in 1 .. Len(head) + Len(body) :
             hb[i] = IF i <= Len(head) THEN head[i] ELSE body[i - Len(head)]
    BY <1>2, <1>3, ConcatProperties
  <2> HIDE DEF hb
  <2> QED BY <1>2, <2>1
<1> HIDE DEF hb
<1>7. /\ hb \o end \in Seq(Byte) /\ Len(hb \o end) = 3 + Len(body)
      /\ \A i \in 1 .. 3 + Len(body) :
           (hb \o end)[i] = IF i <= 2 + Len(body) THEN hb[i] ELSE end[i - (2 + Len(body))]
  <2> DEFINE all == hb \o end
  <2>1. /\ all \in Seq(Byte) /\ Len(all) = Len(hb) + Len(end)
        /\ \A i \in 1 .. Len(hb) + Len(end) :
             all[i] = IF i <= Len(hb) THEN hb[i] ELSE end[i - Len(hb)]
    BY <1>4, <1>6, ConcatProperties
  <2>2. Len(hb) = 2 + Len(body) /\ Len(hb) + Len(end) = 3 + Len(body)
    BY <1>3, <1>4, <1>6
  <2> HIDE DEF all
  <2>3. /\ all \in Seq(Byte) /\ Len(all) = 3 + Len(body)
        /\ \A i \in 1 .. 3 + Len(body) :
             all[i] = IF i <= 2 + Len(body) THEN hb[i] ELSE end[i - (2 + Len(body))]
    BY <2>1, <2>2
  <2> QED BY <2>3 DEF all
<1>8. (hb \o end)[1] = FEND /\ (hb \o end)[3 + Len(body)] = FEND
  BY <1>2, <1>3, <1>4, <1>6, <1>7
<1>9. \A i \in 2 .. 2 + Len(body) : (hb \o end)[i] # FEND
  <2> SUFFICES ASSUME NEW i \in 2 .. 2 + Len(body) PROVE (hb \o end)[i] # FEND
    OBVIOUS
  <2>1. (hb \o end)[i] = hb[i]
    BY <1>3, <1>7
  <2>2. CASE i = 2
    BY <1>2, <1>3, <1>6, <2>1, <2>2
  <2>3. CASE i > 2
    <3>1. i - 2 \in 1 .. Len(body) /\ hb[i] = body[i - 2]
      BY <1>3, <1>6, <2>3
    <3> QED BY <1>3, <2>1, <3>1
  <2>4. i = 2 \/ i > 2
    <3>1. Len(body) \in Nat
      BY <1>3
    <3> QED BY <3>1
  <2> QED BY <2>2, <2>3, <2>4
<1> QED BY <1>3, <1>5, <1>7, <1>8, <1>9

\* What is left of the frame on the line is the end of it.
LineOK ==
  /\ sent \in Frames
  /\ line \in Seq(Byte) /\ Len(line) <= Len(OnLine(sent))
  /\ \A i \in 1 .. Len(line) : line[i] = OnLine(sent)[Len(OnLine(sent)) - Len(line) + i]

LEMMA EndOfSequence ==
  ASSUME NEW all \in Seq(Byte), NEW l \in Seq(Byte), Len(l) <= Len(all),
         \A i \in 1 .. Len(l) : l[i] = all[Len(all) - Len(l) + i]
  PROVE  (l # << >> /\ l # all) <=> (Len(l) > 0 /\ Len(l) < Len(all))
<1>1. Len(all) \in Nat /\ Len(l) \in Nat
  OBVIOUS
<1>2. l = << >> <=> Len(l) = 0
  OBVIOUS
<1>3. ASSUME Len(l) = Len(all) PROVE l = all
  <2>1. \A i \in 1 .. Len(l) : l[i] = all[i]
    BY <1>1, <1>3
  <2> QED BY <1>1, <1>3, <2>1, SeqEqual
<1> QED BY <1>1, <1>2, <1>3

LEMMA MidFrameFacts ==
  ASSUME LineOK
  PROVE  MidFrame <=> (Len(line) > 0 /\ Len(line) < Len(OnLine(sent)))
<1>1. OnLine(sent) \in Seq(Byte)
  BY OnLineFacts DEF LineOK
<1> QED BY <1>1, EndOfSequence DEF LineOK, MidFrame

LEMMA MidFrameNext ==
  ASSUME LineOK'
  PROVE  MidFrame' <=> (Len(line') > 0 /\ Len(line') < Len(OnLine(sent')))
<1>1. OnLine(sent') \in Seq(Byte)
  BY OnLineFacts DEF LineOK
<1> QED BY <1>1, EndOfSequence DEF LineOK, MidFrame

LEMMA InitLine == Init => LineOK
<1> SUFFICES ASSUME Init PROVE LineOK
  OBVIOUS
<1> DEFINE all == OnLine(sent)
<1>1. all \in Seq(Byte) /\ Len(all) \in Nat /\ sent \in Frames
  BY OnLineFacts DEF Init
<1>2. PICK k \in 2 .. Len(all) + 1 : line = SubSeq(all, k, Len(all))
  BY DEF Init
<1> HIDE DEF all
<1>3. /\ line \in Seq(Byte) /\ Len(line) = Len(all) - k + 1
      /\ \A i \in 1 .. Len(all) - k + 1 : line[i] = all[k + i - 1]
  BY <1>1, <1>2
<1>4. \A i \in 1 .. Len(line) : line[i] = all[Len(all) - Len(line) + i]
  <2> SUFFICES ASSUME NEW i \in 1 .. Len(line) PROVE line[i] = all[Len(all) - Len(line) + i]
    OBVIOUS
  <2>1. Len(all) - Len(line) + i = k + i - 1
    BY <1>1, <1>3
  <2> QED BY <1>3, <2>1
<1> QED BY <1>1, <1>3, <1>4 DEF LineOK, all

LEMMA NextLine == LineOK /\ [Next]_vars => LineOK'
<1> SUFFICES ASSUME LineOK, [Next]_vars PROVE LineOK'
  OBVIOUS
<1>1. CASE DecodeByte
  <2>1. line' = Tail(line) /\ sent' = sent /\ line # << >> /\ line \in Seq(Byte)
    BY <1>1 DEF DecodeByte, LineOK
  <2>2. /\ line' \in Seq(Byte) /\ Len(line') = Len(line) - 1
        /\ \A i \in 1 .. Len(line') : line'[i] = line[i + 1]
    BY <2>1, HeadTailProperties
  <2>3. Len(line) \in Nat /\ Len(OnLine(sent)) \in Nat
    BY <2>1, OnLineFacts DEF LineOK
  <2>4. ASSUME NEW i \in 1 .. Len(line')
        PROVE  line'[i] = OnLine(sent)[Len(OnLine(sent)) - Len(line') + i]
    <3>1. i + 1 \in 1 .. Len(line)
      BY <2>2, <2>3
    <3>2. line[i + 1] = OnLine(sent)[Len(OnLine(sent)) - Len(line) + (i + 1)]
      BY <3>1 DEF LineOK
    <3>3. Len(OnLine(sent)) - Len(line) + (i + 1) = Len(OnLine(sent)) - Len(line') + i
      BY <2>2, <2>3
    <3> QED BY <2>2, <3>2, <3>3
  <2> QED BY <2>1, <2>2, <2>3, <2>4 DEF LineOK
<1>2. ASSUME NEW f \in Frames, TncSends(f) PROVE LineOK'
  <2>1. sent' = f /\ line' = OnLine(f)
    BY <1>2 DEF TncSends
  <2> QED BY <2>1, OnLineFacts DEF LineOK
<1>3. CASE DecodeTimeout \/ UNCHANGED vars
  BY <1>3 DEF DecodeTimeout, vars, LineOK
<1> QED BY <1>1, <1>2, <1>3 DEF Next

-----------------------------------------------------------------------------
(* The decoder's frame                                                     *)

FrameSet == [state : {"idle", "head", "body"}, cmd : 0 .. 15, data : Seq(Byte),
             crc : Byte, escape : BOOLEAN]

FrameOK ==
  /\ frame \in FrameSet /\ Len(frame.data) <= MaxData
  /\ handed \in Seq(Seq(Byte)) /\ Len(handed) <= 1
  /\ timer \in BOOLEAN /\ TimerWatchesFrame

LEMMA ResetTyped ==
  /\ ResetFrame \in FrameSet /\ ResetFrame.data = << >> /\ ResetFrame.state = "idle"
  /\ Len(ResetFrame.data) <= MaxData
<1>1. << >> \in Seq(Byte) /\ 0 \in Byte /\ 0 \in 0 .. 15
  BY DEF Byte
<1>2. ResetFrame \in FrameSet /\ ResetFrame.data = << >> /\ ResetFrame.state = "idle"
  BY <1>1 DEF ResetFrame, FrameSet
<1>3. Len(<< >>) = 0 /\ MaxData >= 0
  BY KissAssumption
<1> QED BY <1>2, <1>3

LEMMA NothingHanded == << >> \in Seq(Seq(Byte)) /\ Len(<< >>) <= 1
OBVIOUS

LEMMA HeadFrame ==
  LET f == [ResetFrame EXCEPT !.state = "head"]
  IN  f \in FrameSet /\ f.state = "head" /\ Len(f.data) <= MaxData
<1> DEFINE f == [ResetFrame EXCEPT !.state = "head"]
<1>1. ASSUME NEW r \in FrameSet
      PROVE  LET h == [r EXCEPT !.state = "head"]
             IN  h \in FrameSet /\ h.state = "head" /\ h.data = r.data
  BY DEF FrameSet
<1>2. f \in FrameSet /\ f.state = "head" /\ f.data = ResetFrame.data
  BY <1>1, ResetTyped
<1> HIDE DEF f
<1>3. f \in FrameSet /\ f.state = "head" /\ f.data = << >>
  BY <1>2, ResetTyped
<1>4. Len(<< >>) = 0 /\ MaxData >= 0
  BY KissAssumption
<1>5. f \in FrameSet /\ f.state = "head" /\ Len(f.data) <= MaxData
  BY <1>3, <1>4
<1> QED BY <1>5 DEF f

LEMMA WithCrcTyped ==
  ASSUME NEW f \in FrameSet
  PROVE  WithCrc(f) \in FrameSet /\ WithCrc(f).data = f.data /\ WithCrc(f).state = f.state
<1>1. CASE f.data = << >>
  BY <1>1 DEF WithCrc
<1>2. CASE f.data # << >>
  <2>1. Last(f.data) \in Byte /\ f.crc \in Byte
    BY <1>2 DEF Last, FrameSet
  <2>2. (f.crc + Last(f.data)) % 256 \in Byte
    <3>1. f.crc + Last(f.data) \in Int
      <4>1. \A a, b \in 0 .. 255 : a + b \in Int
        OBVIOUS
      <4> QED BY <2>1, <4>1 DEF Byte
    <3>2. \A n \in Int : n % 256 \in 0 .. 255
      OBVIOUS
    <3> QED BY <3>1, <3>2 DEF Byte
  <2>3. WithCrc(f) = [f EXCEPT !.crc = (f.crc + Last(f.data)) % 256]
    BY <1>2 DEF WithCrc
  <2> QED BY <2>2, <2>3 DEF FrameSet
<1> QED BY <1>1, <1>2

LEMMA StoredTyped ==
  ASSUME NEW f \in FrameSet, NEW c \in Byte
  PROVE  /\ Stored(f, c) \in FrameSet /\ Stored(f, c).data = Append(f.data, c)
         /\ Len(Stored(f, c).data) = Len(f.data) + 1 /\ Len(Stored(f, c).data) \in Nat
         /\ Stored(f, c).state = f.state /\ Stored(f, c).cmd = f.cmd
         /\ Stored(f, c).escape = f.escape /\ Stored(f, c).crc = f.crc
<1>1. /\ Append(f.data, c) \in Seq(Byte) /\ Len(Append(f.data, c)) = Len(f.data) + 1
      /\ Len(Append(f.data, c)) \in Nat
  BY DEF FrameSet
<1>2. /\ Stored(f, c) \in FrameSet /\ Stored(f, c).data = Append(f.data, c)
      /\ Stored(f, c).state = f.state /\ Stored(f, c).cmd = f.cmd
      /\ Stored(f, c).escape = f.escape /\ Stored(f, c).crc = f.crc
  BY <1>1 DEF FrameSet, Stored
<1> QED BY <1>1, <1>2

\* A byte stored and the room checked.
Store(f, c) == Checked(Stored(f, c))

\* A byte stored leaves the frame within the buffer, or gives it up.
LEMMA StoreTyped ==
  ASSUME NEW f \in FrameSet, Len(f.data) <= MaxData, NEW c \in Byte
  PROVE  /\ Store(f, c) \in FrameSet /\ Len(Store(f, c).data) <= MaxData
         /\ Store(f, c).state \in {f.state, "idle"}
<1>1. MaxData \in Nat \ {0} /\ Len(f.data) \in Nat
  BY KissAssumption DEF FrameSet
<1> DEFINE g == Stored(f, c)
<1>2. g \in FrameSet /\ g.state = f.state /\ Len(g.data) \in Nat
  BY StoredTyped
<1>3. Store(f, c) = IF Len(g.data) > MaxData THEN ResetFrame ELSE WithCrc(g)
  BY DEF Store, Checked
<1> HIDE DEF g
<1>4. CASE Len(g.data) > MaxData
  BY <1>3, <1>4, ResetTyped
<1>5. CASE ~(Len(g.data) > MaxData)
  <2>1. Len(g.data) <= MaxData
    BY <1>1, <1>2, <1>5
  <2> QED BY <1>2, <1>3, <1>5, <2>1, WithCrcTyped
<1> QED BY <1>4, <1>5

\* STATE_FRAME_BODY with a byte that is no FEND: the frame goes on or is given up.
LEMMA InBodyTyped ==
  ASSUME FrameOK, NEW c \in Byte, InBody(c)
  PROVE  frame' \in FrameSet /\ Len(frame'.data) <= MaxData /\ frame'.state \in {"body", "idle"}
<1> DEFINE clear == [frame EXCEPT !.escape = FALSE]
           esc == [frame EXCEPT !.escape = TRUE]
<1>1. frame \in FrameSet /\ Len(frame.data) <= MaxData /\ frame.state = "body"
  BY DEF FrameOK, InBody
<1>2. /\ clear \in FrameSet /\ clear.data = frame.data /\ clear.state = frame.state
      /\ esc \in FrameSet /\ esc.data = frame.data /\ esc.state = frame.state
  BY <1>1 DEF FrameSet
<1>3. FESC \in Byte /\ FEND \in Byte
  BY DEF FESC, FEND, Byte
<1>0. MaxData \in Nat /\ Len(frame.data) \in Nat
  BY <1>1, KissAssumption DEF FrameSet
<1>n. frame' = Checked(Taken(c))
  BY DEF InBody
<1>m. Taken(c) \in {esc, Stored(clear, FESC), Stored(clear, FEND), Stored(frame, c)}
  BY DEF Taken
<1> HIDE DEF clear, esc
<1>4. frame' \in {WithCrc(esc), Store(clear, FESC), Store(clear, FEND), Store(frame, c)}
  <2>1. Checked(esc) = WithCrc(esc)
    BY <1>0, <1>1, <1>2 DEF Checked
  <2> QED BY <1>n, <1>m, <2>1 DEF Store
<1>5. CASE frame' = WithCrc(esc)
  BY <1>1, <1>2, <1>5, WithCrcTyped
<1>6. CASE frame' = Store(clear, FESC) \/ frame' = Store(clear, FEND)
  <2>1. PICK b \in Byte : frame' = Store(clear, b)
    BY <1>3, <1>6
  <2>2. /\ Store(clear, b) \in FrameSet /\ Len(Store(clear, b).data) <= MaxData
        /\ Store(clear, b).state \in {clear.state, "idle"}
    BY <1>1, <1>2, StoreTyped
  <2> QED BY <1>1, <1>2, <2>1, <2>2
<1>7. CASE frame' = Store(frame, c)
  BY <1>1, <1>7, StoreTyped
<1> QED BY <1>4, <1>5, <1>6, <1>7

LEMMA InitFrame == Init => FrameOK
<1> SUFFICES ASSUME Init PROVE FrameOK
  OBVIOUS
<1>1. frame = ResetFrame /\ timer = FALSE /\ handed = << >>
  BY DEF Init
<1> QED BY <1>1, ResetTyped, NothingHanded DEF FrameOK, TimerWatchesFrame

LEMMA DecodeByteFrame == LineOK /\ FrameOK /\ DecodeByte => FrameOK'
<1> SUFFICES ASSUME LineOK, FrameOK, DecodeByte PROVE FrameOK'
  OBVIOUS
<1>1. PICK c \in Byte : InIdle(c) \/ InHead(c) \/ BodyEnd(c) \/ InBody(c)
  <2>1. Head(line) \in Byte
    BY DEF DecodeByte, LineOK
  <2> QED BY <2>1 DEF DecodeByte
<1>2. MaxData \in Nat
  BY KissAssumption
<1>3. CASE InIdle(c)
  <2>1. frame.state = "idle" /\ timer' = (timer \/ c = FEND) /\ handed' = << >>
    BY <1>3 DEF InIdle
  <2>2. CASE c = FEND
    <3>1. frame' = [ResetFrame EXCEPT !.state = "head"]
      BY <1>3, <2>2 DEF InIdle
    <3>2. frame' \in FrameSet /\ frame'.state = "head" /\ Len(frame'.data) <= MaxData
      BY <3>1, HeadFrame
    <3>3. timer' = TRUE
      BY <2>1, <2>2
    <3> QED BY <2>1, <3>2, <3>3, NothingHanded DEF FrameOK, TimerWatchesFrame
  <2>3. CASE c # FEND
    <3>1. frame' = frame /\ timer' = timer
      BY <1>3, <2>1, <2>3 DEF InIdle, FrameOK
    <3> QED BY <2>1, <3>1, NothingHanded DEF FrameOK, TimerWatchesFrame
  <2> QED BY <2>2, <2>3
<1>4. CASE InHead(c)
  <2>1. c % 16 \in 0 .. 15
    BY DEF Byte
  <2>2. frame' \in FrameSet /\ frame'.data = frame.data /\ frame'.state = "body"
    BY <1>4, <2>1 DEF InHead, FrameOK, FrameSet
  <2> QED BY <1>4, <2>2 DEF InHead, FrameOK, TimerWatchesFrame
<1>5. CASE BodyEnd(c)
  <2>1. handed' \in Seq(Seq(Byte)) /\ Len(handed') <= 1
    <3>1. frame.data \in Seq(Byte)
      BY DEF FrameOK, FrameSet
    <3> QED BY <1>5, <3>1 DEF BodyEnd
  <2>2. frame' = ResetFrame /\ timer' = FALSE
    BY <1>5 DEF BodyEnd
  <2> QED BY <2>1, <2>2, ResetTyped DEF FrameOK, TimerWatchesFrame
<1>6. CASE InBody(c)
  <2>1. frame' \in FrameSet /\ Len(frame'.data) <= MaxData /\ frame'.state \in {"body", "idle"}
    BY <1>6, InBodyTyped
  <2>2. frame.state = "body" /\ timer' = (timer /\ frame'.state = "body") /\ handed' = << >>
    BY <1>6 DEF InBody
  <2>3. timer = TRUE
    BY <2>2 DEF FrameOK, TimerWatchesFrame
  <2>4. timer' \in BOOLEAN /\ (timer' <=> frame'.state # "idle")
    BY <2>1, <2>2, <2>3
  <2> QED BY <2>1, <2>2, <2>4 DEF FrameOK, TimerWatchesFrame
<1> QED BY <1>1, <1>3, <1>4, <1>5, <1>6

LEMMA NextFrame == LineOK /\ FrameOK /\ [Next]_vars => FrameOK'
<1> SUFFICES ASSUME LineOK, FrameOK, [Next]_vars PROVE FrameOK'
  OBVIOUS
<1>1. CASE DecodeByte
  BY <1>1, DecodeByteFrame
<1>2. CASE DecodeTimeout
  <2>1. frame' = ResetFrame /\ timer' = FALSE /\ handed' = << >>
    BY <1>2 DEF DecodeTimeout
  <2> QED BY <2>1, ResetTyped, NothingHanded DEF FrameOK, TimerWatchesFrame
<1>3. CASE \E f \in Frames : TncSends(f)
  BY <1>3 DEF TncSends, FrameOK, TimerWatchesFrame
<1>4. CASE UNCHANGED vars
  BY <1>4 DEF vars, FrameOK, TimerWatchesFrame
<1> QED BY <1>1, <1>2, <1>3, <1>4 DEF Next

-----------------------------------------------------------------------------
(* The room of the buffer                                                  *)

\* A byte in the buffer came behind the first byte of the frame on the line,
\* which has its last byte still to come.
CountOK ==
  /\ filled \in Nat /\ filled <= MaxData + 1
  /\ filled > MaxData => frame = ResetFrame /\ Len(OnLine(sent)) >= MaxData + 3
  /\ frame.data # << >> =>
       /\ frame.state = "body" /\ line # << >>
       /\ Len(frame.data) < Len(OnLine(sent)) - Len(line)

LEMMA InitCount == Init => CountOK
<1>1. MaxData \in Nat
  BY KissAssumption
<1> QED BY <1>1, ResetTyped DEF Init, CountOK

\* How many bytes a frame has when its room is checked, and behind that.
LEMMA TakenCount ==
  ASSUME FrameOK, NEW c \in Byte, InBody(c)
  PROVE  /\ Len(Taken(c).data) \in Nat /\ Len(Taken(c).data) <= Len(frame.data) + 1
         /\ Len(Taken(c).data) > MaxData => frame' = ResetFrame
         /\ frame'.data # << >> => frame'.state = "body" /\ Len(frame'.data) = Len(Taken(c).data)
<1> DEFINE clear == [frame EXCEPT !.escape = FALSE]
           esc == [frame EXCEPT !.escape = TRUE]
           g == Taken(c)
<1>1. frame \in FrameSet /\ frame.state = "body" /\ Len(frame.data) \in Nat
  BY DEF FrameOK, InBody, FrameSet
<1>2. /\ clear \in FrameSet /\ clear.data = frame.data /\ clear.state = frame.state
      /\ esc \in FrameSet /\ esc.data = frame.data /\ esc.state = frame.state
  BY <1>1 DEF FrameSet
<1>3. FESC \in Byte /\ FEND \in Byte
  BY DEF FESC, FEND, Byte
<1>4. g \in {esc, Stored(clear, FESC), Stored(clear, FEND), Stored(frame, c)}
  BY DEF Taken
<1> HIDE DEF clear, esc
<1>5. /\ g \in FrameSet /\ g.state = "body" /\ Len(g.data) \in Nat
      /\ Len(g.data) <= Len(frame.data) + 1
  <2>1. CASE g = esc
    BY <1>1, <1>2, <2>1
  <2>2. ASSUME NEW b \in Byte, g = Stored(clear, b)
        PROVE  /\ g \in FrameSet /\ g.state = "body" /\ Len(g.data) \in Nat
               /\ Len(g.data) <= Len(frame.data) + 1
    <3>1. /\ Stored(clear, b) \in FrameSet /\ Stored(clear, b).state = clear.state
          /\ Len(Stored(clear, b).data) = Len(clear.data) + 1
      BY <1>2, StoredTyped
    <3>2. /\ g \in FrameSet /\ g.state = "body" /\ Len(g.data) = Len(frame.data) + 1
      BY <1>1, <1>2, <2>2, <3>1
    <3> HIDE DEF g
    <3> QED BY <1>1, <3>2
  <2>4. CASE g = Stored(frame, c)
    BY <1>1, <2>4, StoredTyped
  <2> QED BY <1>3, <1>4, <2>1, <2>2, <2>4
<1>6. frame' = Checked(g)
  BY DEF InBody
<1> HIDE DEF g
<1>7. CASE Len(g.data) > MaxData
  BY <1>5, <1>6, <1>7, ResetTyped DEF Checked, g
<1>8. CASE ~(Len(g.data) > MaxData)
  BY <1>5, <1>6, <1>8, WithCrcTyped DEF Checked, g
<1> QED BY <1>7, <1>8

LEMMA ByteCounts == LineOK /\ FrameOK /\ CountOK /\ DecodeByte => CountOK'
<1> SUFFICES ASSUME LineOK, FrameOK, CountOK, DecodeByte PROVE CountOK'
  OBVIOUS
<1> DEFINE n == Len(OnLine(sent))
           c == Head(line)
<1>1. /\ sent' = sent /\ Len(line') = Len(line) - 1 /\ Len(line) \in Nat /\ Len(line) >= 1
      /\ n \in Nat /\ n >= 3 /\ Len(line) <= n /\ line' \in Seq(Byte)
  BY OnLineFacts DEF DecodeByte, LineOK
<1>2. c \in Byte /\ c = OnLine(sent)[n - Len(line) + 1]
  <2>1. Head(line) = line[1] /\ 1 \in 1 .. Len(line)
    BY <1>1 DEF LineOK
  <2>2. line[1] = OnLine(sent)[n - Len(line) + 1]
    BY <2>1 DEF LineOK
  <2> QED BY <2>1, <2>2 DEF LineOK
<1>3. c # FEND => Len(line) < n /\ Len(line) > 1
  <2>1. ASSUME Len(line) = n PROVE c = FEND
    <3>1. n - Len(line) + 1 = 1
      BY <1>1, <2>1
    <3> QED BY <1>2, <3>1, OnLineFacts DEF LineOK
  <2>2. ASSUME Len(line) = 1 PROVE c = FEND
    <3>1. n - Len(line) + 1 = n
      BY <1>1, <2>2
    <3> QED BY <1>2, <3>1, OnLineFacts DEF LineOK
  <2> HIDE DEF n, c
  <2>3. c # FEND => Len(line) # n /\ Len(line) # 1
    BY <2>1, <2>2
  <2> QED BY <1>1, <2>3
<1>4. MaxData \in Nat /\ MaxData >= 1 /\ Len(frame.data) \in Nat /\ Len(frame.data) <= MaxData
  BY KissAssumption DEF FrameOK, FrameSet
<1>5. InIdle(c) \/ InHead(c) \/ BodyEnd(c) \/ InBody(c)
  BY DEF DecodeByte
<1>6. CASE InIdle(c) \/ InHead(c) \/ BodyEnd(c)
  <2>1. filled' = 0
    BY <1>6 DEF InIdle, InHead, BodyEnd
  <2>2. frame'.data = << >>
    <3>1. CASE InIdle(c) /\ c = FEND
      BY <3>1, HeadFrame, ResetTyped DEF InIdle, ResetFrame
    <3>2. CASE InIdle(c) /\ c # FEND
      BY <3>2 DEF InIdle, CountOK
    <3>3. CASE InHead(c)
      BY <3>3 DEF InHead, CountOK, FrameOK, FrameSet
    <3>4. CASE BodyEnd(c)
      BY <3>4, ResetTyped DEF BodyEnd
    <3> QED BY <1>6, <3>1, <3>2, <3>3, <3>4
  <2> QED BY <1>4, <2>1, <2>2 DEF CountOK
<1>7. CASE InBody(c)
  <2> DEFINE k == Len(Taken(c).data)
  <2>1. /\ k \in Nat /\ k <= Len(frame.data) + 1 /\ (k > MaxData => frame' = ResetFrame)
        /\ frame'.data # << >> => frame'.state = "body" /\ Len(frame'.data) = k
    BY <1>2, <1>7, TakenCount
  <2>2. filled' = k /\ c # FEND
    BY <1>7 DEF InBody
  <2>3. Len(frame.data) < n - Len(line)
    <3>1. CASE frame.data # << >>
      BY <3>1 DEF CountOK
    <3>2. CASE frame.data = << >>
      <4>1. Len(frame.data) = 0
        BY <3>2
      <4> HIDE DEF n
      <4> QED BY <1>1, <1>3, <2>2, <4>1
    <3> QED BY <3>1, <3>2
  <2> HIDE DEF k, n, c
  <2>4. k < n - Len(line') /\ Len(line') >= 1 /\ k <= MaxData + 1
    BY <1>1, <1>3, <1>4, <2>1, <2>2, <2>3
  <2>5. line' # << >>
    <3>1. Len(<< >>) = 0
      OBVIOUS
    <3> QED BY <2>4, <3>1
  <2>6. k > MaxData => n >= MaxData + 3
    BY <1>1, <1>4, <2>1, <2>4
  <2>7. n = Len(OnLine(sent'))
    BY <1>1 DEF n
  <2> QED BY <2>1, <2>2, <2>4, <2>5, <2>6, <2>7 DEF CountOK
<1> QED BY <1>5, <1>6, <1>7

LEMMA NextCount == LineOK /\ FrameOK /\ CountOK /\ [Next]_vars => CountOK'
<1> SUFFICES ASSUME LineOK, FrameOK, CountOK, [Next]_vars PROVE CountOK'
  OBVIOUS
<1>0. MaxData \in Nat
  BY KissAssumption
<1>1. CASE DecodeByte
  BY <1>1, ByteCounts
<1>2. CASE DecodeTimeout
  <2>1. frame'.data = << >> /\ filled' = 0
    BY <1>2, ResetTyped DEF DecodeTimeout
  <2> QED BY <1>0, <2>1 DEF CountOK
<1>3. CASE \E f \in Frames : TncSends(f)
  <2>1. filled' = 0 /\ frame' = frame /\ line = << >>
    BY <1>3 DEF TncSends
  <2>2. frame'.data = << >>
    BY <2>1 DEF CountOK
  <2> QED BY <1>0, <2>1, <2>2 DEF CountOK
<1>4. CASE UNCHANGED vars
  BY <1>4 DEF vars, CountOK
<1> QED BY <1>1, <1>2, <1>3, <1>4 DEF Next

-----------------------------------------------------------------------------
(* In step with the line                                                   *)

SyncOK == inSync \in BOOLEAN /\ calm \in 0 .. 2 /\ CalmInv

LEMMA InitSync == Init => SyncOK
<1> SUFFICES ASSUME Init PROVE SyncOK
  OBVIOUS
<1>1. calm > 0 => line = << >>
  BY DEF Init
<1>2. frame.state = "idle"
  BY ResetTyped DEF Init
<1>3. inSync \in BOOLEAN /\ calm \in 0 .. 2
  <2>1. inSync = FALSE /\ calm = IF line = << >> THEN 1 ELSE 0
    BY DEF Init
  <2>2. calm = 1 \/ calm = 0
    BY <2>1
  <2>3. calm \in 0 .. 2
    BY <2>2
  <2>4. inSync \in BOOLEAN
    BY <2>1
  <2> QED BY <2>3, <2>4
<1>4. line = << >> => ~MidFrame
  BY DEF MidFrame
<1> QED BY <1>1, <1>2, <1>3, <1>4 DEF SyncOK, CalmInv

\* The first byte of a frame.
LEMMA FirstByte ==
  ASSUME LineOK, FrameOK, SyncOK, DecodeByte, ~MidFrame
  PROVE  SyncOK'
<1> DEFINE n == Len(OnLine(sent))
<1>1. Len(line) = n /\ n \in Nat /\ n >= 3 /\ Len(line) \in Nat
  <2>1. n \in Nat /\ n >= 3
    BY OnLineFacts DEF LineOK
  <2>2. Len(line) \in Nat /\ Len(line) > 0
    BY DEF DecodeByte, LineOK
  <2>3. Len(line) <= n
    BY DEF LineOK
  <2> QED BY <2>1, <2>2, <2>3, MidFrameFacts
<1>2. Head(line) = FEND
  <2>1. Head(line) = line[1] /\ line[1] = OnLine(sent)[n - Len(line) + 1] /\ n - Len(line) + 1 = 1
    BY <1>1 DEF LineOK, DecodeByte
  <2> QED BY <2>1, OnLineFacts DEF LineOK
<1>3. sent' = sent /\ Len(line') = n - 1
  BY <1>1 DEF DecodeByte, LineOK
<1>4. MidFrame'
  <2>1. LineOK'
    BY NextLine DEF Next
  <2>2. Len(line') > 0 /\ Len(line') < Len(OnLine(sent'))
    BY <1>1, <1>3
  <2>3. MidFrame' <=> (Len(line') > 0 /\ Len(line') < Len(OnLine(sent')))
    BY <2>1, MidFrameNext
  <2> QED BY <2>2, <2>3
<1>5. Len(OnLine(sent')) - Len(line') = 1
  BY <1>1, <1>3
<1>6. /\ inSync' = (frame.state = "idle")
      /\ calm' = IF GivesUp THEN 0 ELSE IF calm = 0 THEN 1 ELSE 2
  BY DEF DecodeByte
<1>7. inSync' \in BOOLEAN /\ calm' \in 0 .. 2
  BY <1>6
<1>8. frame.state \in {"idle", "head", "body"}
  BY DEF FrameOK, FrameSet
<1>9. CASE frame.state = "idle"
  <2>1. frame'.state = "head"
    BY <1>2, <1>9 DEF DecodeByte, InIdle, InHead, BodyEnd, InBody, ResetFrame
  <2> QED BY <1>4, <1>5, <1>6, <1>7, <1>9, <2>1 DEF SyncOK, CalmInv
<1>10. CASE frame.state = "head"
  <2>1. calm = 0
    BY <1>10 DEF SyncOK, CalmInv
  <2>2. frame'.state = "body"
    <3>1. frame' = [frame EXCEPT !.state = "body", !.cmd = Head(line) % 16]
      BY <1>10 DEF DecodeByte, InIdle, InHead, BodyEnd, InBody
    <3> QED BY <3>1 DEF FrameOK, FrameSet
  <2>3. calm' = 1 /\ ~inSync'
    BY <1>6, <1>10, <2>1 DEF GivesUp
  <2> QED BY <1>4, <1>7, <2>2, <2>3 DEF SyncOK, CalmInv
<1>11. CASE frame.state = "body"
  <2>1. frame' = ResetFrame
    BY <1>2, <1>11 DEF DecodeByte, InIdle, InHead, BodyEnd, InBody
  <2>2. GivesUp
    BY <1>1, <1>11, <2>1, ResetTyped DEF GivesUp
  <2>3. calm' = 0
    BY <1>6, <2>2
  <2> QED BY <1>7, <2>3 DEF SyncOK, CalmInv
<1> QED BY <1>8, <1>9, <1>10, <1>11

\* A byte behind the first: no FEND but the last.
LEMMA LaterByte ==
  ASSUME LineOK, FrameOK, SyncOK, DecodeByte, MidFrame
  PROVE  SyncOK'
<1> DEFINE n == Len(OnLine(sent))
           at == n - Len(line)
           c == Head(line)
<1>1. n \in Nat /\ n >= 3 /\ Len(line) \in Nat /\ Len(line) > 0 /\ Len(line) < n
  BY OnLineFacts, MidFrameFacts DEF LineOK
<1>2. c = OnLine(sent)[at + 1] /\ c \in Byte
  <2>1. line \in Seq(Byte) /\ Head(line) = line[1] /\ line[1] = OnLine(sent)[at + 1] /\ 1 \in 1 .. Len(line)
    BY <1>1 DEF LineOK
  <2> QED BY <2>1
<1>3. sent' = sent /\ Len(line') = Len(line) - 1
  BY <1>1 DEF DecodeByte, LineOK
<1>4. /\ inSync' = (inSync /\ ~GivesUp)
      /\ GivesUp => calm' = 0
      /\ ~GivesUp => calm' = calm
  <2>1. /\ inSync' = IF MidFrame THEN inSync /\ ~GivesUp ELSE frame.state = "idle"
        /\ calm' = CASE GivesUp              -> 0
                     [] ~GivesUp /\ MidFrame -> calm
                     [] OTHER                -> IF calm = 0 THEN 1 ELSE 2
    BY DEF DecodeByte
  <2>2. CASE GivesUp
    BY <2>1, <2>2
  <2>3. CASE ~GivesUp
    BY <2>1, <2>3
  <2> QED BY <2>2, <2>3
<1>5. inSync' \in BOOLEAN /\ calm' \in 0 .. 2
  BY <1>4 DEF SyncOK
<1>6. LineOK'
  BY NextLine DEF Next
<1>7. MidFrame' <=> (Len(line') > 0 /\ Len(line') < Len(OnLine(sent')))
  BY <1>6, MidFrameNext
<1>8. CASE calm = 0
  <2>1. calm' = 0
    BY <1>4, <1>8
  <2> QED BY <1>5, <2>1 DEF SyncOK, CalmInv
<1>9. CASE GivesUp
  <2>1. calm' = 0
    BY <1>4, <1>9
  <2> QED BY <1>5, <2>1 DEF SyncOK, CalmInv
<1>10. CASE calm > 0 /\ ~GivesUp
  <2>1. /\ inSync => frame.state = IF at = 1 THEN "head" ELSE "body"
        /\ ~inSync => frame.state = "body" /\ calm = 1
    BY <1>10 DEF SyncOK, CalmInv
  <2>2. inSync' = inSync /\ calm' = calm
    BY <1>4, <1>10 DEF SyncOK
  <2>3. CASE Len(line) = 1
    <3>1. c = FEND
      <4>1. at + 1 = n
        BY <1>1, <2>3
      <4> QED BY <1>2, <4>1, OnLineFacts DEF LineOK
    <3>2. frame.state = "body"
      <4>1. at # 1
        <5> HIDE DEF n
        <5>1. n - 1 # 1
          BY <1>1
        <5> QED BY <2>3, <5>1
      <4> QED BY <2>1, <4>1 DEF SyncOK
    <3>3. frame'.state = "idle"
      BY <3>1, <3>2, ResetTyped DEF DecodeByte, InIdle, InHead, BodyEnd, InBody
    <3>4. ~MidFrame'
      BY <1>1, <1>3, <1>7, <2>3
    <3> QED BY <1>5, <3>3, <3>4 DEF SyncOK, CalmInv
  <2>4. CASE Len(line) # 1
    <3>1. c # FEND
      <4>1. at + 1 \in 2 .. n - 1
        <5> HIDE DEF n
        <5>1. Len(line) \in 2 .. n - 1
          <6>1. \A k \in Nat : k > 0 /\ k < n /\ k # 1 => k \in 2 .. n - 1
            BY <1>1
          <6> QED BY <1>1, <2>4, <6>1
        <5>2. \A k \in 2 .. n - 1 : n - k + 1 \in 2 .. n - 1
          BY <1>1
        <5> QED BY <5>1, <5>2
      <4> QED BY <1>2, <4>1, OnLineFacts DEF LineOK
    <3>2. MidFrame' /\ Len(OnLine(sent')) - Len(line') # 1
      BY <1>1, <1>3, <1>7, <2>4
    <3>3. frame'.state = "body"
      <4>1. CASE frame.state = "head"
        <5>1. frame' = [frame EXCEPT !.state = "body", !.cmd = c % 16]
          BY <4>1 DEF DecodeByte, InIdle, InHead, BodyEnd, InBody
        <5> QED BY <5>1 DEF FrameOK, FrameSet
      <4>2. CASE frame.state = "body"
        <5>1. InBody(c)
          BY <3>1, <4>2 DEF DecodeByte, InIdle, InHead, BodyEnd, InBody
        <5>2. frame'.state \in {"body", "idle"}
          BY <1>2, <5>1, InBodyTyped
        <5>3. Len(line) > 1
          BY <1>1, <2>4
        <5> QED BY <1>10, <4>2, <5>2, <5>3 DEF GivesUp
      <4> QED BY <2>1, <4>1, <4>2 DEF SyncOK
    <3> QED BY <1>5, <2>1, <2>2, <3>2, <3>3 DEF SyncOK, CalmInv
  <2> QED BY <2>3, <2>4
<1> QED BY <1>8, <1>9, <1>10 DEF SyncOK

LEMMA NextSync == LineOK /\ FrameOK /\ SyncOK /\ [Next]_vars => SyncOK'
<1> SUFFICES ASSUME LineOK, FrameOK, SyncOK, [Next]_vars PROVE SyncOK'
  OBVIOUS
<1>1. CASE DecodeByte
  BY <1>1, FirstByte, LaterByte
<1>2. CASE DecodeTimeout
  <2>1. frame'.state = "idle" /\ sent' = sent /\ line' = line
    BY <1>2, ResetTyped DEF DecodeTimeout
  <2>2. inSync' \in BOOLEAN /\ calm' \in 0 .. 2 /\ (MidFrame => calm' = 0)
    BY <1>2 DEF DecodeTimeout, SyncOK
  <2>3. MidFrame' <=> MidFrame
    BY <2>1 DEF MidFrame
  <2> QED BY <2>1, <2>2, <2>3 DEF SyncOK, CalmInv
<1>3. ASSUME NEW f \in Frames, TncSends(f) PROVE SyncOK'
  <2>1. ~MidFrame /\ ~MidFrame' /\ UNCHANGED << frame, inSync, calm >>
    BY <1>3 DEF TncSends, MidFrame
  <2> QED BY <2>1 DEF SyncOK, CalmInv
<1>4. CASE UNCHANGED vars
  BY <1>4 DEF vars, SyncOK, CalmInv, MidFrame
<1> QED BY <1>1, <1>2, <1>3, <1>4 DEF Next

-----------------------------------------------------------------------------
(* Every byte of a frame read in step                                      *)

\* The bytes o of frame f: FEND, command, the escaped body e, FEND.
FrameOnLine(f, e, o) ==
  /\ Len(o) = 3 + Len(e) /\ Len(e) \in Nat
  /\ o[2] = f.cmd /\ \A i \in 1 .. Len(e) : o[2 + i] = e[i]

LEMMA OnLineLaid ==
  ASSUME NEW f \in Frames
  PROVE  /\ Stuffs(Body(f), Stuffed(Body(f)))
         /\ Laid(Body(f), Stuffed(Body(f)), EncodeAppend(Body(f)))
         /\ FrameOnLine(f, EncodeAppend(Body(f)), OnLine(f))
<1> DEFINE b == Body(f)
           e == EncodeAppend(b)
           head == << FEND, f.cmd >>
           end == << FEND >>
           he == head \o e
           o == OnLine(f)
           l == Len(e)
<1>1. b \in Seq(Byte)
  BY BodySum
<1>2. Stuffs(b, Stuffed(b))
  BY <1>1, StuffedStuffs
<1>3. Laid(b, Stuffed(b), e)
  BY <1>1, <1>2, EncodeLaid
<1>4. e \in Seq(Byte) /\ l \in Nat
  <2>1. e \in Seq(Byte \ {FEND}) /\ Byte \ {FEND} \subseteq Byte
    BY <1>3 DEF Laid
  <2> QED BY <2>1, SeqMonotonic, LenProperties
<1>5. head \in Seq(Byte) /\ Len(head) = 2 /\ head[2] = f.cmd
  <2>1. f.cmd \in Byte /\ FEND \in Byte
    BY KissAssumption DEF Byte, FEND
  <2> QED BY <2>1
<1>6. end \in Seq(Byte) /\ Len(end) = 1
  BY DEF end, Byte, FEND
<1>7. o = he \o end
  BY DEF OnLine, Encode
<1> HIDE DEF head, end, e, o, l
<1>8. Joins(Byte, head, 2, e, l, he)
  BY <1>4, <1>5, ConcatAt DEF l
<1> HIDE DEF he
<1>9. he \in Seq(Byte) /\ Len(he) = 2 + l /\ 2 + l \in Nat
  BY <1>4, <1>8 DEF Joins
<1>10. Joins(Byte, he, 2 + l, end, 1, o)
  BY <1>6, <1>7, <1>9, ConcatAt
<1>11. Len(o) = 3 + l
  BY <1>4, <1>10 DEF Joins
<1>12. o[2] = f.cmd
  <2>1. 2 \in 1 .. 2 + l /\ 2 \in 1 .. 2
    BY <1>4
  <2>2. o[2] = he[2] /\ he[2] = head[2]
    BY <1>8, <1>10, <2>1 DEF Joins
  <2> QED BY <1>5, <2>2
<1>13. ASSUME NEW i \in 1 .. l PROVE o[2 + i] = e[i]
  <2>1. 2 + i \in 1 .. 2 + l
    BY <1>4
  <2> QED BY <1>8, <1>10, <2>1 DEF Joins
<1> QED BY <1>2, <1>3, <1>4, <1>11, <1>12, <1>13 DEF FrameOnLine, e, o, l

\* The byte behind those that Reads speaks of.
LEMMA NextByte ==
  ASSUME NEW f \in Frames, NEW n \in Nat, n <= Len(Body(f)), NEW esc \in {0, 1},
         esc = 1 => n < Len(Body(f)) /\ Len(Escaped(Body(f)[n + 1])) = 2,
         NEW at, at = 2 + Stuffed(Body(f))[n] + esc, at + 1 < Len(OnLine(f))
  PROVE  /\ n < Len(Body(f))
         /\ OnLine(f)[at + 1] = Escaped(Body(f)[n + 1])[1 + esc]
<1> DEFINE b == Body(f)
           z == Stuffed(b)
           e == EncodeAppend(b)
           o == OnLine(f)
           x == z[n]
<1>1. b \in Seq(Byte) /\ Len(b) \in Nat
  BY BodySum, LenProperties
<1>2. Stuffs(b, z) /\ Laid(b, z, e) /\ FrameOnLine(f, e, o)
  BY OnLineLaid
<1>3. n \in 0 .. Len(b) /\ x \in Nat
  BY <1>1, <1>2 DEF Stuffs
<1> HIDE DEF b, z, e, o
<1>4. Len(e) \in Nat /\ Len(o) = 3 + Len(e) /\ Len(e) = z[Len(b)]
  BY <1>2 DEF FrameOnLine, Laid
<1>5. at = 2 + x + esc /\ at + 1 < Len(o)
  BY DEF b, z, o
<1> HIDE DEF x
<1>6. x + esc < Len(e)
  BY <1>3, <1>4, <1>5
<1>7. n < Len(b)
  <2>1. CASE esc = 1
    BY <2>1 DEF b
  <2>2. CASE esc = 0
    <3>1. x < Len(e)
      BY <1>3, <1>6, <2>2
    <3>2. n # Len(b)
      BY <1>3, <1>4, <3>1 DEF x
    <3> QED BY <1>1, <1>3, <3>2
  <2> QED BY <2>1, <2>2
<1>8. n + 1 \in 1 .. Len(b) /\ (n + 1) - 1 = n
  BY <1>1, <1>7
<1>9. 1 + esc \in 1 .. Len(Escaped(b[n + 1]))
  <2>1. b[n + 1] \in Byte
    BY <1>1, <1>8, ElementOfSeq
  <2>2. Len(Escaped(b[n + 1])) \in 1 .. 2
    BY <2>1, EscapedByte
  <2>3. esc = 1 => Len(Escaped(b[n + 1])) = 2
    BY DEF b
  <2> DEFINE l == Len(Escaped(b[n + 1]))
  <2>4. l \in 1 .. 2 /\ (esc = 1 => l = 2)
    BY <2>2, <2>3
  <2> HIDE DEF l
  <2>5. 1 + esc \in 1 .. l
    BY ONLY <2>4, esc \in {0, 1}
  <2> QED BY <2>5 DEF l
<1>10. e[x + (1 + esc)] = Escaped(b[n + 1])[1 + esc]
  BY <1>2, <1>8, <1>9 DEF Laid, x
<1>11. x + (1 + esc) \in 1 .. Len(e) /\ at + 1 = 2 + (x + (1 + esc))
  BY <1>3, <1>4, <1>5, <1>6
<1>12. o[at + 1] = e[x + (1 + esc)]
  BY <1>2, <1>11 DEF FrameOnLine
<1> QED BY <1>7, <1>10, <1>12 DEF b, o

\* A byte stored where there is room for it.
LEMMA StoreFacts ==
  ASSUME NEW f \in FrameSet, NEW c \in Byte, Store(f, c).state # "idle"
  PROVE  /\ Store(f, c).state = f.state /\ Store(f, c).cmd = f.cmd
         /\ Store(f, c).escape = f.escape /\ Store(f, c).data = Append(f.data, c)
         /\ Store(f, c).crc = (f.crc + c) % 256
<1> DEFINE d == Append(f.data, c)
           g == Stored(f, c)
<1>2. Store(f, c) = WithCrc(g)
  BY ResetTyped DEF Store, Checked
<1>3. f.data \in Seq(Byte) /\ Len(f.data) \in Nat
  BY DEF FrameSet
<1>4. d \in Seq(Byte) /\ Len(d) = Len(f.data) + 1 /\ d[Len(f.data) + 1] = c
  BY <1>3, AppendProperties
<1>5. /\ g.data = d /\ g.state = f.state /\ g.cmd = f.cmd /\ g.escape = f.escape
      /\ g.crc = f.crc
  BY StoredTyped
<1>9. g \in FrameSet
  BY StoredTyped
<1> HIDE DEF d, g
<1>6. Last(d) = c /\ d # << >>
  BY <1>3, <1>4, EmptySeq DEF Last
<1>7. WithCrc(g) = [g EXCEPT !.crc = (@ + c) % 256]
  BY <1>5, <1>6 DEF WithCrc
<1>8. /\ WithCrc(g).state = g.state /\ WithCrc(g).cmd = g.cmd /\ WithCrc(g).data = g.data
      /\ WithCrc(g).escape = g.escape /\ WithCrc(g).crc = (g.crc + c) % 256
  BY <1>7, <1>9 DEF FrameSet
<1> QED BY <1>2, <1>5, <1>8 DEF d

\* One byte of the body: stored as it is, marked as an escape, or, escaped,
\* stored as what it stands for.
LEMMA BodyByteRead ==
  ASSUME NEW f \in Frames, NEW at \in Nat, at >= 2, at + 1 < Len(OnLine(f)),
         FrameOK, Reads(frame, f, at), NEW c, c = OnLine(f)[at + 1], c # FEND,
         InBody(c), frame'.state = "body"
  PROVE  Reads(frame', f, at + 1)
<1> DEFINE b == Body(f)
           z == Stuffed(b)
           s == Sum8(b)
           n == Len(frame.data)
           esc == IF frame.escape THEN 1 ELSE 0
           x == b[n + 1]
<1>1. frame \in FrameSet /\ frame.data \in Seq(Byte) /\ n \in Nat /\ frame.escape \in BOOLEAN
  BY LenProperties DEF FrameOK, FrameSet
<1>2. /\ frame.state = "body" /\ frame.cmd = f.cmd
      /\ n <= Len(b) /\ \A i \in 1 .. n : frame.data[i] = b[i]
      /\ at = 2 + z[n] + esc
      /\ frame.escape => n < Len(b) /\ Len(Escaped(b[n + 1])) = 2
      /\ ~frame.escape /\ z[n] = n => frame.crc = s[n]
  BY DEF Reads
<1>3. n < Len(b) /\ c = Escaped(x)[1 + esc]
  <2>1. esc \in {0, 1} /\ (esc = 1 => frame.escape)
    BY <1>1
  <2> HIDE DEF esc, n
  <2> QED BY <1>1, <1>2, <2>1, NextByte, SMTT(30)
<1>4. b \in Seq(Byte) /\ Len(b) \in Nat /\ Stuffs(b, z) /\ SumsUp(b, s)
  BY BodySum, LenProperties, OnLineLaid, Sum8Sums
<1>5. n + 1 \in 1 .. Len(b) /\ (n + 1) - 1 = n /\ n \in 0 .. Len(b) /\ x \in Byte
  BY <1>1, <1>3, <1>4, ElementOfSeq
<1>6. /\ z[n + 1] = z[n] + Len(Escaped(x)) /\ z[n] \in Nat /\ z[n] >= n /\ z[n + 1] \in Nat
      /\ s[n + 1] = (s[n] + x) % 256
  <2>1. n + 1 \in 0 .. Len(b)
    BY <1>5
  <2> QED BY <1>4, <1>5, <2>1, ZenonT(60) DEF Stuffs, SumsUp
<1>7. /\ Reads(frame', f, at + 1) <=>
           /\ frame'.state = "body" /\ frame'.cmd = f.cmd
           /\ Len(frame'.data) <= Len(b) /\ \A i \in 1 .. Len(frame'.data) : frame'.data[i] = b[i]
           /\ at + 1 = 2 + z[Len(frame'.data)] + (IF frame'.escape THEN 1 ELSE 0)
           /\ frame'.escape => Len(frame'.data) < Len(b) /\ Len(Escaped(b[Len(frame'.data) + 1])) = 2
           /\ ~frame'.escape /\ z[Len(frame'.data)] = Len(frame'.data) => frame'.crc = s[Len(frame'.data)]
  <2>1. at + 1 # 1
    OBVIOUS
  <2> QED BY <2>1 DEF Reads
<1> DEFINE d == Append(frame.data, x)
<1>8. /\ Len(d) = n + 1 /\ \A i \in 1 .. n + 1 : d[i] = b[i]
  <2>1. /\ Len(d) = n + 1 /\ d[n + 1] = x /\ \A i \in 1 .. n : d[i] = frame.data[i]
    BY <1>1, <1>5, AppendProperties
  <2>2. \A i \in 1 .. n + 1 : i \in 1 .. n \/ i = n + 1
    BY <1>1
  <2> HIDE DEF d, n
  <2> QED BY <1>2, <2>1, <2>2 DEF x
<1>n. FESC \in Byte /\ FEND \in Byte /\ TFEND \in Byte /\ TFESC \in Byte
      /\ FEND # FESC /\ FEND # TFEND /\ FEND # TFESC /\ FESC # TFEND /\ FESC # TFESC /\ TFEND # TFESC
  BY DEF FESC, FEND, TFEND, TFESC, Byte
<1>9. CASE ~frame.escape /\ x \notin {FEND, FESC}
  <2>1. esc = 0 /\ c = x /\ Len(Escaped(x)) = 1
    BY <1>3, <1>5, <1>9, EscapedByte
  <2>2. frame' = Store(frame, x)
    BY <1>9, <2>1 DEF InBody, Taken, Store
  <2> HIDE DEF x
  <2>3. /\ frame'.state = "body" /\ frame'.cmd = f.cmd /\ frame'.escape = frame.escape
        /\ frame'.data = d /\ frame'.crc = (frame.crc + x) % 256
    BY <1>1, <1>2, <1>5, <2>2, StoreFacts
  <2>4. at + 1 = 2 + z[n + 1] + 0
    BY <1>2, <1>6, <2>1, SMTT(30)
  <2>5. z[n + 1] = n + 1 => frame'.crc = s[n + 1]
    <3>1. z[n + 1] = n + 1 => z[n] = n
      BY <1>1, <1>6, <2>1
    <3> QED BY <1>2, <1>6, <1>9, <2>3, <3>1
  <2> HIDE DEF d, n, z, s, b
  <2> QED BY <1>5, <1>7, <1>8, <1>9, <2>3, <2>4, <2>5
<1>10. CASE ~frame.escape /\ x \in {FEND, FESC}
  <2>1. esc = 0 /\ c = FESC /\ Len(Escaped(x)) = 2
    BY <1>3, <1>5, <1>10, EscapedByte
  <2> DEFINE g == [frame EXCEPT !.escape = TRUE]
  <2>2. frame' = WithCrc(g)
    <3>1. Taken(c) = g
      BY <2>1 DEF Taken
    <3>2. frame' = Checked(g)
      BY <3>1 DEF InBody
    <3>3. g.data = frame.data /\ Len(frame.data) <= MaxData /\ MaxData \in Nat
      BY <1>1, KissAssumption DEF FrameOK, FrameSet
    <3> HIDE DEF g
    <3> QED BY <1>1, <3>2, <3>3 DEF Checked
  <2>3. /\ g \in FrameSet /\ g.state = frame.state /\ g.cmd = frame.cmd /\ g.data = frame.data
        /\ g.escape = TRUE
    BY <1>1 DEF FrameSet
  <2> HIDE DEF g
  <2>4. /\ WithCrc(g).state = g.state /\ WithCrc(g).cmd = g.cmd /\ WithCrc(g).data = g.data
        /\ WithCrc(g).escape = g.escape
    BY <2>3 DEF WithCrc, FrameSet
  <2>5. /\ frame'.state = "body" /\ frame'.cmd = f.cmd /\ frame'.data = frame.data
        /\ frame'.escape = TRUE
    BY <1>2, <2>2, <2>3, <2>4
  <2>6. at + 1 = 2 + z[n] + 1
    BY <1>2, <1>6, <2>1
  <2> HIDE DEF z, s, b
  <2> QED BY <1>2, <1>3, <1>7, <2>1, <2>5, <2>6 DEF x
<1>11. CASE frame.escape
  <2>1. esc = 1 /\ Len(Escaped(x)) = 2 /\ c = Escaped(x)[2]
    BY <1>2, <1>3, <1>11
  <2> DEFINE g == [frame EXCEPT !.escape = FALSE]
  <2>2. x \in {FEND, FESC}
    BY <1>5, <2>1, EscapedByte
  <2>3. frame' = Store(g, x)
    <3>1. CASE x = FEND
      <4>1. c = TFEND
        BY <1>5, <2>1, <3>1, EscapedByte
      <4> QED BY <1>n, <1>11, <3>1, <4>1 DEF InBody, Taken, Store
    <3>2. CASE x = FESC
      <4>1. c = TFESC
        BY <1>5, <2>1, <3>2, EscapedByte
      <4> QED BY <1>n, <1>11, <3>2, <4>1 DEF InBody, Taken, Store
    <3> QED BY <2>2, <3>1, <3>2
  <2>4. /\ g \in FrameSet /\ g.state = frame.state /\ g.cmd = frame.cmd /\ g.data = frame.data
        /\ g.escape = FALSE
    BY <1>1 DEF FrameSet
  <2> HIDE DEF g, x
  <2>5. /\ frame'.state = "body" /\ frame'.cmd = f.cmd /\ frame'.escape = FALSE
        /\ frame'.data = d
    BY <1>2, <1>5, <2>3, <2>4, StoreFacts, ZenonT(60)
  <2>6. at + 1 = 2 + z[n + 1] + 0 /\ z[n + 1] # n + 1
    BY <1>1, <1>2, <1>6, <2>1, SMTT(30)
  <2> HIDE DEF d, n, z, s, b
  <2> QED BY <1>5, <1>7, <1>8, <2>5, <2>6
<1> QED BY <1>1, <1>9, <1>10, <1>11

LEMMA MidBytes ==
  ASSUME LineOK, MidFrame
  PROVE  /\ sent \in Frames /\ Len(OnLine(sent)) - Len(line) \in Nat
         /\ Len(OnLine(sent)) - Len(line) >= 1
         /\ Len(line) \in Nat /\ Len(line) >= 1 /\ Len(OnLine(sent)) \in Nat
         /\ Head(line) = OnLine(sent)[Len(OnLine(sent)) - Len(line) + 1]
         /\ Head(line) \in Byte
<1>1. /\ Len(line) \in Nat /\ Len(line) > 0 /\ Len(OnLine(sent)) \in Nat
      /\ Len(line) < Len(OnLine(sent)) /\ sent \in Frames
  BY MidFrameFacts, OnLineFacts DEF LineOK
<1>2. line # << >> /\ line \in Seq(Byte) /\ Head(line) = line[1] /\ 1 \in 1 .. Len(line)
  BY <1>1, HeadTailProperties DEF LineOK
<1>3. line[1] = OnLine(sent)[Len(OnLine(sent)) - Len(line) + 1] /\ line[1] \in Byte
  BY <1>2, ElementOfSeq DEF LineOK
<1> QED BY <1>1, <1>2, <1>3

LEMMA ByteInStep == LineOK /\ FrameOK /\ InStep /\ DecodeByte => InStep'
<1> SUFFICES ASSUME LineOK, FrameOK, InStep, DecodeByte, inSync', MidFrame' PROVE Reads(frame', sent', Len(OnLine(sent')) - Len(line'))
  BY DEF InStep
<1> DEFINE o == OnLine(sent)
           at == Len(o) - Len(line)
           c == Head(line)
<1>1. /\ sent' = sent /\ Len(line') = Len(line) - 1 /\ Len(line) \in Nat /\ Len(o) \in Nat
      /\ sent \in Frames /\ Len(line) > 0 /\ line # << >>
  BY OnLineFacts DEF DecodeByte, LineOK
<1>2. Len(OnLine(sent')) - Len(line') = at + 1
  BY <1>1
<1>3. Len(line') > 0 /\ Len(line) > 1
  <2>1. LineOK'
    BY NextLine DEF Next
  <2>2. Len(line') > 0
    BY <2>1, MidFrameNext
  <2> QED BY <1>1, <2>2
<1>4. InIdle(c) \/ InHead(c) \/ BodyEnd(c) \/ InBody(c)
  BY DEF DecodeByte
<1>5. CASE ~MidFrame
  <2>1. frame.state = "idle"
    BY <1>5 DEF DecodeByte
  <2>2. Len(line) = Len(o)
    BY <1>1, <1>5, MidFrameFacts DEF LineOK
  <2>3. at = 0
    BY <1>1, <2>2
  <2>4. c = FEND
    <3>1. Head(line) = line[1] /\ line[1] = o[at + 1] /\ at + 1 = 1
      BY <1>1, <2>3, HeadTailProperties DEF LineOK
    <3> QED BY <1>1, <3>1, OnLineFacts
  <2>5. frame' = [ResetFrame EXCEPT !.state = "head"]
    BY <1>4, <2>1, <2>4 DEF InIdle, InHead, BodyEnd, InBody
  <2>6. at + 1 = 1
    BY <2>3
  <2> HIDE DEF at
  <2> QED BY <1>1, <1>2, <2>5, <2>6 DEF Reads
<1>6. CASE MidFrame
  <2>1. inSync /\ ~GivesUp
    BY <1>6 DEF DecodeByte
  <2>2. Reads(frame, sent, at)
    BY <1>6, <2>1 DEF InStep
  <2>3. at \in Nat /\ at >= 1 /\ c = o[at + 1] /\ c \in Byte
    BY <1>6, MidBytes
  <2>4. c # FEND
    <3>1. at + 1 \in 2 .. Len(o) - 1
      BY <1>1, <1>3, <2>3
    <3> QED BY <1>1, <2>3, <3>1, OnLineFacts
  <2>5. CASE at = 1
    <3>1. frame = [ResetFrame EXCEPT !.state = "head"]
      BY <2>2, <2>5 DEF Reads
    <3>2. /\ frame.state = "head" /\ frame.data = << >> /\ frame.crc = 0 /\ frame.escape = FALSE
      BY <3>1 DEF ResetFrame
    <3>3. frame' = [frame EXCEPT !.state = "body", !.cmd = c % 16]
      BY <1>4, <3>2 DEF InIdle, InHead, BodyEnd, InBody
    <3>4. /\ frame'.state = "body" /\ frame'.cmd = c % 16 /\ frame'.data = << >>
          /\ frame'.crc = 0 /\ frame'.escape = FALSE
      BY <3>2, <3>3 DEF FrameOK, FrameSet
    <3>5. c % 16 = sent.cmd
      <4>1. c = sent.cmd
        BY <1>1, <2>3, <2>5, OnLineLaid DEF FrameOnLine
      <4>2. sent.cmd \in 0 .. 15
        BY <1>1, KissAssumption
      <4> HIDE DEF c
      <4> QED BY <4>1, <4>2
    <3>6. /\ Stuffed(Body(sent))[0] = 0 /\ Sum8(Body(sent))[0] = 0 /\ Len(Body(sent)) \in Nat
      BY <1>1, BodySum, OnLineLaid, Sum8Sums, LenProperties DEF Stuffs, SumsUp
    <3>7. Len(frame'.data) = 0
      BY <3>4, EmptySeq
    <3>8. at + 1 = 2
      BY <2>5
    <3> HIDE DEF at, c
    <3> QED BY <1>1, <1>2, <3>4, <3>5, <3>6, <3>7, <3>8 DEF Reads
  <2>6. CASE at # 1
    <3>1. frame.state = "body"
      BY <2>2, <2>6 DEF Reads
    <3>2. InBody(c)
      BY <1>4, <2>4, <3>1 DEF InIdle, InHead, BodyEnd
    <3>3. frame'.state = "body"
      <4>1. frame'.state \in {"body", "idle"}
        BY <2>3, <3>2, InBodyTyped
      <4> QED BY <1>3, <2>1, <3>1, <4>1 DEF GivesUp
    <3>4. at >= 2 /\ at + 1 < Len(o)
      BY <1>1, <1>3, <2>3, <2>6
    <3> HIDE DEF at, c
    <3>5. Reads(frame', sent, at + 1)
      BY <1>1, <2>2, <2>3, <2>4, <3>2, <3>3, <3>4, BodyByteRead
    <3> QED BY <1>1, <1>2, <3>5
  <2> QED BY <2>5, <2>6
<1> QED BY <1>5, <1>6

LEMMA NextInStep == LineOK /\ FrameOK /\ InStep /\ [Next]_vars => InStep'
<1> SUFFICES ASSUME LineOK, FrameOK, InStep, [Next]_vars PROVE InStep'
  OBVIOUS
<1>1. CASE DecodeByte
  BY <1>1, ByteInStep
<1>2. CASE DecodeTimeout
  <2>1. inSync' = (inSync /\ ~MidFrame) /\ line' = line /\ sent' = sent
    BY <1>2 DEF DecodeTimeout
  <2>2. MidFrame' <=> MidFrame
    BY <2>1 DEF MidFrame
  <2> QED BY <2>1, <2>2 DEF InStep
<1>3. ASSUME NEW f \in Frames, TncSends(f) PROVE InStep'
  <2>1. ~MidFrame'
    BY <1>3 DEF TncSends, MidFrame
  <2> QED BY <2>1 DEF InStep
<1>4. CASE UNCHANGED vars
  <2>1. MidFrame' <=> MidFrame
    BY <1>4 DEF vars, MidFrame
  <2> QED BY <1>4, <2>1 DEF vars, InStep
<1> QED BY <1>1, <1>2, <1>3, <1>4 DEF Next

\* Before the last byte the whole body was read.
LEMMA WholeBody ==
  ASSUME NEW f \in Frames, FrameOK, Reads(frame, f, Len(OnLine(f)) - 1)
  PROVE  /\ frame.state = "body" /\ frame.cmd = f.cmd /\ frame.data = Body(f)
         /\ EncodeAppend(Body(f)) = Body(f) => frame.crc = Sum8(Body(f))[Len(Body(f))]
<1> DEFINE b == Body(f)
           z == Stuffed(b)
           e == EncodeAppend(b)
           o == OnLine(f)
           n == Len(frame.data)
           esc == IF frame.escape THEN 1 ELSE 0
<1>1. b \in Seq(Byte) /\ Len(b) \in Nat /\ frame.data \in Seq(Byte) /\ n \in Nat
  BY BodySum, LenProperties DEF FrameOK, FrameSet
<1>2. Stuffs(b, z) /\ Laid(b, z, e) /\ FrameOnLine(f, e, o)
  BY OnLineLaid
<1>3. Len(o) - 1 # 1 /\ Len(o) - 1 = 2 + Len(e) /\ Len(e) \in Nat /\ Len(e) = z[Len(b)]
  BY <1>2 DEF FrameOnLine, Laid
<1>4. /\ frame.state = "body" /\ frame.cmd = f.cmd
      /\ n <= Len(b) /\ \A i \in 1 .. n : frame.data[i] = b[i]
      /\ Len(o) - 1 = 2 + z[n] + esc
      /\ frame.escape => n < Len(b) /\ Len(Escaped(b[n + 1])) = 2
      /\ ~frame.escape /\ z[n] = n => frame.crc = Sum8(b)[n]
  BY <1>3 DEF Reads
<1> HIDE DEF b, z, e, o, n
<1>5. z[n] \in Nat /\ Len(e) = z[n] + esc
  <2>1. n \in 0 .. Len(b)
    BY <1>1, <1>4
  <2>2. z[n] \in Nat
    BY <1>2, <2>1 DEF Stuffs
  <2> QED BY <1>3, <1>4, <2>2
<1>6. n = Len(b)
  <2> SUFFICES ASSUME n < Len(b) PROVE FALSE
    BY <1>1, <1>4
  <2>1. n + 1 \in 1 .. Len(b) /\ (n + 1) - 1 = n
    BY <1>1
  <2>2. z[n + 1] <= Len(e) /\ z[n + 1] = z[n] + Len(Escaped(b[n + 1]))
    BY <1>2, <2>1 DEF Stuffs, Laid
  <2>3. Len(Escaped(b[n + 1])) \in 1 .. 2
    BY <1>1, <2>1, ElementOfSeq, EscapedByte
  <2> DEFINE l == Len(Escaped(b[n + 1]))
  <2>4. l \in 1 .. 2 /\ z[n] + l <= z[n] + esc /\ (frame.escape => l = 2)
    BY <1>4, <1>5, <2>2, <2>3
  <2> HIDE DEF l
  <2> QED BY <1>5, <2>4
<1>7. ~frame.escape
  BY <1>1, <1>4, <1>6
<1>8. frame.data = b
  BY <1>1, <1>4, <1>6, SeqEqual DEF n
<1>9. e = b => frame.crc = Sum8(b)[Len(b)]
  <2> SUFFICES ASSUME e = b PROVE frame.crc = Sum8(b)[Len(b)]
    OBVIOUS
  <2>1. z[n] = n
    BY <1>5, <1>6, <1>7
  <2> QED BY <1>4, <1>6, <1>7, <2>1
<1> QED BY <1>4, <1>8, <1>9 DEF b, e

LEMMA CompletesIntact ==
  ASSUME LineOK, FrameOK, InStep, [Next]_vars, Completes, inSync
  PROVE  /\ handed' \in {<< >>, << Body(sent) >>}
         /\ sent.cmd = 0 => handed' = << sent.payload >>
         /\ sent.cmd # 0 /\ EncodeAppend(Body(sent)) = Body(sent) =>
              (handed' # << >> <=> sent.crcOk)
<1> DEFINE o == OnLine(sent)
           b == Body(sent)
<1>1. Len(line) = 1 /\ line' = << >> /\ line # << >> /\ line' # line
  <2>1. Len(<< >>) = 0
    OBVIOUS
  <2> QED BY <2>1 DEF Completes
<1>2. DecodeByte
  BY <1>1 DEF Next, DecodeTimeout, TncSends, vars
<1>3. sent \in Frames /\ Len(o) \in Nat /\ Len(o) >= 3
  BY OnLineFacts DEF LineOK
<1>4. MidFrame
  BY <1>1, <1>3, MidFrameFacts
<1>5. Reads(frame, sent, Len(o) - 1)
  BY <1>1, <1>4 DEF InStep
<1>6. Head(line) = FEND
  <2>1. Len(o) - 1 + 1 = Len(o)
    BY <1>3
  <2> QED BY <1>1, <1>3, <1>4, <2>1, MidBytes, OnLineFacts
<1>7. /\ frame.state = "body" /\ frame.cmd = sent.cmd /\ frame.data = b
      /\ EncodeAppend(b) = b => frame.crc = Sum8(b)[Len(b)]
  BY <1>3, <1>5, WholeBody
<1>8. handed' = IF Acceptable THEN << b >> ELSE << >>
  BY <1>2, <1>6, <1>7 DEF DecodeByte, InIdle, InHead, BodyEnd, InBody
<1>9. /\ sent.cmd = 0 => b = sent.payload
      /\ sent.cmd # 0 => (Sum8(b)[Len(b)] = 255 <=> sent.crcOk)
  BY <1>3, BodySum
<1> HIDE DEF b
<1>10. CASE sent.cmd = 0
  <2>1. Acceptable /\ b = sent.payload
    BY <1>7, <1>9, <1>10 DEF Acceptable
  <2>2. handed' = << sent.payload >>
    BY <1>8, <2>1
  <2> QED BY <1>8, <1>10, <2>2 DEF b
<1>11. CASE sent.cmd # 0
  <2> SUFFICES ASSUME EncodeAppend(b) = b
               PROVE  handed' # << >> <=> sent.crcOk
    BY <1>8, <1>11 DEF b
  <2>1. Acceptable <=> sent.crcOk
    BY <1>7, <1>9, <1>11 DEF Acceptable
  <2> QED BY <1>8, <2>1
<1>12. handed' \in {<< >>, << b >>}
  BY <1>8
<1> QED BY <1>10, <1>11, <1>12 DEF b

-----------------------------------------------------------------------------
(* Theorems about the decoder of the daemon                                *)

KissInv == LineOK /\ FrameOK /\ CountOK /\ SyncOK /\ InStep

LEMMA KissInvariant == Spec => []KissInv
<1>1. Init => KissInv
  <2>1. Init => InStep
    BY DEF Init, InStep
  <2> QED BY <2>1, InitLine, InitFrame, InitCount, InitSync DEF KissInv
<1>2. KissInv /\ [Next]_vars => KissInv'
  BY NextLine, NextFrame, NextCount, NextSync, NextInStep DEF KissInv
<1> QED BY <1>1, <1>2, PTL DEF Spec

\* kiss_codec.c:117-127: whatever is on the line and whenever the timer fires,
\* between two bytes the frame buffer holds no more than it has room for; before
\* the check it may have been one byte more, never two, and only in a frame that
\* is given up and as long on the line as the buffer and three bytes.
THEOREM TypeCorrect == Spec => []TypeOK
<1>1. KissInv => TypeOK
  BY DEF KissInv, LineOK, FrameOK, CountOK, SyncOK, FrameSet, TypeOK, Room
<1> QED BY <1>1, KissInvariant, PTL

\* The receive timer is pending exactly while a frame is unfinished.
THEOREM TimerIsTheFrames == Spec => []TimerWatchesFrame
<1>1. KissInv => TimerWatchesFrame
  BY DEF KissInv, FrameOK
<1> QED BY <1>1, KissInvariant, PTL

\* After a disturbance at most one frame is misread, for any frames.
THEOREM Resynchronises == Spec => []ResyncAfterOneFrame
<1>1. KissInv => ResyncAfterOneFrame
  BY DEF KissInv, SyncOK, CalmInv, ResyncAfterOneFrame
<1> QED BY <1>1, KissInvariant, PTL

\* A frame decoded in step with the line is handed over whole and unchanged or
\* not at all: data frames always, control frames without an escape if and only if
\* their CRC is right; for any payloads, any size of the buffer and wherever the
\* receive timer fires.
THEOREM ArrivesIntact == Spec => Intact
<1>1. KissInv /\ [Next]_vars =>
        [(Completes /\ inSync) =>
           /\ handed' \in {<< >>, << Body(sent) >>}
           /\ sent.cmd = 0 => handed' = << sent.payload >>
           /\ sent.cmd # 0 /\ EncodeAppend(Body(sent)) = Body(sent) =>
                (handed' # << >> <=> sent.crcOk)]_vars
  BY CompletesIntact DEF KissInv
<1> QED BY <1>1, KissInvariant, PTL DEF Spec, Intact

-----------------------------------------------------------------------------
(* What kiss_decode_ex of tnc_config.c makes of the first bytes of a frame *)

Decoder == [out : Seq(Byte), escaped : BOOLEAN]

LEMMA DecoderFields ==
  ASSUME NEW d \in Decoder
  PROVE  /\ d.out \in Seq(Byte) /\ d.escaped \in BOOLEAN
         /\ d = [out |-> d.out, escaped |-> d.escaped]
BY DEF Decoder

LEMMA SpecialBytes ==
  /\ FEND \in Byte /\ FESC \in Byte /\ TFEND \in Byte /\ TFESC \in Byte
  /\ FEND # FESC /\ FEND # TFEND /\ FEND # TFESC /\ FESC # TFEND /\ FESC # TFESC /\ TFEND # TFESC
BY DEF FEND, FESC, TFEND, TFESC, Byte

LEMMA DecodeExTyped ==
  ASSUME NEW d \in Decoder, NEW c \in Byte
  PROVE  DecodeExByte(d, c) \in Decoder
<1>1. d.out \in Seq(Byte) /\ d.escaped \in BOOLEAN
  BY DecoderFields
<1>2. /\ Append(d.out, c) \in Seq(Byte)
      /\ Append(d.out, FESC) \in Seq(Byte) /\ Append(d.out, FEND) \in Seq(Byte)
  BY <1>1, SpecialBytes, AppendProperties
<1>3. \A s \in Seq(Byte) : [out |-> s, escaped |-> FALSE] \in Decoder
  BY DEF Decoder
<1>4. [d EXCEPT !.escaped = TRUE] \in Decoder
  BY DEF Decoder
<1>5. CASE c = FESC
  <2>1. DecodeExByte(d, c) = [d EXCEPT !.escaped = TRUE]
    BY <1>5, SpecialBytes DEF DecodeExByte
  <2> QED BY <1>4, <2>1
<1>6. CASE c # FESC
  <2>1. \/ DecodeExByte(d, c) = [out |-> Append(d.out, FESC), escaped |-> FALSE]
        \/ DecodeExByte(d, c) = [out |-> Append(d.out, FEND), escaped |-> FALSE]
        \/ DecodeExByte(d, c) = [out |-> Append(d.out, c), escaped |-> FALSE]
    BY <1>6 DEF DecodeExByte
  <2> QED BY <1>2, <1>3, <2>1
<1> QED BY <1>5, <1>6

\* d[k] is what the loop over b has after k bytes.
Decodes(b, d) ==
  /\ d[0] = [out |-> << >>, escaped |-> FALSE]
  /\ \A k \in 1 .. Len(b) : d[k] = DecodeExByte(d[k - 1], b[k])
  /\ \A k \in 0 .. Len(b) : d[k] \in Decoder

LEMMA DecodingDecodes ==
  ASSUME NEW b \in Seq(Byte)
  PROVE  Decodes(b, Decoding(b))
<1> DEFINE n == Len(b)
           first == [out |-> << >>, escaped |-> FALSE]
           Is(f) == f = [k \in 0 .. n |-> IF k = 0 THEN first ELSE DecodeExByte(f[k - 1], b[k])]
           s == CHOOSE f : Is(f)
<1>1. n \in Nat /\ \A k \in 1 .. n : b[k] \in Byte
  BY LenProperties, ElementOfSeq
<1>0. first \in Decoder
  BY EmptySeq DEF Decoder
<1> HIDE DEF first
<1>2. \E f : Is(f)
  <2> DEFINE turn == [k \in 1 .. n |-> [x \in Decoder |-> DecodeExByte(x, b[k])]]
  <2>1. \A k \in 1 .. n : \A x \in Decoder : turn[k][x] = DecodeExByte(x, b[k])
    OBVIOUS
  <2> HIDE DEF turn, n
  <2>2. ASSUME NEW k \in 1 .. n, NEW x \in Decoder PROVE turn[k][x] \in Decoder
    BY <1>1, <2>1, DecodeExTyped
  <2>3. PICK f : f \in LoopRuns(Decoder, n, first, turn)
    BY <1>0, <1>1, <2>2, LoopExists
  <2>4. f \in [0 .. n -> Decoder] /\ f[0] = first /\ \A k \in 1 .. n : f[k] = turn[k][f[k - 1]]
    BY <2>3 DEF LoopRuns
  <2>5. ASSUME NEW k \in 1 .. n PROVE f[k] = DecodeExByte(f[k - 1], b[k])
    <3>1. k - 1 \in 0 .. n
      BY <1>1
    <3>2. f[k - 1] \in Decoder
      BY <2>4, <3>1
    <3> QED BY <2>1, <2>4, <3>2
  <2>6. f = [k \in 0 .. n |-> IF k = 0 THEN first ELSE DecodeExByte(f[k - 1], b[k])]
    BY <2>4, <2>5
  <2> QED BY <2>6
<1>3. Is(s)
  <2> HIDE DEF Is
  <2> QED BY <1>2
<1>4. Decoding(b) = s
  BY DEF Decoding, first
<1> HIDE DEF s, n
<1>5. \A k \in 0 .. n : s[k] = IF k = 0 THEN first ELSE DecodeExByte(s[k - 1], b[k])
  BY <1>3
<1>6. 0 \in 0 .. n /\ \A k \in 1 .. n : k \in 0 .. n /\ k # 0
  BY <1>1
<1>7. s[0] = first /\ \A k \in 1 .. n : s[k] = DecodeExByte(s[k - 1], b[k])
  BY <1>5, <1>6
<1> DEFINE G == {k \in 0 .. n : s[k] \in Decoder}
<1>8. \A k \in 0 .. n : k \in G
  <2>1. 0 \in Int /\ n \in Int /\ (0 <= n => 0 \in G)
    BY <1>0, <1>1, <1>6, <1>7
  <2>2. ASSUME NEW k \in 0 .. n - 1, k \in G PROVE k + 1 \in G
    <3>1. k + 1 \in 1 .. n /\ (k + 1) - 1 = k /\ k + 1 \in 0 .. n
      BY <1>1
    <3>2. s[k + 1] = DecodeExByte(s[k], b[k + 1])
      BY <1>7, <3>1
    <3>3. s[k] \in Decoder /\ b[k + 1] \in Byte
      BY <1>1, <2>2, <3>1
    <3>4. s[k + 1] \in Decoder
      BY <3>2, <3>3, DecodeExTyped
    <3> QED BY <3>1, <3>4
  <2> HIDE DEF G
  <2>3. \A k \in 0 .. n - 1 : k \in G => k + 1 \in G
    BY <2>2
  <2> QED BY ONLY <2>1, <2>3, InductionUpTo
<1> QED BY <1>4, <1>7, <1>8 DEF Decodes, n, first

\* After k of the bytes b was escaped to, the loop has the first j bytes of b,
\* and perhaps the escape of the next.
Has(b, z, d, k, j) ==
  /\ j \in 0 .. Len(b) /\ d[k].out = SubSeq(b, 1, j)
  /\ IF d[k].escaped THEN j < Len(b) /\ k = z[j] + 1 /\ Len(Escaped(b[j + 1])) = 2
     ELSE k = z[j]

LEMMA NextOfSubSeq ==
  ASSUME NEW b \in Seq(Byte), NEW j \in 0 .. Len(b) - 1
  PROVE  SubSeq(b, 1, j + 1) = Append(SubSeq(b, 1, j), b[j + 1])
<1>1. Len(b) \in Nat /\ j \in Nat /\ j + 1 \in 1 .. Len(b)
  BY LenProperties
<1> DEFINE s == SubSeq(b, 1, j)
           t == SubSeq(b, 1, j + 1)
           u == Append(s, b[j + 1])
<1>2. s \in Seq(Byte) /\ Len(s) = j /\ \A i \in 1 .. j : s[i] = b[i]
  BY <1>1
<1>3. t \in Seq(Byte) /\ Len(t) = j + 1 /\ \A i \in 1 .. j + 1 : t[i] = b[i]
  BY <1>1
<1>4. b[j + 1] \in Byte
  BY <1>1, ElementOfSeq
<1> HIDE DEF s, t
<1>5. u \in Seq(Byte) /\ Len(u) = j + 1 /\ u[j + 1] = b[j + 1] /\ \A i \in 1 .. j : u[i] = s[i]
  BY <1>2, <1>4, AppendProperties
<1> HIDE DEF u
<1>6. \A i \in 1 .. j + 1 : u[i] = b[i]
  BY <1>1, <1>2, <1>5
<1>7. t = u
  BY <1>3, <1>5, <1>6, SeqEqual
<1> QED BY <1>7 DEF s, t, u

LEMMA HasNext ==
  ASSUME NEW b \in Seq(Byte), NEW z, Stuffs(b, z), NEW e, Laid(b, z, e),
         NEW m \in 0 .. Len(e), NEW c \in Seq(Byte), Len(c) = m, \A i \in 1 .. m : c[i] = e[i],
         NEW d, Decodes(c, d), NEW k \in 0 .. m - 1, NEW j, Has(b, z, d, k, j)
  PROVE  \E i : Has(b, z, d, k + 1, i)
<1> DEFINE n == Len(b)
           x == b[j + 1]
           q == d[k]
           Two == Len(Escaped(b[j + 1])) = 2
<1>1. n \in Nat /\ j \in 0 .. n /\ q.out = SubSeq(b, 1, j)
      /\ IF q.escaped THEN j < n /\ k = z[j] + 1 /\ Two ELSE k = z[j]
  BY LenProperties DEF Has
<1>2. Len(e) \in Nat /\ Len(e) = z[n] /\ m \in Nat /\ k \in Nat /\ k < Len(e) /\ k + 1 \in 1 .. m
      /\ k \in 0 .. m
  <2>1. Len(e) \in Nat
    BY LenProperties DEF Laid
  <2> QED BY <2>1 DEF Laid
<1>3. j < n /\ j + 1 \in 1 .. n /\ (j + 1) - 1 = j /\ j + 1 \in 0 .. n
  <2>1. j < n
    <3>1. CASE q.escaped
      BY <1>1, <3>1
    <3>2. CASE ~q.escaped
      <4>1. k = z[j] /\ k # z[n]
        BY <1>1, <1>2, <3>2
      <4>2. j # n
        BY <4>1
      <4> QED BY <1>1, <4>2
    <3> QED BY <3>1, <3>2
  <2> HIDE DEF n
  <2> QED BY <1>1, <2>1
<1>4. q \in Decoder /\ d[k + 1] = DecodeExByte(q, c[k + 1]) /\ c[k + 1] = e[k + 1]
  <2>1. d[k + 1] = DecodeExByte(d[(k + 1) - 1], c[k + 1]) /\ d[k] \in Decoder
    BY <1>2 DEF Decodes
  <2>2. (k + 1) - 1 = k
    BY <1>2
  <2> QED BY <1>2, <2>1, <2>2
<1>5. x \in Byte
  BY <1>3, ElementOfSeq
<1>6. /\ z[j] \in Nat /\ z[j + 1] = z[j] + Len(Escaped(x))
      /\ \A i \in 1 .. Len(Escaped(x)) : e[z[j] + i] = Escaped(x)[i]
  <2>1. z[j] \in Nat
    BY <1>1 DEF Stuffs
  <2>2. z[j + 1] = z[(j + 1) - 1] + Len(Escaped(b[j + 1]))
    BY <1>3 DEF Stuffs
  <2>3. \A i \in 1 .. Len(Escaped(b[j + 1])) : e[z[(j + 1) - 1] + i] = Escaped(b[j + 1])[i]
    BY <1>3 DEF Laid
  <2> QED BY <1>3, <2>1, <2>2, <2>3
<1>7. SubSeq(b, 1, j + 1) = Append(q.out, x)
  <2>1. j \in 0 .. n - 1
    BY <1>1, <1>3
  <2> QED BY <1>1, <2>1, NextOfSubSeq
<1>8. ASSUME d[k + 1] = [out |-> Append(q.out, x), escaped |-> FALSE], k + 1 = z[j + 1]
      PROVE  Has(b, z, d, k + 1, j + 1)
  <2> DEFINE y == Append(q.out, x)
  <2>0. d[k + 1] = [out |-> y, escaped |-> FALSE] /\ SubSeq(b, 1, j + 1) = y
    BY <1>7, <1>8
  <2> HIDE DEF y
  <2>1. d[k + 1].out = SubSeq(b, 1, j + 1) /\ d[k + 1].escaped = FALSE
    BY <2>0
  <2> QED BY <1>3, <1>8, <2>1 DEF Has
<1>9. CASE ~q.escaped
  <2>1. k = z[j] /\ q.escaped = FALSE
    BY <1>1, <1>4, <1>9, DecoderFields
  <2>2. CASE x \notin {FEND, FESC}
    <3>1. Len(Escaped(x)) = 1 /\ Escaped(x)[1] = x
      BY <1>5, <2>2, EscapedByte
    <3>2. e[k + 1] = x
      BY <1>6, <2>1, <3>1
    <3>3. DecodeExByte(q, x) = [out |-> Append(q.out, x), escaped |-> FALSE]
      BY <2>1, <2>2 DEF DecodeExByte
    <3> QED BY <1>4, <1>6, <1>8, <2>1, <3>1, <3>2, <3>3
  <2>3. CASE x \in {FEND, FESC}
    <3>1. Len(Escaped(x)) = 2 /\ Escaped(x)[1] = FESC
      BY <1>5, <2>3, EscapedByte
    <3>2. e[k + 1] = FESC
      BY <1>6, <2>1, <3>1
    <3>3. DecodeExByte(q, FESC) = [q EXCEPT !.escaped = TRUE]
      BY SpecialBytes DEF DecodeExByte
    <3>4. d[k + 1].out = q.out /\ d[k + 1].escaped = TRUE
      BY <1>4, <3>2, <3>3 DEF Decoder
    <3>5. Has(b, z, d, k + 1, j)
      BY <1>1, <1>3, <2>1, <3>1, <3>4 DEF Has
    <3> QED BY <3>5
  <2> QED BY <2>2, <2>3
<1>10. CASE q.escaped
  <2>1. k = z[j] + 1 /\ Len(Escaped(x)) = 2
    BY <1>1, <1>10
  <2>2. k + 1 = z[j] + 2 /\ k + 1 = z[j + 1] /\ e[k + 1] = Escaped(x)[2]
    <3>1. 2 \in 1 .. Len(Escaped(x))
      BY <2>1
    <3>2. e[z[j] + 2] = Escaped(x)[2]
      BY <1>6, <3>1
    <3>3. k + 1 = z[j] + 2
      BY <1>6, <2>1
    <3> QED BY <1>6, <2>1, <3>2, <3>3
  <2>3. CASE x = FEND
    <3>1. Escaped(x)[2] = TFEND
      BY <1>5, <2>3, EscapedByte
    <3>2. DecodeExByte(q, TFEND) = [out |-> Append(q.out, FEND), escaped |-> FALSE]
      BY <1>10, SpecialBytes DEF DecodeExByte
    <3> QED BY <1>4, <1>8, <2>2, <2>3, <3>1, <3>2
  <2>4. CASE x = FESC
    <3>1. Escaped(x)[2] = TFESC
      BY <1>5, <2>4, EscapedByte
    <3>2. DecodeExByte(q, TFESC) = [out |-> Append(q.out, FESC), escaped |-> FALSE]
      BY <1>10, SpecialBytes DEF DecodeExByte
    <3> QED BY <1>4, <1>8, <2>2, <2>4, <3>1, <3>2
  <2>5. x \in {FEND, FESC}
    <3>1. x \notin {FEND, FESC} => Len(Escaped(x)) = 1
      BY <1>5, EscapedByte
    <3> QED BY <2>1, <3>1
  <2> QED BY <2>3, <2>4, <2>5
<1> QED BY <1>9, <1>10

\* What the loop has of the first bytes: the first bytes of what was escaped,
\* and all of it if nothing is missing.
LEMMA PrefixDecodes ==
  ASSUME NEW b \in Seq(Byte), NEW z, Stuffs(b, z), NEW e, Laid(b, z, e),
         NEW m \in 0 .. Len(e), NEW c \in Seq(Byte), Len(c) = m, \A i \in 1 .. m : c[i] = e[i],
         NEW d, Decodes(c, d)
  PROVE  \E j \in 0 .. Len(b) : d[m].out = SubSeq(b, 1, j) /\ (m = Len(e) => j = Len(b))
<1> DEFINE n == Len(b)
           G == {k \in 0 .. m : \E j : Has(b, z, d, k, j)}
<1>1. n \in Nat /\ Len(e) \in Nat /\ Len(e) = z[n] /\ m \in Nat
  BY LenProperties DEF Laid
<1>2. 0 \in G
  <2>1. d[0].out = << >> /\ d[0].escaped = FALSE
    BY DEF Decodes
  <2>2. SubSeq(b, 1, 0) = << >> /\ z[0] = 0 /\ 0 \in 0 .. Len(b)
    BY <1>1, SubSeqEmpty DEF Stuffs
  <2>3. Has(b, z, d, 0, 0)
    BY <2>1, <2>2 DEF Has
  <2> QED BY <1>1, <2>3
<1>3. ASSUME NEW k \in 0 .. m - 1, k \in G PROVE k + 1 \in G
  <2>1. PICK j : Has(b, z, d, k, j)
    BY <1>3
  <2>2. \E i : Has(b, z, d, k + 1, i)
    BY <2>1, HasNext
  <2>3. k + 1 \in 0 .. m
    BY <1>1
  <2> QED BY <2>2, <2>3
<1>4. m \in G
  <2> HIDE DEF G
  <2>1. 0 \in Int /\ m \in Int /\ (0 <= m => 0 \in G)
    BY <1>1, <1>2
  <2>2. \A k \in 0 .. m - 1 : k \in G => k + 1 \in G
    BY <1>3
  <2>3. \A k \in 0 .. m : k \in G
    BY ONLY <2>1, <2>2, InductionUpTo
  <2> QED BY <1>1, <2>3
<1>5. PICK j : Has(b, z, d, m, j)
  BY <1>4
<1>6. j \in 0 .. n /\ d[m].out = SubSeq(b, 1, j)
  BY <1>5 DEF Has
<1>7. ASSUME m = Len(e) PROVE j = n
  <2> SUFFICES ASSUME j # n PROVE FALSE
    OBVIOUS
  <2>1. j + 1 \in 1 .. n /\ (j + 1) - 1 = j
    BY <1>1, <1>6
  <2>2. z[j + 1] = z[j] + Len(Escaped(b[j + 1])) /\ z[j + 1] <= Len(e)
    BY <2>1 DEF Stuffs, Laid
  <2>3. Len(Escaped(b[j + 1])) \in 1 .. 2 /\ z[j] \in Nat
    <3>1. b[j + 1] \in Byte
      BY <2>1, ElementOfSeq
    <3> QED BY <1>6, <3>1, EscapedByte DEF Stuffs
  <2>4. \/ m = z[j] + 1 /\ Len(Escaped(b[j + 1])) = 2
        \/ m = z[j]
    BY <1>5 DEF Has
  <2> DEFINE l == Len(Escaped(b[j + 1]))
             a == z[j]
             f == Len(e)
  <2>5. a + l <= f /\ l \in 1 .. 2 /\ a \in Nat /\ f \in Nat /\ ((f = a + 1 /\ l = 2) \/ f = a)
    BY <1>1, <1>7, <2>2, <2>3, <2>4
  <2> HIDE DEF l, a, f
  <2> QED BY <2>5
<1> QED BY <1>6, <1>7

-----------------------------------------------------------------------------
(* Where a frame ends for it                                               *)

\* The frame u has m bytes between its command and the first FEND behind it,
\* or the end of what was read.
Ends(u, m) ==
  /\ m \in 0 .. Len(u) - 2
  /\ \A i \in 1 .. m : u[i + 2] # FEND
  /\ m = Len(u) - 2 \/ u[m + 3] = FEND

LEMMA EndsSomewhere ==
  ASSUME NEW u \in Seq(Byte), Len(u) >= 3
  PROVE  \E m \in 0 .. Len(u) - 2 : Ends(u, m)
<1> DEFINE n == Len(u) - 2
           S == {k \in 0 .. n : k = n \/ u[k + 3] = FEND}
<1>1. n \in Nat /\ Len(u) \in Nat
  BY LenProperties
<1> HIDE DEF n
<1>2. S \in SUBSET Nat /\ n \in S
  BY <1>1
<1>3. PICK m \in S : \A k \in S : m <= k
  <2> HIDE DEF S
  <2> QED BY <1>2, LeastNumber
<1>4. ASSUME NEW i \in 1 .. m PROVE u[i + 2] # FEND
  <2>1. i - 1 \in 0 .. n /\ ~(m <= i - 1) /\ (i - 1) + 3 = i + 2
    BY <1>1, <1>3
  <2>2. i - 1 \notin S
    BY <1>3, <2>1
  <2> QED BY <2>1, <2>2
<1> QED BY <1>3, <1>4 DEF Ends, n

LEMMA DecodedIs ==
  ASSUME NEW u \in Seq(Byte), Len(u) >= 3, NEW m, Ends(u, m),
         NEW c \in Seq(Byte), Len(c) = m, \A i \in 1 .. m : c[i] = u[i + 2]
  PROVE  Decoded(u) = Decoding(c)[m].out
<1> DEFINE body == SubSeq(u, 3, Len(u))
           ends == {i \in DOMAIN body : body[i] = FEND}
           first == IF ends = {} THEN Len(body) + 1 ELSE CHOOSE i \in ends : \A j \in ends : i <= j
           n == Len(u) - 2
<1>1. n \in Nat /\ Len(u) \in Nat /\ m \in 0 .. n /\ m + 1 \in Nat
  BY LenProperties DEF Ends
<1>2. body \in Seq(Byte) /\ Len(body) = n /\ \A i \in 1 .. n : body[i] = u[i + 2]
  BY <1>1
<1>3. DOMAIN body = 1 .. n
  BY <1>2, LenProperties
<1>4. (\A i \in 1 .. m : u[i + 2] # FEND) /\ (m = n \/ u[m + 3] = FEND)
  BY DEF Ends
<1> HIDE DEF body, n
<1>5. \A i \in ends : i \in Nat /\ m + 1 <= i /\ i <= n
  <2> SUFFICES ASSUME NEW i \in ends PROVE i \in Nat /\ m + 1 <= i /\ i <= n
    OBVIOUS
  <2>1. i \in 1 .. n /\ body[i] = FEND
    BY <1>3
  <2>2. u[i + 2] = FEND
    BY <1>2, <2>1
  <2>3. i \notin 1 .. m
    BY <1>4, <2>2
  <2> QED BY <1>1, <2>1, <2>3
<1>6. m # n => m + 1 \in ends
  <2> SUFFICES ASSUME m # n PROVE m + 1 \in ends
    OBVIOUS
  <2>1. m + 1 \in 1 .. n /\ (m + 1) + 2 = m + 3
    BY <1>1
  <2>2. body[m + 1] = FEND
    BY <1>2, <1>4, <2>1
  <2> QED BY <1>3, <2>1, <2>2
<1>7. first = m + 1
  <2>1. CASE m = n
    <3>1. ends = {}
      <4>1. \A i \in ends : FALSE
        <5> HIDE DEF ends
        <5> QED BY <1>1, <1>5, <2>1
      <4> QED BY <4>1
    <3> QED BY <1>2, <2>1, <3>1
  <2>2. CASE m # n
    <3> HIDE DEF ends
    <3>1. m + 1 \in ends /\ \A j \in ends : m + 1 <= j
      BY <1>5, <1>6, <2>2
    <3> DEFINE i == CHOOSE i \in ends : \A j \in ends : i <= j
    <3>2. i \in ends /\ \A j \in ends : i <= j
      BY <3>1
    <3>3. first = i
      BY <3>1
    <3> HIDE DEF i, first
    <3>4. i \in Nat /\ i <= m + 1 /\ m + 1 <= i
      BY <1>5, <3>1, <3>2
    <3>5. i = m + 1
      BY <1>1, <3>4
    <3> QED BY <3>3, <3>5
  <2> QED BY <2>1, <2>2
<1> DEFINE s == SubSeq(body, 1, first - 1)
<1>8. Decoded(u) = Decoding(s)[first - 1].out
  BY DEF Decoded, body
<1> HIDE DEF first
<1>9. first - 1 = m
  BY <1>1, <1>7
<1>10. s = c
  <2>1. s = SubSeq(body, 1, m)
    BY <1>9
  <2> HIDE DEF s
  <2>2. s \in Seq(Byte) /\ Len(s) = m /\ \A i \in 1 .. m : s[i] = body[i]
    BY <1>1, <1>2, <2>1
  <2>3. \A i \in 1 .. m : i \in 1 .. n
    BY <1>1
  <2> QED BY <1>2, <2>2, <2>3, SeqEqual
<1> HIDE DEF s
<1> QED BY <1>8, <1>9, <1>10

\* The bytes of u between its command and its end.
LEMMA BytesOfFrame ==
  ASSUME NEW u \in Seq(Byte), Len(u) >= 3, NEW m \in 0 .. Len(u) - 2
  PROVE  \E c \in Seq(Byte) : Len(c) = m /\ \A i \in 1 .. m : c[i] = u[i + 2]
<1> DEFINE c == SubSeq(u, 3, m + 2)
<1>1. Len(u) \in Nat
  BY LenProperties
<1>2. c \in Seq(Byte) /\ Len(c) = m /\ \A i \in 1 .. m : c[i] = u[i + 2]
  BY <1>1
<1> QED BY <1>2

LEMMA DecodedType ==
  ASSUME NEW u \in Seq(Byte), Len(u) >= 3
  PROVE  Decoded(u) \in Seq(Byte)
<1>1. PICK m \in 0 .. Len(u) - 2 : Ends(u, m)
  BY EndsSomewhere
<1>2. PICK c \in Seq(Byte) : Len(c) = m /\ \A i \in 1 .. m : c[i] = u[i + 2]
  BY BytesOfFrame
<1>3. Decoded(u) = Decoding(c)[m].out
  BY <1>1, <1>2, DecodedIs
<1>4. m \in 0 .. Len(c)
  BY <1>1, <1>2, LenProperties
<1>5. Decoding(c)[m] \in Decoder
  BY <1>2, <1>4, DecodingDecodes DEF Decodes
<1> QED BY <1>3, <1>5, DecoderFields

\* f is a frame: a FEND, the command, the bytes e, a FEND.
Framed(cmd, e, f) ==
  /\ f \in Seq(Byte) /\ Len(f) = Len(e) + 3 /\ Len(e) \in Nat
  /\ f[1] = FEND /\ f[2] = cmd /\ f[Len(e) + 3] = FEND
  /\ \A i \in 1 .. Len(e) : f[i + 2] = e[i] /\ f[i + 2] # FEND

LEMMA EncodeFrames ==
  ASSUME NEW cmd \in Byte, NEW p \in Seq(Byte)
  PROVE  /\ Stuffs(p, Stuffed(p)) /\ Laid(p, Stuffed(p), EncodeAppend(p))
         /\ Framed(cmd, EncodeAppend(p), Encode(cmd, p))
<1> DEFINE e == EncodeAppend(p)
           head == << FEND, cmd >>
           end == << FEND >>
           he == head \o e
           f == he \o end
           l == Len(e)
<1>1. Stuffs(p, Stuffed(p)) /\ Laid(p, Stuffed(p), e)
  BY StuffedStuffs, EncodeLaid
<1>2. e \in Seq(Byte) /\ l \in Nat /\ \A i \in 1 .. l : e[i] # FEND
  <2>1. e \in Seq(Byte \ {FEND})
    BY <1>1 DEF Laid
  <2> HIDE DEF e
  <2>2. l \in Nat /\ \A i \in 1 .. l : e[i] \in Byte \ {FEND}
    BY <2>1, LenProperties, ElementOfSeq
  <2>3. e \in Seq(Byte)
    BY <2>1
  <2> QED BY <2>2, <2>3
<1>3. head \in Seq(Byte) /\ Len(head) = 2 /\ head[1] = FEND /\ head[2] = cmd
  BY SpecialBytes
<1>4. end \in Seq(Byte) /\ Len(end) = 1 /\ end[1] = FEND
  BY SpecialBytes
<1>5. Encode(cmd, p) = f
  BY DEF Encode
<1> HIDE DEF e, head, end, l
<1>6. Joins(Byte, head, 2, e, l, he)
  BY <1>2, <1>3, ConcatAt DEF l
<1> HIDE DEF he
<1>7. /\ he \in Seq(Byte) /\ Len(he) = 2 + l /\ 2 + l \in Nat
      /\ \A i \in 1 .. 2 : he[i] = head[i]
      /\ \A i \in 1 .. l : he[2 + i] = e[i]
  BY <1>2, <1>6 DEF Joins
<1>8. Joins(Byte, he, 2 + l, end, 1, f)
  BY <1>4, <1>7, ConcatAt
<1> HIDE DEF f
<1>9. /\ f \in Seq(Byte) /\ Len(f) = (2 + l) + 1
      /\ \A i \in 1 .. 2 + l : f[i] = he[i]
      /\ \A i \in 1 .. 1 : f[(2 + l) + i] = end[i]
  BY <1>8 DEF Joins
<1>10. f[1] = FEND /\ f[2] = cmd
  <2>1. 1 \in 1 .. 2 /\ 2 \in 1 .. 2 /\ 1 \in 1 .. 2 + l /\ 2 \in 1 .. 2 + l
    BY <1>2
  <2> QED BY <1>3, <1>7, <1>9, <2>1
<1>11. f[l + 3] = FEND
  <2>1. (2 + l) + 1 = l + 3 /\ 1 \in 1 .. 1
    BY <1>2
  <2>2. f[(2 + l) + 1] = end[1]
    BY <1>9, <2>1
  <2> QED BY <1>4, <2>1, <2>2
<1>12. ASSUME NEW i \in 1 .. l PROVE f[i + 2] = e[i]
  <2>1. 2 + i = i + 2 /\ i + 2 \in 1 .. 2 + l
    BY <1>2
  <2> QED BY <1>7, <1>9, <2>1
<1>13. Framed(cmd, e, f)
  <2>1. Len(f) = l + 3
    BY <1>2, <1>9
  <2> QED BY <1>2, <1>9, <1>10, <1>11, <1>12, <2>1 DEF Framed, l
<1> QED BY <1>1, <1>5, <1>13 DEF e

\* u is as much of f as it has room for, and perhaps more.
Begins(u, f) == \A i \in 1 .. Len(u) : i <= Len(f) => u[i] = f[i]

\* What is decoded of the beginning of a frame is the beginning of what it was
\* encoded from, and all of it if the frame is whole.
LEMMA FrameStart ==
  ASSUME NEW cmd \in Byte, NEW p \in Seq(Byte), NEW u \in Seq(Byte), Len(u) >= 3,
         NEW f, f = Encode(cmd, p), Begins(u, f)
  PROVE  \E j \in 0 .. Len(p) : Decoded(u) = SubSeq(p, 1, j) /\ (Len(u) >= Len(f) => j = Len(p))
<1> DEFINE e == EncodeAppend(p)
           l == Len(e)
           n == Len(u)
           m == IF n >= l + 3 THEN l ELSE n - 2
<1>1. Stuffs(p, Stuffed(p)) /\ Laid(p, Stuffed(p), e) /\ Framed(cmd, e, f)
  BY EncodeFrames
<1>2. /\ l \in Nat /\ Len(f) = l + 3 /\ f[l + 3] = FEND
      /\ \A i \in 1 .. l : f[i + 2] = e[i] /\ f[i + 2] # FEND
  BY <1>1 DEF Framed
<1>3. n \in Nat /\ n >= 3
  BY LenProperties
<1>4. \A i \in 1 .. n : i <= l + 3 => u[i] = f[i]
  BY <1>2 DEF Begins
<1> HIDE DEF e, l, n
<1>5. m \in 0 .. n - 2 /\ m \in 0 .. l /\ (n >= l + 3 => m = l)
  BY <1>2, <1>3
<1>6. ASSUME NEW i \in 1 .. m PROVE u[i + 2] = e[i] /\ u[i + 2] # FEND
  <2>1. i \in 1 .. l /\ i + 2 \in 1 .. n /\ i + 2 <= l + 3
    BY <1>2, <1>3, <1>5
  <2> QED BY <1>2, <1>4, <2>1
<1>7. m = n - 2 \/ u[m + 3] = FEND
  <2>1. CASE n >= l + 3
    <3>1. l + 3 \in 1 .. n /\ l + 3 <= l + 3 /\ m = l
      BY <1>2, <1>3, <2>1
    <3> QED BY <1>2, <1>4, <3>1
  <2>2. CASE ~(n >= l + 3)
    BY <2>2
  <2> QED BY <2>1, <2>2
<1> HIDE DEF m
<1>8. Ends(u, m)
  BY <1>5, <1>6, <1>7 DEF Ends, n
<1>9. PICK c \in Seq(Byte) : Len(c) = m /\ \A i \in 1 .. m : c[i] = u[i + 2]
  BY <1>3, <1>5, BytesOfFrame DEF n
<1>10. Decoded(u) = Decoding(c)[m].out
  BY <1>3, <1>8, <1>9, DecodedIs DEF n
<1>11. \A i \in 1 .. m : c[i] = e[i]
  BY <1>6, <1>9
<1>12. Decodes(c, Decoding(c))
  BY <1>9, DecodingDecodes
<1> DEFINE d == Decoding(c)
<1> HIDE DEF d
<1>13. \E j \in 0 .. Len(p) : d[m].out = SubSeq(p, 1, j) /\ (m = Len(e) => j = Len(p))
  <2> DEFINE z == Stuffed(p)
  <2>1. Stuffs(p, z) /\ Laid(p, z, e) /\ m \in 0 .. Len(e) /\ Decodes(c, d)
    BY <1>1, <1>5, <1>12 DEF l, d
  <2> HIDE DEF z
  <2>2. /\ p \in Seq(Byte) /\ c \in Seq(Byte) /\ Len(c) = m
        /\ \A i \in 1 .. m : c[i] = e[i]
    BY <1>9, <1>11
  <2> QED BY ONLY <2>1, <2>2, PrefixDecodes
<1>14. Len(u) >= Len(f) => m = Len(e)
  BY <1>2, <1>5 DEF n, l
<1> QED BY <1>10, <1>13, <1>14 DEF d

-----------------------------------------------------------------------------
(* What is taken from an answer                                            *)

\* A TNC that holds valid data.
Holding == tnc \in [settings : Settings, calldata : CallData]

\* The part of the types that is about the TNC and the line.
WireType ==
  /\ Holding
  /\ request \in {0, ParamsCmd, CallCmd}
  /\ sending \in Seq(Byte) /\ arrived \in Seq(Byte)
  /\ forwarded \in 0 .. MaxRadio

LEMMA Remainder ==
  ASSUME NEW n \in Nat, NEW m \in Nat \ {0}
  PROVE  n % m \in 0 .. m - 1 /\ n % m <= n /\ (n < m => n % m = n)
OBVIOUS

\* The bytes of the payload that _read_config_response counts.
Counts(n, chk) == IF chk THEN n - 1 ELSE n

LEMMA ByteCount ==
  ASSUME NEW n \in Nat, n >= 1, NEW chk \in BOOLEAN
  PROVE  /\ Counts(n, chk) \in Nat /\ Uint8(Counts(n, chk)) \in 0 .. LenRange - 1
         /\ Uint8(Counts(n, chk)) <= Counts(n, chk)
         /\ Counts(n, chk) < LenRange => Uint8(Counts(n, chk)) = Counts(n, chk)
<1> DEFINE k == Counts(n, chk)
<1>1. k \in Nat
  BY DEF Counts
<1> HIDE DEF k
<1>2. /\ k % LenRange \in 0 .. LenRange - 1 /\ k % LenRange <= k
      /\ k < LenRange => k % LenRange = k
  <2>1. LenRange \in Nat \ {0}
    BY TncConfigAssumption
  <2> QED BY <1>1, <2>1, Remainder
<1> QED BY <1>1, <1>2 DEF Uint8, k

\* What read_from_serial took of the line, and what it left.
LEMMA LineParts ==
  ASSUME WireType
  PROVE  /\ LineRead \in Seq(Byte) /\ Len(LineRead) \in Nat /\ Len(LineRead) <= Len(arrived)
         /\ \A i \in 1 .. Len(LineRead) : LineRead[i] = arrived[i]
         /\ SubSeq(arrived, Len(LineRead) + 1, Len(arrived)) \in Seq(Byte)
<1> DEFINE n == Len(arrived)
           k == IF n < LineSize THEN n ELSE LineSize
           u == SubSeq(arrived, 1, k)
<1>1. arrived \in Seq(Byte) /\ n \in Nat
  BY LenProperties DEF WireType
<1>2. k \in 0 .. n
  <2>1. LineSize \in Nat
    BY TncConfigAssumption
  <2> HIDE DEF n
  <2> QED BY <1>1, <2>1
<1>3. LineRead = u
  BY DEF LineRead
<1> HIDE DEF k
<1>4. u \in Seq(Byte) /\ Len(u) = k /\ \A i \in 1 .. k : u[i] = arrived[i]
  BY <1>1, <1>2
<1>5. SubSeq(arrived, k + 1, n) \in Seq(Byte)
  BY <1>1, <1>2
<1> HIDE DEF u
<1> QED BY <1>1, <1>2, <1>3, <1>4, <1>5

\* What got by the checks.
LEMMA ResponseTakes ==
  ASSUME NEW u \in Seq(Byte), NEW size \in Nat, NEW chk \in BOOLEAN,
         NEW out, out = Decoded(u), Response(u, size, chk) # << >>
  PROVE  /\ Len(u) >= 3 /\ out \in Seq(Byte) /\ Len(out) \in Nat /\ Len(out) >= 1
         /\ size = Uint8(Counts(Len(out), chk)) /\ size <= Counts(Len(out), chk)
         /\ Response(u, size, chk) = << SubSeq(out, 1, size) >>
         /\ chk => CalcCrc(SubSeq(out, 1, size)) = out[size + 1]
<1> DEFINE len == Uint8(Counts(Len(out), chk))
           crcOk == chk => CalcCrc(SubSeq(out, 1, len)) = out[len + 1]
<1>1. Response(u, size, chk) =
        IF Frame(u) /\ out # << >> /\ crcOk /\ len = size THEN << SubSeq(out, 1, len) >> ELSE << >>
  BY DEF Response, Counts
<1> HIDE DEF len, crcOk
<1>2. Frame(u) /\ out # << >> /\ crcOk /\ len = size
  BY <1>1
<1>3. Len(u) >= 3
  BY <1>2 DEF Frame
<1>4. out \in Seq(Byte)
  BY <1>3, DecodedType
<1>5. Len(out) \in Nat /\ Len(out) >= 1
  BY <1>2, <1>4, EmptySeq
<1>6. len <= Counts(Len(out), chk)
  BY <1>5, ByteCount DEF len
<1>7. Response(u, size, chk) = << SubSeq(out, 1, size) >>
  BY <1>1, <1>2
<1>8. chk => CalcCrc(SubSeq(out, 1, size)) = out[size + 1]
  BY <1>2 DEF crcOk
<1> QED BY <1>2, <1>3, <1>4, <1>5, <1>6, <1>7, <1>8 DEF len

LEMMA TakenSize ==
  ASSUME NEW u \in Seq(Byte), NEW size \in Nat, NEW chk \in BOOLEAN,
         Response(u, size, chk) # << >>
  PROVE  Len(Response(u, size, chk)[1]) = size
<1> DEFINE out == Decoded(u)
<1>1. /\ out \in Seq(Byte) /\ Len(out) \in Nat /\ Len(out) >= 1
      /\ size <= Counts(Len(out), chk)
      /\ Response(u, size, chk) = << SubSeq(out, 1, size) >>
  BY ResponseTakes
<1> HIDE DEF out
<1>2. size <= Len(out)
  BY <1>1 DEF Counts
<1>3. Len(SubSeq(out, 1, size)) = size
  BY <1>1, <1>2
<1> QED BY <1>1, <1>3

\* What a TNC encodes is decoded to what it was.
LEMMA RoundTrip ==
  ASSUME NEW cmd \in Byte, NEW p \in Seq(Byte), NEW f, f = Encode(cmd, p)
  PROVE  f \in Seq(Byte) /\ Frame(f) /\ Decoded(f) = p /\ Len(f) \in Nat /\ Len(f) >= 3
<1>1. f \in Seq(Byte) /\ Len(f) \in Nat /\ Len(f) >= 3 /\ f[1] = FEND
  <2>1. Framed(cmd, EncodeAppend(p), f)
    BY EncodeFrames
  <2> DEFINE l == Len(EncodeAppend(p))
  <2>2. f \in Seq(Byte) /\ l \in Nat /\ Len(f) = l + 3 /\ f[1] = FEND
    BY <2>1 DEF Framed
  <2> HIDE DEF l
  <2> QED BY <2>2
<1>2. Begins(f, f)
  BY DEF Begins
<1>3. PICK j \in 0 .. Len(p) : Decoded(f) = SubSeq(p, 1, j) /\ (Len(f) >= Len(f) => j = Len(p))
  BY <1>1, <1>2, FrameStart
<1>4. j = Len(p)
  BY <1>1, <1>3
<1>5. SubSeq(p, 1, Len(p)) = p
  <2> DEFINE s == SubSeq(p, 1, Len(p))
  <2>1. Len(p) \in Nat
    BY LenProperties
  <2>2. s \in Seq(Byte) /\ Len(s) = Len(p) /\ \A i \in 1 .. Len(p) : s[i] = p[i]
    BY <2>1
  <2> HIDE DEF s
  <2>3. s = p
    BY <2>2, SeqEqual
  <2> QED BY <2>3 DEF s
<1> QED BY <1>1, <1>3, <1>4, <1>5 DEF Frame

LEMMA CrcIsByte ==
  ASSUME NEW b \in Seq(Byte)
  PROVE  CalcCrc(b) \in Byte
<1> DEFINE x == Sum8(b)[Len(b)]
<1>1. Len(b) \in 0 .. Len(b)
  BY LenProperties
<1>2. x \in Byte
  BY <1>1, Sum8Sums DEF SumsUp
<1>3. CalcCrc(b) = 255 - x
  BY DEF CalcCrc
<1> HIDE DEF x
<1> QED BY <1>2, <1>3 DEF Byte

\* The payload of the answer with the parameters.
LEMMA ParamsPayload ==
  ASSUME NEW s \in Seq(Byte), NEW n \in Nat, n = Len(s), NEW p, p = Append(s, CalcCrc(s))
  PROVE  /\ p \in Seq(Byte) /\ Len(p) = n + 1 /\ p[n + 1] = CalcCrc(s) /\ SubSeq(p, 1, n) = s
<1>1. CalcCrc(s) \in Byte
  BY CrcIsByte
<1>2. /\ p \in Seq(Byte) /\ Len(p) = n + 1 /\ p[n + 1] = CalcCrc(s)
      /\ \A i \in 1 .. n : p[i] = s[i]
  BY <1>1, AppendProperties
<1> DEFINE q == SubSeq(p, 1, n)
<1>3. q \in Seq(Byte) /\ Len(q) = n /\ \A i \in 1 .. n : q[i] = p[i]
  BY <1>2
<1> HIDE DEF q
<1>4. q = s
  BY <1>2, <1>3, SeqEqual
<1> QED BY <1>2, <1>4 DEF q

LEMMA Sizes ==
  /\ LenRange \in Nat \ {0} /\ RespSize \in Nat
  /\ SettingsSize \in Nat /\ SettingsSize \in 1 .. LenRange - 1 /\ SettingsSize + 1 <= RespSize
  /\ CallDataSize \in Nat /\ CallDataSize \in 1 .. LenRange - 1 /\ CallDataSize <= RespSize
BY TncConfigAssumption

\* A number that is small enough is its own remainder.
LEMMA SmallRemainder ==
  ASSUME NEW n \in Nat, n < LenRange
  PROVE  Uint8(n) = n
<1>1. LenRange \in Nat \ {0}
  BY Sizes
<1> QED BY <1>1, Remainder DEF Uint8

LEMMA HeldData ==
  ASSUME Holding
  PROVE  /\ tnc.settings \in Seq(Byte) /\ Len(tnc.settings) = SettingsSize
         /\ tnc.calldata \in Seq(Byte) /\ Len(tnc.calldata) = CallDataSize
<1>1. tnc.settings \in Settings /\ tnc.calldata \in CallData
  BY DEF Holding
<1> QED BY <1>1, TncConfigAssumption

LEMMA AnswerParams ==
  ASSUME Holding
  PROVE  /\ Answer(ParamsCmd) \in Seq(Byte)
         /\ Response(Answer(ParamsCmd), SettingsSize, TRUE) = << tnc.settings >>
         /\ ~Overruns(Answer(ParamsCmd))
<1> DEFINE s == tnc.settings
           p == Append(s, CalcCrc(s))
           f == Answer(ParamsCmd)
           n == SettingsSize
<1>1. /\ s \in Seq(Byte) /\ Len(s) = n /\ n \in Nat /\ n < LenRange /\ n + 1 <= RespSize
      /\ n >= 1 /\ RespSize \in Nat
  BY HeldData, Sizes
<1>2. f = Encode(ParamsCmd, p) /\ ParamsCmd \in Byte
  BY DEF Answer, ParamsCmd, Byte
<1> HIDE DEF s, f, n
<1>3. p \in Seq(Byte) /\ Len(p) = n + 1 /\ p[n + 1] = CalcCrc(s) /\ SubSeq(p, 1, n) = s
  BY <1>1, ParamsPayload
<1> HIDE DEF p
<1>4. f \in Seq(Byte) /\ Frame(f) /\ Decoded(f) = p
  BY <1>2, <1>3, RoundTrip
<1>5. Uint8(Len(p) - 1) = n
  <2>1. Len(p) - 1 = n
    BY <1>1, <1>3
  <2> QED BY <1>1, <2>1, SmallRemainder
<1>6. p # << >>
  <2>1. Len(p) # 0
    BY <1>1, <1>3
  <2> QED BY <2>1, EmptySeq
<1>7. Response(f, n, TRUE) = << s >>
  BY <1>3, <1>4, <1>5, <1>6 DEF Response
<1>8. ~Overruns(f)
  BY <1>1, <1>3, <1>4 DEF Overruns
<1> QED BY <1>4, <1>7, <1>8 DEF f, s, n

LEMMA AnswerCall ==
  ASSUME Holding
  PROVE  /\ Answer(CallCmd) \in Seq(Byte)
         /\ Response(Answer(CallCmd), CallDataSize, FALSE) = << tnc.calldata >>
         /\ ~Overruns(Answer(CallCmd))
<1> DEFINE p == tnc.calldata
           f == Answer(CallCmd)
           n == CallDataSize
<1>1. /\ p \in Seq(Byte) /\ Len(p) = n /\ n \in Nat /\ n < LenRange /\ n <= RespSize
      /\ n >= 1 /\ RespSize \in Nat
  BY HeldData, Sizes
<1>2. f = Encode(CallCmd, p) /\ CallCmd \in Byte
  BY DEF Answer, ParamsCmd, CallCmd, Byte
<1> HIDE DEF p, f, n
<1>3. f \in Seq(Byte) /\ Frame(f) /\ Decoded(f) = p
  BY <1>1, <1>2, RoundTrip
<1>4. Uint8(Len(p)) = n
  BY <1>1, SmallRemainder
<1>5. p # << >>
  BY <1>1, EmptySeq
<1>6. SubSeq(p, 1, n) = p
  <2> DEFINE q == SubSeq(p, 1, n)
  <2>1. q \in Seq(Byte) /\ Len(q) = n /\ \A i \in 1 .. n : q[i] = p[i]
    BY <1>1
  <2> HIDE DEF q
  <2>2. q = p
    BY <1>1, <2>1, SeqEqual
  <2> QED BY <2>2 DEF q
<1>7. Response(f, n, FALSE) = << p >>
  BY <1>3, <1>4, <1>5, <1>6 DEF Response
<1>8. ~Overruns(f)
  BY <1>1, <1>3 DEF Overruns
<1> QED BY <1>3, <1>7, <1>8 DEF f, p, n

-----------------------------------------------------------------------------
(* Types of the tool and the line                                          *)

\* One step of tnc_config or the TNC keeps what the TNC holds.
LEMMA HeldKept == [TncNext]_tncVars => tnc' = tnc
BY DEF TncNext, Tool, Tnc, Main, OpenPort, Ask, AskParams, AskCall, ReadParams, ReadCall,
       ReadTimesOut, Reply, Forward, Arrive, TakeLine, tncVars, tool, wire

LEMMA FrameBytes ==
  ASSUME Holding
  PROVE  /\ \A cmd \in {ParamsCmd, CallCmd} : Answer(cmd) \in Seq(Byte)
         /\ \A p \in Radio : Encode(0, p) \in Seq(Byte)
<1>1. \A cmd \in {ParamsCmd, CallCmd} : Answer(cmd) \in Seq(Byte)
  BY AnswerParams, AnswerCall
<1>2. ASSUME NEW p \in Radio PROVE Encode(0, p) \in Seq(Byte)
  <2>1. p \in Seq(Byte) /\ 0 \in Byte
    BY TncConfigAssumption DEF Byte
  <2> QED BY <2>1, RoundTrip
<1> QED BY <1>1, <1>2

LEMMA InitTncType == TncInit => TncTypeOK
<1> SUFFICES ASSUME TncInit PROVE TncTypeOK
  OBVIOUS
<1>1. << >> \in Seq(Byte)
  BY EmptySeq
<1>2. MaxRadio \in Nat
  BY TncConfigAssumption
<1>3. 0 \in 0 .. MaxRadio
  BY <1>2
<1> QED BY <1>1, <1>3 DEF TncInit, TncTypeOK

\* The part of the types that the tool's own steps are about.
ToolType ==
  /\ pc \in {"main", "open", "askParams", "readParams", "askCall", "readCall",
             "done", "failed", "exit", "overrun", "hung"}
  /\ settings # << >> => Len(settings) = SettingsSize
  /\ calldata # << >> => pc = "done" /\ Len(calldata) = CallDataSize
  /\ healthy \in BOOLEAN

LEMMA TypeParts == TncTypeOK <=> ToolType /\ WireType
BY DEF TncTypeOK, ToolType, WireType, Holding

LEMMA NextToolType == ToolType /\ WireType /\ [TncNext]_tncVars => ToolType'
<1> SUFFICES ASSUME ToolType, WireType, [TncNext]_tncVars PROVE ToolType'
  OBVIOUS
<1>1. CASE Main
  BY <1>1 DEF Main, ToolType
<1>2. CASE OpenPort
  BY <1>2 DEF OpenPort, ToolType
<1>3. CASE AskParams \/ AskCall
  BY <1>3 DEF AskParams, AskCall, Ask, ToolType
<1>4. CASE ReadParams
  <2> DEFINE got == Response(LineRead, SettingsSize, TRUE)
             over == Overruns(LineRead)
             ok == got # << >> /\ ~over
  <2>1. got # << >> => Len(got[1]) = SettingsSize
    BY Sizes, LineParts, TakenSize
  <2>2. /\ pc = "readParams" /\ settings' = IF ok THEN got[1] ELSE settings
        /\ pc' = IF over THEN "overrun" ELSE IF ok THEN "askCall" ELSE "failed"
        /\ healthy' = (healthy /\ LineRead = Answer(ParamsCmd)) /\ calldata' = calldata
    BY <1>4 DEF ReadParams
  <2> HIDE DEF got, over
  <2>3. calldata = << >>
    BY <2>2 DEF ToolType
  <2>4. healthy' \in BOOLEAN
    BY <2>2
  <2> QED BY <2>1, <2>2, <2>3, <2>4 DEF ToolType
<1>5. CASE ReadCall
  <2> DEFINE got == Response(LineRead, CallDataSize, FALSE)
             over == Overruns(LineRead)
             ok == got # << >> /\ ~over
  <2>1. got # << >> => Len(got[1]) = CallDataSize
    BY Sizes, LineParts, TakenSize
  <2>2. /\ pc = "readCall" /\ calldata' = IF ok THEN got[1] ELSE calldata
        /\ pc' = IF over THEN "overrun" ELSE IF ok THEN "done" ELSE "failed"
        /\ healthy' = (healthy /\ LineRead = Answer(CallCmd)) /\ settings' = settings
    BY <1>5 DEF ReadCall
  <2> HIDE DEF got, over
  <2>3. calldata = << >>
    BY <2>2 DEF ToolType
  <2>4. healthy' \in BOOLEAN
    BY <2>2
  <2> QED BY <2>1, <2>2, <2>3, <2>4 DEF ToolType
<1>6. CASE ReadTimesOut
  BY <1>6 DEF ReadTimesOut, ToolType
<1>7. CASE Tnc \/ UNCHANGED tncVars
  <2>1. UNCHANGED << pc, settings, calldata, healthy >>
    BY <1>7 DEF Tnc, Reply, Forward, Arrive, tncVars, tool
  <2> QED BY <2>1 DEF ToolType
<1> QED BY <1>1, <1>2, <1>3, <1>4, <1>5, <1>6, <1>7 DEF TncNext, Tool

LEMMA NextWireType == WireType /\ [TncNext]_tncVars => WireType'
<1> SUFFICES ASSUME WireType, [TncNext]_tncVars PROVE WireType'
  OBVIOUS
<1>0. Holding'
  BY HeldKept DEF WireType, Holding
<1>1. CASE Main \/ OpenPort \/ ReadTimesOut \/ UNCHANGED tncVars
  <2>1. UNCHANGED wire
    BY <1>1 DEF Main, OpenPort, ReadTimesOut, tncVars
  <2> QED BY <1>0, <2>1 DEF WireType, wire
<1>2. CASE AskParams \/ AskCall
  BY <1>0, <1>2 DEF AskParams, AskCall, Ask, WireType
<1>3. CASE ReadParams \/ ReadCall
  <2>1. /\ arrived' = SubSeq(arrived, Len(LineRead) + 1, Len(arrived))
        /\ UNCHANGED << request, sending, forwarded >>
    BY <1>3 DEF ReadParams, ReadCall, TakeLine
  <2>2. arrived' \in Seq(Byte)
    BY <2>1, LineParts
  <2> QED BY <1>0, <2>1, <2>2 DEF WireType
<1>4. CASE Reply
  <2>1. /\ request # 0 /\ sending' = sending \o Answer(request) /\ request' = 0
        /\ UNCHANGED << arrived, forwarded >>
    BY <1>4 DEF Reply
  <2>2. Answer(request) \in Seq(Byte) /\ sending \in Seq(Byte)
    BY <2>1, FrameBytes DEF WireType
  <2>3. sending' \in Seq(Byte)
    BY <2>1, <2>2, ConcatProperties
  <2> QED BY <1>0, <2>1, <2>3 DEF WireType
<1>5. CASE Forward
  <2>1. /\ forwarded < MaxRadio /\ forwarded' = forwarded + 1
        /\ UNCHANGED << request, arrived >>
    BY <1>5 DEF Forward
  <2>2. PICK p \in Radio : sending' = sending \o Encode(0, p)
    BY <1>5 DEF Forward
  <2>3. Encode(0, p) \in Seq(Byte) /\ sending \in Seq(Byte)
    BY FrameBytes DEF WireType
  <2>4. sending' \in Seq(Byte)
    BY <2>2, <2>3, ConcatProperties
  <2>5. forwarded' \in 0 .. MaxRadio
    <3>1. MaxRadio \in Nat /\ forwarded \in 0 .. MaxRadio
      BY TncConfigAssumption DEF WireType
    <3> QED BY <2>1, <3>1
  <2> QED BY <1>0, <2>1, <2>4, <2>5 DEF WireType
<1>6. CASE Arrive
  <2>1. /\ sending # << >> /\ sending' = Tail(sending) /\ arrived' = Append(arrived, Head(sending))
        /\ UNCHANGED << request, forwarded >>
    BY <1>6 DEF Arrive
  <2>2. Head(sending) \in Byte /\ Tail(sending) \in Seq(Byte)
    BY <2>1, HeadTailProperties DEF WireType
  <2>3. arrived' \in Seq(Byte)
    BY <2>1, <2>2, AppendProperties DEF WireType
  <2> QED BY <1>0, <2>1, <2>2, <2>3 DEF WireType
<1> QED BY <1>1, <1>2, <1>3, <1>4, <1>5, <1>6 DEF TncNext, Tool, Tnc

-----------------------------------------------------------------------------
(* An exchange in which nothing went wrong                                 *)

HealthyInv ==
  /\ healthy => pc \notin {"failed", "overrun", "hung"}
  /\ healthy /\ pc \in {"askCall", "readCall", "done"} => settings = tnc.settings
  /\ healthy /\ pc = "done" => calldata = tnc.calldata

LEMMA NextHealthy == ToolType /\ WireType /\ HealthyInv /\ [TncNext]_tncVars => HealthyInv'
<1> SUFFICES ASSUME ToolType, WireType, HealthyInv, [TncNext]_tncVars PROVE HealthyInv'
  OBVIOUS
<1>0. tnc' = tnc
  BY HeldKept
<1>1. CASE Main
  BY <1>0, <1>1 DEF Main, HealthyInv
<1>2. CASE OpenPort
  BY <1>0, <1>2 DEF OpenPort, HealthyInv
<1>3. CASE AskParams \/ AskCall
  BY <1>0, <1>3 DEF AskParams, AskCall, Ask, HealthyInv
<1>4. CASE ReadParams
  <2> DEFINE got == Response(LineRead, SettingsSize, TRUE)
             over == Overruns(LineRead)
             ok == got # << >> /\ ~over
  <2>1. healthy' => got = << tnc.settings >> /\ ~over
    BY <1>4, AnswerParams DEF ReadParams, WireType
  <2>2. /\ settings' = IF ok THEN got[1] ELSE settings
        /\ pc' = IF over THEN "overrun" ELSE IF ok THEN "askCall" ELSE "failed"
    BY <1>4 DEF ReadParams
  <2> HIDE DEF got, over
  <2>3. healthy' => pc' = "askCall" /\ settings' = tnc.settings
    <3> SUFFICES ASSUME healthy' PROVE pc' = "askCall" /\ settings' = tnc.settings
      OBVIOUS
    <3>1. got # << >> /\ got[1] = tnc.settings /\ ~over
      BY <2>1
    <3> QED BY <2>2, <3>1
  <2> QED BY <1>0, <2>3 DEF HealthyInv
<1>5. CASE ReadCall
  <2> DEFINE got == Response(LineRead, CallDataSize, FALSE)
             over == Overruns(LineRead)
             ok == got # << >> /\ ~over
  <2>1. healthy' => healthy /\ got = << tnc.calldata >> /\ ~over
    BY <1>5, AnswerCall DEF ReadCall, WireType
  <2>2. /\ pc = "readCall" /\ settings' = settings
        /\ calldata' = IF ok THEN got[1] ELSE calldata
        /\ pc' = IF over THEN "overrun" ELSE IF ok THEN "done" ELSE "failed"
    BY <1>5 DEF ReadCall
  <2> HIDE DEF got, over
  <2>3. healthy' => pc' = "done" /\ calldata' = tnc.calldata
    <3> SUFFICES ASSUME healthy' PROVE pc' = "done" /\ calldata' = tnc.calldata
      OBVIOUS
    <3>1. got # << >> /\ got[1] = tnc.calldata /\ ~over
      BY <2>1
    <3> QED BY <2>2, <3>1
  <2> QED BY <1>0, <2>1, <2>2, <2>3 DEF HealthyInv
<1>6. CASE ReadTimesOut
  BY <1>6 DEF ReadTimesOut, HealthyInv
<1>7. CASE Tnc \/ UNCHANGED tncVars
  <2>1. UNCHANGED << pc, settings, calldata, healthy >>
    BY <1>7 DEF Tnc, Reply, Forward, Arrive, tncVars, tool
  <2> QED BY <1>0, <2>1 DEF HealthyInv
<1> QED BY <1>1, <1>2, <1>3, <1>4, <1>5, <1>6, <1>7 DEF TncNext, Tool

TncInv == ToolType /\ WireType /\ HealthyInv

LEMMA TncInvariant == TncSpec => []TncInv
<1>1. TncInit => TncInv
  <2>1. TncInit => HealthyInv
    BY DEF TncInit, HealthyInv
  <2> QED BY <2>1, InitTncType, TypeParts DEF TncInv
<1>2. TncInv /\ [TncNext]_tncVars => TncInv'
  BY NextToolType, NextWireType, NextHealthy DEF TncInv
<1> QED BY <1>1, <1>2, PTL DEF TncSpec

\* tnc_config.c: what is kept of an answer has the size of the struct it is copied
\* to, whatever was read, and call data is there only if the tool ended well; for
\* radio frames of any length, a tool that overruns resp keeping nothing of it.
THEOREM TncTypeCorrect == TncSpec => []TncTypeOK
<1>1. TncInv => TncTypeOK
  BY TypeParts DEF TncInv
<1> QED BY <1>1, TncInvariant, PTL

\* When every answer came in time, whole and alone, tnc_config ends well with what
\* the TNC holds: for all parameters and call data, whichever bytes are escaped.
THEOREM HealthySucceeds == TncSpec => []HealthyExchangeSucceeds
<1>1. TncInv => HealthyExchangeSucceeds
  BY DEF TncInv, HealthyInv, HealthyExchangeSucceeds
<1> QED BY <1>1, TncInvariant, PTL

-----------------------------------------------------------------------------
(* The parameters are the TNC's                                            *)

\* The frames that may be first on the line, and a line that begins with one.
Firsts == {Encode(0, p) : p \in Radio} \cup {Answer(ParamsCmd)}

StartsWith(l, f) == Len(f) <= Len(l) /\ \A i \in 1 .. Len(f) : l[i] = f[i]

Opens(l) == l # << >> => \E f \in Firsts : StartsWith(l, f)

\* Nothing was read so far, and only the parameters may have been asked for.
Unread == pc \in {"main", "open", "askParams", "readParams"}

SettingsInv ==
  /\ Unread => request \in {0, ParamsCmd} /\ Opens(arrived \o sending)
  /\ Unread => settings = << >>
  /\ pc \in {"askCall", "readCall"} => settings # << >>
  /\ SettingsOfOneFrame

LEMMA FirstsAreFrames ==
  ASSUME Holding, NEW f \in Firsts
  PROVE  f \in Seq(Byte)
BY FrameBytes DEF Firsts

LEMMA OpensOn ==
  ASSUME Holding, NEW l \in Seq(Byte), Opens(l), NEW g \in Firsts, NEW k, k = l \o g
  PROVE  k \in Seq(Byte) /\ Opens(k)
<1> DEFINE x == Len(l)
           y == Len(g)
<1>1. g \in Seq(Byte) /\ x \in Nat /\ y \in Nat
  BY FirstsAreFrames, LenProperties
<1>2. Joins(Byte, l, x, g, y, k)
  BY <1>1, ConcatAt
<1>3. /\ k \in Seq(Byte) /\ Len(k) = x + y
      /\ \A i \in 1 .. x : k[i] = l[i]
      /\ \A i \in 1 .. y : k[x + i] = g[i]
  BY <1>2 DEF Joins
<1>4. CASE l = << >>
  <2>1. x = 0
    BY <1>4
  <2> HIDE DEF x, y
  <2>2. \A i \in 1 .. y : k[i] = g[i]
    BY <1>1, <1>3, <2>1
  <2>3. Len(k) = y
    BY <1>1, <1>3, <2>1
  <2>4. StartsWith(k, g)
    BY <1>1, <2>2, <2>3 DEF StartsWith, y
  <2> QED BY <1>3, <2>4 DEF Opens
<1>5. CASE l # << >>
  <2>1. PICK f \in Firsts : StartsWith(l, f)
    BY <1>5 DEF Opens
  <2> DEFINE z == Len(f)
  <2>2. z \in Nat /\ z <= x /\ \A i \in 1 .. z : l[i] = f[i]
    BY <2>1, FirstsAreFrames, LenProperties DEF StartsWith
  <2> HIDE DEF x, y, z
  <2>3. z <= Len(k) /\ \A i \in 1 .. z : k[i] = f[i]
    BY <1>1, <1>3, <2>2
  <2>4. StartsWith(k, f)
    BY <2>3 DEF StartsWith, z
  <2> QED BY <1>3, <2>4 DEF Opens
<1> QED BY <1>4, <1>5

\* A frame sent behind the others, and a byte that gets across.
LEMMA SentBehind ==
  ASSUME WireType, Opens(arrived \o sending), NEW g \in Firsts
  PROVE  Opens(arrived \o (sending \o g))
<1> DEFINE l == arrived \o sending
<1>1. arrived \in Seq(Byte) /\ sending \in Seq(Byte) /\ Holding
  BY DEF WireType
<1>2. g \in Seq(Byte)
  BY <1>1, FirstsAreFrames
<1>3. l \in Seq(Byte) /\ Opens(l)
  BY <1>1, ConcatProperties
<1>4. l \o g = arrived \o (sending \o g)
  BY <1>1, <1>2, ConcatAssociative
<1> HIDE DEF l
<1>5. Opens(l \o g)
  BY <1>1, <1>3, OpensOn
<1> QED BY <1>4, <1>5

LEMMA ByteAcross ==
  ASSUME NEW a \in Seq(Byte), NEW s \in Seq(Byte), s # << >>
  PROVE  Append(a, Head(s)) \o Tail(s) = a \o s
<1> DEFINE h == Head(s)
           t == Tail(s)
           one == << h >>
<1>1. h \in Byte /\ t \in Seq(Byte)
  BY HeadTailProperties
<1>2. s = one \o t
  <2> DEFINE u == one \o t
  <2>1. /\ Len(s) \in Nat /\ Len(s) >= 1 /\ h = s[1] /\ Len(t) = Len(s) - 1
        /\ \A i \in 1 .. Len(t) : t[i] = s[i + 1]
    BY EmptySeq, HeadTailProperties
  <2>2. one \in Seq(Byte) /\ Len(one) = 1 /\ one[1] = h
    BY <1>1
  <2> DEFINE y == Len(t)
  <2>3. y \in Nat
    BY <1>1, LenProperties
  <2> HIDE DEF h, t, one
  <2>4. Joins(Byte, one, 1, t, y, u)
    BY <1>1, <2>2, <2>3, ConcatAt
  <2> HIDE DEF u, y
  <2>5. /\ u \in Seq(Byte) /\ Len(u) = 1 + y
        /\ \A i \in 1 .. 1 : u[i] = one[i]
        /\ \A i \in 1 .. y : u[1 + i] = t[i]
    BY <2>4 DEF Joins
  <2>6. Len(s) = 1 + y
    BY <2>1, <2>3 DEF y
  <2>7. ASSUME NEW i \in 1 .. Len(s) PROVE s[i] = u[i]
    <3>1. CASE i = 1
      <4>1. u[1] = one[1]
        BY <2>5
      <4> QED BY <2>1, <2>2, <3>1, <4>1
    <3>2. CASE i # 1
      <4>1. i - 1 \in 1 .. y /\ 1 + (i - 1) = i /\ (i - 1) + 1 = i
        BY <2>3, <2>6, <3>2
      <4>2. u[1 + (i - 1)] = t[i - 1] /\ t[i - 1] = s[(i - 1) + 1]
        BY <2>1, <2>5, <4>1 DEF y
      <4> QED BY <4>1, <4>2
    <3> QED BY <3>1, <3>2
  <2>8. Len(s) = Len(u)
    BY <2>5, <2>6
  <2> QED BY <2>5, <2>7, <2>8, SeqEqual DEF u
<1>3. one \in Seq(Byte) /\ Append(a, h) = a \o one
  BY <1>1, AppendedLast
<1> HIDE DEF h, t, one
<1>4. (a \o one) \o t = a \o (one \o t)
  <2>1. a \in Seq(Byte) /\ one \in Seq(Byte) /\ t \in Seq(Byte)
    BY <1>1, <1>3
  <2> QED BY ONLY <2>1, ConcatAssociative
<1> QED BY <1>2, <1>3, <1>4 DEF h, t

\* What passes for parameters, out of the beginning of a payload.
LEMMA PassesFor ==
  ASSUME NEW p \in Seq(Byte), NEW j \in 0 .. Len(p), NEW out, out = SubSeq(p, 1, j),
         NEW size \in Nat, size <= j - 1
  PROVE  /\ SubSeq(out, 1, size) = SubSeq(p, 1, size) /\ out[size + 1] = p[size + 1]
         /\ Len(p) > size /\ Len(out) = j
<1>1. Len(p) \in Nat
  BY LenProperties
<1>2. out \in Seq(Byte) /\ Len(out) = j /\ \A i \in 1 .. j : out[i] = p[i]
  BY <1>1
<1> DEFINE a == SubSeq(out, 1, size)
           b == SubSeq(p, 1, size)
<1>3. a \in Seq(Byte) /\ Len(a) = size /\ \A i \in 1 .. size : a[i] = out[i]
  BY <1>1, <1>2
<1>4. b \in Seq(Byte) /\ Len(b) = size /\ \A i \in 1 .. size : b[i] = p[i]
  BY <1>1
<1> HIDE DEF a, b
<1>5. \A i \in 1 .. size : i \in 1 .. j
  BY <1>1
<1>6. a = b
  BY <1>2, <1>3, <1>4, <1>5, SeqEqual
<1>7. size + 1 \in 1 .. j /\ Len(p) > size
  BY <1>1
<1> QED BY <1>2, <1>6, <1>7 DEF a, b

\* What is read of a frame that was encoded from p.
LEMMA TakenOfFrame ==
  ASSUME NEW cmd \in Byte, NEW p \in Seq(Byte), NEW u \in Seq(Byte), NEW size \in Nat,
         NEW f, f = Encode(cmd, p), Begins(u, f), Response(u, size, TRUE) # << >>
  PROVE  /\ Response(u, size, TRUE) = << SubSeq(p, 1, size) >>
         /\ Len(p) > size /\ CalcCrc(SubSeq(p, 1, size)) = p[size + 1]
<1> DEFINE out == Decoded(u)
<1>1. /\ Len(u) >= 3 /\ Len(out) \in Nat
      /\ size <= Counts(Len(out), TRUE)
      /\ Response(u, size, TRUE) = << SubSeq(out, 1, size) >>
      /\ CalcCrc(SubSeq(out, 1, size)) = out[size + 1]
  BY ResponseTakes
<1>2. PICK j \in 0 .. Len(p) : out = SubSeq(p, 1, j)
  BY <1>1, FrameStart
<1> HIDE DEF out
<1>3. Len(out) = j
  <2>1. Len(p) \in Nat
    BY LenProperties
  <2> QED BY <1>2, <2>1
<1>4. size <= j - 1
  BY <1>1, <1>3 DEF Counts
<1>5. /\ SubSeq(out, 1, size) = SubSeq(p, 1, size) /\ out[size + 1] = p[size + 1] /\ Len(p) > size
  BY <1>2, <1>4, PassesFor
<1> QED BY <1>1, <1>5

\* What is read of an answer or of a payload from the radio decodes to the
\* beginning of what it was encoded from.
LEMMA ReadOfFrame ==
  ASSUME NEW cmd \in Byte, NEW p \in Seq(Byte), NEW u \in Seq(Byte), Len(u) >= 3,
         NEW f, f = Encode(cmd, p), Begins(u, f)
  PROVE  Len(Decoded(u)) \in Nat /\ Len(Decoded(u)) <= Len(p)
<1>1. PICK j \in 0 .. Len(p) : Decoded(u) = SubSeq(p, 1, j)
  BY FrameStart
<1>2. Len(p) \in Nat
  BY LenProperties
<1>3. Len(SubSeq(p, 1, j)) = j
  BY <1>2
<1> QED BY <1>1, <1>2, <1>3

\* The first read begins with the answer or with a frame from the radio.
LEMMA FirstOnLine ==
  ASSUME WireType, Opens(arrived \o sending), arrived # << >>
  PROVE  \E f \in Firsts : Begins(LineRead, f)
<1> DEFINE l == arrived \o sending
           x == Len(arrived)
           y == Len(sending)
           u == LineRead
<1>1. arrived \in Seq(Byte) /\ sending \in Seq(Byte) /\ Holding /\ x \in Nat /\ y \in Nat
  BY LenProperties DEF WireType
<1>2. Joins(Byte, arrived, x, sending, y, l)
  BY <1>1, ConcatAt
<1>3. l \in Seq(Byte) /\ Len(l) = x + y /\ \A i \in 1 .. x : l[i] = arrived[i]
  BY <1>2 DEF Joins
<1>4. x # 0
  BY <1>1, EmptySeq
<1>5. Opens(l)
  OBVIOUS
<1>6. Len(u) \in Nat /\ Len(u) <= x /\ \A i \in 1 .. Len(u) : u[i] = arrived[i]
  BY LineParts
<1> HIDE DEF l, u
<1>7. l # << >>
  <2>1. Len(l) # 0
    BY <1>1, <1>3, <1>4
  <2> QED BY <2>1, EmptySeq
<1>8. PICK f \in Firsts : StartsWith(l, f)
  BY <1>5, <1>7 DEF Opens
<1>9. Begins(u, f)
  <2> SUFFICES ASSUME NEW i \in 1 .. Len(u), i <= Len(f) PROVE u[i] = f[i]
    BY DEF Begins
  <2>1. Len(f) \in Nat
    BY <1>1, FirstsAreFrames, LenProperties
  <2>2. i \in 1 .. Len(f) /\ i \in 1 .. x
    BY <1>1, <1>6, <2>1
  <2>3. l[i] = f[i]
    BY <1>8, <2>2 DEF StartsWith
  <2> QED BY <1>3, <1>6, <2>2, <2>3
<1> QED BY <1>9 DEF u

\* What the first read takes for parameters, and what it overruns resp with.
LEMMA FirstRead ==
  ASSUME WireType, Opens(arrived \o sending), arrived # << >>
  PROVE  /\ Response(LineRead, SettingsSize, TRUE) # << >> =>
              \/ Response(LineRead, SettingsSize, TRUE) = << tnc.settings >>
              \/ \E p \in Radio : /\ PassesForSettings(p)
                                  /\ Response(LineRead, SettingsSize, TRUE)
                                       = << SubSeq(p, 1, SettingsSize) >>
         /\ Overruns(LineRead) => \E p \in Radio : Len(p) > RespSize
<1> DEFINE n == SettingsSize
           u == LineRead
<1>1. u \in Seq(Byte) /\ n \in Nat /\ n + 1 <= RespSize /\ RespSize \in Nat /\ Holding
  BY LineParts, Sizes DEF WireType
<1>2. PICK f \in Firsts : Begins(u, f)
  BY FirstOnLine
<1>3. Overruns(u) => Len(u) >= 3 /\ Len(Decoded(u)) > RespSize
  BY DEF Overruns, Frame
<1> HIDE DEF u, n
<1>4. CASE f \in {Encode(0, p) : p \in Radio}
  <2>1. PICK p \in Radio : f = Encode(0, p)
    BY <1>4
  <2>2. p \in Seq(Byte) /\ 0 \in Byte /\ Len(p) \in Nat
    BY TncConfigAssumption, LenProperties DEF Byte
  <2>3. Response(u, n, TRUE) # << >> =>
          /\ Response(u, n, TRUE) = << SubSeq(p, 1, n) >>
          /\ Len(p) > n /\ CalcCrc(SubSeq(p, 1, n)) = p[n + 1]
    BY <1>1, <1>2, <2>1, <2>2, TakenOfFrame
  <2>4. Overruns(u) => Len(p) > RespSize
    <3> SUFFICES ASSUME Overruns(u) PROVE Len(p) > RespSize
      OBVIOUS
    <3>1. Len(Decoded(u)) \in Nat /\ Len(Decoded(u)) <= Len(p)
      BY <1>1, <1>2, <1>3, <2>1, <2>2, ReadOfFrame
    <3> QED BY <1>1, <1>3, <2>2, <3>1
  <2> QED BY <2>1, <2>3, <2>4 DEF PassesForSettings, n, u
<1>5. CASE f = Answer(ParamsCmd)
  <2> DEFINE s == tnc.settings
             p == Append(s, CalcCrc(s))
  <2>1. s \in Seq(Byte) /\ Len(s) = n
    BY <1>1, HeldData DEF n
  <2>2. f = Encode(ParamsCmd, p) /\ ParamsCmd \in Byte
    BY <1>5 DEF Answer, ParamsCmd, Byte
  <2> HIDE DEF s
  <2>3. p \in Seq(Byte) /\ SubSeq(p, 1, n) = s /\ Len(p) = n + 1
    BY <1>1, <2>1, ParamsPayload
  <2> HIDE DEF p
  <2>4. Response(u, n, TRUE) # << >> => Response(u, n, TRUE) = << SubSeq(p, 1, n) >>
    BY <1>1, <1>2, <2>2, <2>3, TakenOfFrame
  <2>5. ~Overruns(u)
    <3> SUFFICES ASSUME Overruns(u) PROVE FALSE
      OBVIOUS
    <3>1. Len(Decoded(u)) \in Nat /\ Len(Decoded(u)) <= Len(p)
      BY <1>1, <1>2, <1>3, <2>2, <2>3, ReadOfFrame
    <3> QED BY <1>1, <1>3, <2>3, <3>1
  <2> QED BY <2>3, <2>4, <2>5 DEF s, n, u
<1> QED BY <1>2, <1>4, <1>5 DEF Firsts

LEMMA NextUnread ==
  ASSUME WireType, SettingsInv, [TncNext]_tncVars, Unread'
  PROVE  request' \in {0, ParamsCmd} /\ Opens(arrived \o sending)'
<1> DEFINE l == arrived \o sending
<1>0. tnc' = tnc
  BY HeldKept
<1> SUFFICES request' \in {0, ParamsCmd} /\ Opens(arrived' \o sending')
  BY <1>0 DEF Opens, Firsts, Answer
<1>2. CASE Main \/ OpenPort \/ ReadTimesOut \/ UNCHANGED tncVars
  <2>1. Unread /\ UNCHANGED << request, sending, arrived >>
    BY <1>2 DEF Main, OpenPort, ReadTimesOut, tncVars, tool, wire, Unread
  <2> QED BY <2>1 DEF SettingsInv
<1>3. CASE AskParams \/ AskCall
  <2>1. /\ Unread /\ UNCHANGED << sending, arrived >> /\ request' \in {request, ParamsCmd}
    BY <1>3 DEF AskParams, AskCall, Ask, Unread
  <2> QED BY <2>1 DEF SettingsInv
<1>4. CASE ReadParams \/ ReadCall
  BY <1>4 DEF ReadParams, ReadCall, Unread
<1>5. CASE Reply
  <2>1. /\ Unread /\ request # 0 /\ request' = 0 /\ arrived' = arrived
        /\ sending' = sending \o Answer(request)
    BY <1>5 DEF Reply, tool, Unread
  <2>2. request = ParamsCmd /\ Opens(l)
    BY <2>1 DEF SettingsInv
  <2>3. Answer(ParamsCmd) \in Firsts
    BY DEF Firsts
  <2>4. Opens(arrived \o (sending \o Answer(ParamsCmd)))
    BY <2>2, <2>3, SentBehind
  <2> QED BY <2>1, <2>2, <2>4
<1>6. CASE Forward
  <2>1. PICK p \in Radio : sending' = sending \o Encode(0, p)
    BY <1>6 DEF Forward
  <2>2. Unread /\ request' = request /\ arrived' = arrived
    BY <1>6 DEF Forward, tool, Unread
  <2>3. request \in {0, ParamsCmd} /\ Opens(l)
    BY <2>2 DEF SettingsInv
  <2>4. Encode(0, p) \in Firsts
    BY DEF Firsts
  <2>5. Opens(arrived \o (sending \o Encode(0, p)))
    BY <2>3, <2>4, SentBehind
  <2> QED BY <2>1, <2>2, <2>3, <2>5
<1>7. CASE Arrive
  <2>1. /\ Unread /\ request' = request /\ sending # << >>
        /\ arrived' = Append(arrived, Head(sending)) /\ sending' = Tail(sending)
    BY <1>7 DEF Arrive, tool, Unread
  <2>2. arrived' \o sending' = l
    BY <2>1, ByteAcross DEF WireType
  <2> QED BY <2>1, <2>2 DEF SettingsInv
<1> QED BY <1>2, <1>3, <1>4, <1>5, <1>6, <1>7 DEF TncNext, Tool, Tnc

LEMMA NextSettings ==
  ASSUME WireType, SettingsInv, [TncNext]_tncVars
  PROVE  /\ SettingsOfOneFrame' /\ (Unread' => settings' = << >>)
         /\ pc' \in {"askCall", "readCall"} => settings' # << >>
<1>0. tnc' = tnc
  BY HeldKept
<1>1. CASE ReadParams
  <2> DEFINE got == Response(LineRead, SettingsSize, TRUE)
             over == Overruns(LineRead)
             ok == got # << >> /\ ~over
             Long == \E p \in Radio : Len(p) > RespSize
             Passed(t) == \E p \in Radio : /\ PassesForSettings(p)
                                           /\ t = SubSeq(p, 1, SettingsSize)
  <2>1. /\ pc = "readParams" /\ arrived # << >>
        /\ settings' = IF ok THEN got[1] ELSE settings
        /\ pc' = IF over THEN "overrun" ELSE IF ok THEN "askCall" ELSE "failed"
    BY <1>1 DEF ReadParams, TakeLine
  <2>2. settings = << >> /\ Opens(arrived \o sending)
    BY <2>1 DEF SettingsInv, Unread
  <2>3. /\ got # << >> => got[1] = tnc.settings \/ Passed(got[1])
        /\ over => Long
    <3>1. /\ got # << >> => \/ got = << tnc.settings >>
                           \/ \E p \in Radio : /\ PassesForSettings(p)
                                               /\ got = << SubSeq(p, 1, SettingsSize) >>
          /\ over => Long
      BY <2>1, <2>2, FirstRead
    <3> HIDE DEF got, over, Long
    <3> QED BY <3>1
  <2>7. got # << >> => got[1] # << >>
    <3> SUFFICES ASSUME got # << >> PROVE got[1] # << >>
      OBVIOUS
    <3>1. Len(got[1]) = SettingsSize
      BY LineParts, Sizes, TakenSize
    <3> HIDE DEF got
    <3>2. Len(got[1]) # 0
      BY <3>1, Sizes
    <3>3. Len(<< >>) = 0
      OBVIOUS
    <3> QED BY <3>2, <3>3
  <2> HIDE DEF got, over, Long, Passed
  <2>8. pc' \in {"askCall", "readCall"} => settings' # << >>
    BY <2>1, <2>7
  <2>4. settings' # << >> => settings' = tnc.settings \/ Passed(settings')
    BY <2>1, <2>2, <2>3
  <2>5. pc' = "overrun" => Long
    BY <2>1, <2>3
  <2>6. ~Unread'
    BY <2>1 DEF Unread
  <2> QED BY <1>0, <2>4, <2>5, <2>6, <2>8 DEF SettingsOfOneFrame, Long, Passed
<1>2. CASE ReadCall
  <2>1. settings' = settings /\ pc = "readCall" /\ ~Unread' /\ settings # << >>
    BY <1>2 DEF ReadCall, Unread, SettingsInv
  <2> QED BY <1>0, <2>1 DEF SettingsOfOneFrame, SettingsInv
<1>3. CASE ~ReadParams /\ ~ReadCall
  <2>1. /\ settings' = settings /\ (pc' = "overrun" => pc = "overrun") /\ (Unread' => Unread)
        /\ pc' \in {"askCall", "readCall"} => pc \in {"askCall", "readCall"}
    BY <1>3 DEF TncNext, Tool, Tnc, Main, OpenPort, Ask, AskParams, AskCall,
                ReadTimesOut, Reply, Forward, Arrive, tncVars, tool, Unread
  <2> QED BY <1>0, <2>1 DEF SettingsOfOneFrame, SettingsInv
<1> QED BY <1>1, <1>2, <1>3

\* "TNC params read OK" (tnc_config.c:397): what tnc_config takes is the parameters
\* of the TNC, or the beginning of one payload from the radio that carries its own
\* check sum where parameters do, whatever part of the line it read and whatever
\* frames, of any length, came first; and resp is overrun there only for a payload
\* that is longer.
THEOREM ParamsOfOneFrame == TncSpec => []SettingsOfOneFrame
<1>1. TncInit => SettingsInv
  <2> SUFFICES ASSUME TncInit PROVE SettingsInv
    OBVIOUS
  <2>1. request = 0 /\ settings = << >> /\ arrived = << >> /\ sending = << >> /\ pc = "main"
    BY DEF TncInit
  <2>2. arrived \o sending = << >>
    <3>1. << >> \in Seq(Byte)
      BY EmptySeq
    <3> QED BY <2>1, <3>1, ConcatEmptySeq
  <2> QED BY <2>1, <2>2 DEF SettingsInv, Opens, SettingsOfOneFrame
<1>2. TncInv /\ SettingsInv /\ [TncNext]_tncVars => SettingsInv'
  <2> SUFFICES ASSUME TncInv, SettingsInv, [TncNext]_tncVars PROVE SettingsInv'
    OBVIOUS
  <2>1. WireType
    BY DEF TncInv
  <2>2. /\ SettingsOfOneFrame' /\ (Unread' => settings' = << >>)
        /\ pc' \in {"askCall", "readCall"} => settings' # << >>
    BY <2>1, NextSettings
  <2>3. Unread' => request' \in {0, ParamsCmd} /\ Opens(arrived \o sending)'
    BY <2>1, NextUnread
  <2> QED BY <2>2, <2>3 DEF SettingsInv
<1>3. SettingsInv => SettingsOfOneFrame
  BY DEF SettingsInv
<1> QED BY <1>1, <1>2, <1>3, TncInvariant, PTL DEF TncSpec
=============================================================================
