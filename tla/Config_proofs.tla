--------------------------- MODULE Config_proofs ---------------------------
(***************************************************************************)
(* For all keys, sizes, values and files: whatever is given, every field   *)
(* of the configuration holds what fits into it, and it is what options,   *)
(* file and defaults say together.                                         *)
(***************************************************************************)
EXTENDS Config, TLAPS

\* The fields of one configuration.
Fits(c) == DOMAIN c = Keys /\ \A k \in Keys : FieldOK(k, c[k])

LEMMA ZeroIsText == [text |-> NoText, len |-> 0, num |-> 0] \in Text
BY ConfigAssumption DEF Text

LEMMA OneMoreArg ==
  ASSUME args \in 0 .. MaxArgs, Parsing
  PROVE  args' \in 0 .. MaxArgs
<1>1. MaxArgs \in Nat
  BY ConfigAssumption
<1> QED BY <1>1 DEF Parsing

LEMMA CutFits ==
  ASSUME NEW k \in Keys, NEW v \in Text
  PROVE  Cut(k, v) \in Text /\ Cut(k, v).len < Size[k]
<1>1. Size[k] \in Nat \ {0}
  BY ConfigAssumption
<1> QED BY <1>1 DEF Cut, Text

LEMMA SetKvFits ==
  ASSUME NEW c, Fits(c), NEW k, NEW v \in Text
  PROVE  Fits(SetKv(c, k, v))
<1>1. CASE k \notin Keys
  BY <1>1 DEF SetKv
<1>2. CASE k \in LongKeys
  <2>1. k \in Keys /\ v.num \in Int
    BY <1>2, ConfigAssumption DEF Text
  <2>2. SetKv(c, k, v) = [c EXCEPT ![k] = IF v.num >= 0 THEN v.num ELSE @]
    BY <1>2, <2>1 DEF SetKv
  <2> QED BY <1>2, <2>1, <2>2 DEF Fits, FieldOK
<1>3. CASE k \in Keys /\ k \notin LongKeys
  <2>1. SetKv(c, k, v) = [c EXCEPT ![k] = Cut(k, v)]
    BY <1>3 DEF SetKv
  <2>2. FieldOK(k, Cut(k, v))
    BY <1>3, CutFits DEF FieldOK
  <2> QED BY <1>3, <2>1, <2>2 DEF Fits, FieldOK
<1> QED BY <1>1, <1>2, <1>3

LEMMA InitTyped == Init => TypeOK
<1> SUFFICES ASSUME Init PROVE TypeOK
  OBVIOUS
<1>1. Fits(Default)
  BY ConfigAssumption DEF Fits, FieldOK
<1>2. Fits(Zero)
  <2>1. \A k \in Keys : Size[k] \in Nat \ {0}
    BY ConfigAssumption
  <2>2. [text |-> NoText, len |-> 0, num |-> 0] \in Text
    BY ZeroIsText
  <2>3. ASSUME NEW k \in Keys PROVE FieldOK(k, Zero[k])
    <3>1. CASE k \in LongKeys
      BY <3>1 DEF FieldOK, Zero
    <3>2. CASE k \notin LongKeys
      BY <2>1, <2>2, <3>2 DEF FieldOK, Zero
    <3> QED BY <3>1, <3>2
  <2>4. DOMAIN Zero = Keys
    BY DEF Zero
  <2> QED BY <2>3, <2>4 DEF Fits
<1>3. 0 \in 0 .. MaxArgs
  BY ConfigAssumption
<1>4. << >> \in Seq(OptionKeys \cup {Lat, Lon}) /\ << >> \in Seq(Piece)
  OBVIOUS
<1>5. app \in [background : BOOLEAN, monitor : BOOLEAN, iserver : BOOLEAN,
               path : {"relative", "absolute"}]
  BY DEF Init
<1> QED
  BY <1>1, <1>2, <1>3, <1>4, <1>5 DEF Init, TypeOK, Fits

\* An option: the shadow configuration takes it, and the key is remembered.
LEMMA OptionsTyped ==
  ASSUME TypeOK, OptionKv \/ OptionLocation
  PROVE  TypeOK'
<1>1. args' \in 0 .. MaxArgs
  BY OneMoreArg DEF OptionKv, OptionLocation, TypeOK
<1>2. Fits(overwrite) /\ given \in Seq(OptionKeys \cup {Lat, Lon})
  BY DEF TypeOK, Fits
<1>3. CASE OptionKv
  <2> PICK k \in OptionKeys, v \in Values : OverwriteKv(k, v)
    BY <1>3 DEF OptionKv
  <2>1. Fits(overwrite')
    BY <1>2, SetKvFits, ConfigAssumption DEF OverwriteKv
  <2>2. given' \in Seq(OptionKeys \cup {Lat, Lon})
    BY <1>2 DEF OverwriteKv
  <2> QED BY <1>1, <1>3, <2>1, <2>2 DEF OptionKv, TypeOK, Fits, disk
<1>4. CASE OptionLocation
  <2>1. Fits(overwrite') /\ given' \in Seq(OptionKeys \cup {Lat, Lon})
    <3>0. PICK lat \in Values, lon \in Values, comma \in BOOLEAN :
          IF comma /\ 31 - lat.len >= 9
          THEN /\ overwrite' = SetKv(SetKv(overwrite, Lat, lat), Lon,
                                     IF lon.len <= 30 - lat.len THEN lon
                                     ELSE [lon EXCEPT !.len = 30 - lat.len])
               /\ given' = given \o << Lat, Lon >>
          ELSE UNCHANGED << overwrite, given >>
      BY <1>4 DEF OptionLocation
    <3>1. CASE comma /\ 31 - lat.len >= 9
      <4> DEFINE end == IF lon.len <= 30 - lat.len THEN lon ELSE [lon EXCEPT !.len = 30 - lat.len]
      <4>1. lat \in Text /\ lon \in Text
        BY ConfigAssumption
      <4>2. end \in Text
        <5>1. lat.len \in Nat /\ lat.len <= 22
          BY <3>1, <4>1 DEF Text
        <5>2. 30 - lat.len \in Nat
          BY <5>1
        <5>3. [lon EXCEPT !.len = 30 - lat.len] \in Text
          BY <4>1, <5>2 DEF Text
        <5> QED BY <4>1, <5>3
      <4>3. Fits(SetKv(overwrite, Lat, lat))
        BY <1>2, <4>1, SetKvFits
      <4>4. Fits(SetKv(SetKv(overwrite, Lat, lat), Lon, end))
        BY <4>2, <4>3, SetKvFits
      <4>5. << Lat, Lon >> \in Seq(OptionKeys \cup {Lat, Lon})
        OBVIOUS
      <4>6. given \o << Lat, Lon >> \in Seq(OptionKeys \cup {Lat, Lon})
        BY <1>2, <4>5
      <4> QED BY <3>0, <3>1, <4>4, <4>6
    <3>2. CASE ~(comma /\ 31 - lat.len >= 9)
      BY <1>2, <3>0, <3>2
    <3> QED BY <3>1, <3>2
  <2> QED BY <1>1, <1>4, <2>1 DEF OptionLocation, TypeOK, Fits, disk
<1> QED BY <1>3, <1>4

\* A line of the file: the option's value, if there was one, or its own.
LEMMA ReadLineTyped == TypeOK /\ ReadLine => TypeOK'
<1> SUFFICES ASSUME TypeOK, ReadLine PROVE TypeOK'
  OBVIOUS
<1>1. Fits(config) /\ Fits(overwrite)
  BY DEF TypeOK, Fits
<1>2. left' \in Seq(Piece) /\ Head(left) \in Piece
  BY DEF TypeOK, ReadLine
<1>3. CASE Head(left).kind = "pair"
  <2> DEFINE k == Head(left).key
             v == Head(left).value
  <2>1. v \in Text
    BY <1>2, <1>3 DEF Piece
  <2>2. TakePair(k, v)
    BY <1>3 DEF ReadLine
  <2>3. CASE ~IsOverwritten(k)
    <3>1. config' = SetKv(config, k, v)
      BY <2>2, <2>3 DEF TakePair
    <3> QED BY <1>1, <1>2, <2>1, <3>1, SetKvFits DEF TypeOK, ReadLine, Fits, options, disk
  <2>4. CASE IsOverwritten(k) /\ k = Baud
    <3>1. config' = [config EXCEPT ![Baud] = overwrite[Baud]]
      BY <2>2, <2>4 DEF TakePair
    <3>2. Fits(config')
      BY <1>1, <3>1 DEF Fits, FieldOK
    <3> QED BY <1>2, <3>2 DEF TypeOK, ReadLine, Fits, options, disk
  <2>5. CASE IsOverwritten(k) /\ k # Baud
    <3>1. config' = SetKv(config, k, overwrite[k])
      BY <2>2, <2>5 DEF TakePair, GetKv
    <3>2. k \in Keys /\ k \notin LongKeys
      <4>1. \A i \in DOMAIN given : given[i] \in OptionKeys \cup {Lat, Lon}
        BY DEF TypeOK
      <4>2. k \in OptionKeys \cup {Lat, Lon}
        BY <2>5, <4>1 DEF IsOverwritten
      <4> QED BY <2>5, <4>2, ConfigAssumption
    <3>3. overwrite[k] \in Text
      BY <1>1, <3>2 DEF Fits, FieldOK
    <3> QED BY <1>1, <1>2, <3>1, <3>3, SetKvFits DEF TypeOK, ReadLine, Fits, options, disk
  <2> QED BY <2>3, <2>4, <2>5
<1>4. CASE Head(left).kind # "pair"
  BY <1>2, <1>4 DEF TypeOK, ReadLine, options, disk
<1> QED BY <1>3, <1>4

LEMMA NextTyped == TypeOK /\ [Next]_vars => TypeOK'
<1> SUFFICES ASSUME TypeOK, [Next]_vars PROVE TypeOK'
  OBVIOUS
<1>1. CASE OptionKv \/ OptionLocation
  BY <1>1, OptionsTyped
<1>2. CASE OptionApp
  <2>1. app' \in [background : BOOLEAN, monitor : BOOLEAN, iserver : BOOLEAN,
                  path : {"relative", "absolute"}]
    BY <1>2 DEF OptionApp, TypeOK
  <2>2. args' \in 0 .. MaxArgs
    BY <1>2, OneMoreArg DEF OptionApp, TypeOK
  <2> QED BY <1>2, <2>1, <2>2 DEF OptionApp, TypeOK, disk
<1>3. CASE OptionExit
  BY <1>3 DEF OptionExit, TypeOK, options, disk
<1>4. CASE ArgsDone
  BY <1>4 DEF ArgsDone, TypeOK, disk
<1>5. CASE Daemonize
  BY <1>5 DEF Daemonize, TypeOK, options, disk
<1>6. CASE Open
  BY <1>6, ConfigAssumption DEF Open, TypeOK, options, disk
<1>7. CASE ReadLine
  BY <1>7, ReadLineTyped
<1>8. CASE EndOfFile
  BY <1>8 DEF EndOfFile, TypeOK, options, disk
<1>9. CASE UNCHANGED vars
  BY <1>9 DEF vars, options, disk, TypeOK
<1> QED
  BY <1>1, <1>2, <1>3, <1>4, <1>5, <1>6, <1>7, <1>8, <1>9 DEF Next

\* config.c and parse_args: whatever is on the command line and in the file,
\* every field of both configurations fits its key.
THEOREM TypeCorrect == Spec => []TypeOK
<1> QED BY InitTyped, NextTyped, PTL DEF Spec

-----------------------------------------------------------------------------
(* What is loaded                                                          *)

LEMMA LastIsMax ==
  ASSUME NEW S, NEW n \in Nat, S \subseteq 1 .. n
  PROVE  Max(S \cup {n + 1}) = n + 1
<1> DEFINE T == S \cup {n + 1}
<1>1. n + 1 \in T /\ \A y \in T : n + 1 >= y
  OBVIOUS
<1>2. \A x \in T : (\A y \in T : x >= y) => x = n + 1
  <2> SUFFICES ASSUME NEW x \in T, \A y \in T : x >= y PROVE x = n + 1
    OBVIOUS
  <2>1. x >= n + 1 /\ n + 1 >= x /\ x \in Int
    OBVIOUS
  <2> QED BY <2>1
<1>3. Max(T) = CHOOSE x \in T : \A y \in T : x >= y
  BY DEF Max
<1> QED BY <1>1, <1>2, <1>3

\* A piece that does not set k changes nothing of what is loaded for k.
LEMMA LoadedKept ==
  ASSUME NEW k, NEW n \in Nat, ~(file[n + 1].kind = "pair" /\ file[n + 1].key = k)
  PROVE  Loaded(k, n + 1) = Loaded(k, n)
<1>1. \A i : i \in 1 .. n + 1 <=> i \in 1 .. n \/ i = n + 1
  OBVIOUS
<1>2. LinesOf(k, n + 1) = LinesOf(k, n)
  BY <1>1 DEF LinesOf
<1>3. Setting(k, n + 1) = Setting(k, n)
  BY <1>2 DEF Setting
<1> QED BY <1>2, <1>3 DEF Loaded, LastOf

\* The line after the first n decides what is loaded for its key.
LEMMA LoadedNext ==
  ASSUME NEW k, NEW n \in Nat, NEW v, file[n + 1].kind = "pair", file[n + 1].key = k,
         file[n + 1].value = v
  PROVE  /\ IsOverwritten(k) => Loaded(k, n + 1) = overwrite[k]
         /\ ~IsOverwritten(k) =>
              Loaded(k, n + 1) = IF k \in LongKeys
                                 THEN IF v.num >= 0 THEN v.num ELSE LastOf(k, n)
                                 ELSE Cut(k, v)
<1>1. \A i : i \in 1 .. n + 1 <=> i \in 1 .. n \/ i = n + 1
  OBVIOUS
<1>2. LinesOf(k, n + 1) = LinesOf(k, n) \cup {n + 1}
  BY <1>1 DEF LinesOf
<1>3. CASE k \in LongKeys => v.num >= 0
  <2>1. Setting(k, n + 1) = Setting(k, n) \cup {n + 1}
    BY <1>2, <1>3 DEF Setting
  <2>2. Setting(k, n) \subseteq 1 .. n
    BY DEF Setting, LinesOf
  <2>3. Max(Setting(k, n + 1)) = n + 1
    BY <2>1, <2>2, LastIsMax
  <2>4. Setting(k, n + 1) # {} /\ LinesOf(k, n + 1) # {}
    BY <1>2, <2>1
  <2>5. LastOf(k, n + 1) = IF k \in LongKeys THEN v.num ELSE Cut(k, v)
    BY <2>3, <2>4 DEF LastOf
  <2> QED BY <1>3, <2>4, <2>5 DEF Loaded
<1>4. CASE k \in LongKeys /\ ~(v.num >= 0)
  <2>1. Setting(k, n + 1) = Setting(k, n)
    BY <1>2, <1>4 DEF Setting
  <2>2. LastOf(k, n + 1) = LastOf(k, n)
    BY <2>1 DEF LastOf
  <2>3. LinesOf(k, n + 1) # {}
    BY <1>2
  <2> QED BY <1>4, <2>2, <2>3 DEF Loaded
<1> QED BY <1>3, <1>4

\* Without an option for k, what is loaded is the last line's even when no line
\* has k.
LEMMA LoadedIsLast ==
  ASSUME NEW k, NEW n, ~IsOverwritten(k)
  PROVE  Loaded(k, n) = LastOf(k, n)
BY DEF Loaded, LastOf, Setting

\* What is loaded depends on nothing that reading the file changes.
LEMMA LoadedUnchanged ==
  ASSUME file' = file, given' = given, overwrite' = overwrite, app' = app, cwd' = cwd,
         present' = present
  PROVE  /\ FileFound' = FileFound
         /\ \A k, n : Loaded(k, n)' = Loaded(k, n)
<1>1. FileFound' = FileFound
  BY DEF FileFound
<1>2. ASSUME NEW k, NEW n PROVE Loaded(k, n)' = Loaded(k, n)
  <2>1. LinesOf(k, n)' = LinesOf(k, n)
    BY DEF LinesOf
  <2>2. Setting(k, n)' = Setting(k, n)
    BY <2>1 DEF Setting
  <2>3. LastOf(k, n)' = LastOf(k, n)
    BY <2>2 DEF LastOf
  <2>4. IsOverwritten(k)' = IsOverwritten(k)
    BY DEF IsOverwritten
  <2> QED BY <2>1, <2>3, <2>4 DEF Loaded
<1> QED BY <1>1, <1>2

\* One line: its key is set as it should be, the others are left alone.
LEMMA PairLoads ==
  ASSUME TypeOK, NEW n \in Nat, \A k \in Keys : config[k] = Loaded(k, n),
         NEW key, NEW v \in Text, file[n + 1].kind = "pair", file[n + 1].key = key,
         file[n + 1].value = v, TakePair(key, v), NEW k \in Keys
  PROVE  config'[k] = Loaded(k, n + 1)
<1>1. Fits(config) /\ Fits(overwrite)
  BY DEF TypeOK, Fits
<1>2. CASE k # key
  <2>1. Loaded(k, n + 1) = Loaded(k, n)
    BY <1>2, LoadedKept
  <2>2. \A w : SetKv(config, key, w)[k] = config[k]
    BY <1>1, <1>2 DEF SetKv, Fits
  <2>3. key = Baud => [config EXCEPT ![Baud] = overwrite[Baud]][k] = config[k]
    BY <1>1, <1>2 DEF Fits
  <2> QED BY <2>1, <2>2, <2>3 DEF TakePair
<1>3. CASE k = key /\ IsOverwritten(k)
  <2>1. Loaded(k, n + 1) = overwrite[k]
    BY <1>3, LoadedNext
  <2>2. CASE k = Baud
    <3>1. config' = [config EXCEPT ![Baud] = overwrite[Baud]]
      BY <1>3, <2>2 DEF TakePair
    <3> QED BY <1>1, <2>1, <2>2, <3>1 DEF Fits
  <2>3. CASE k # Baud
    <3>1. k \notin LongKeys
      <4>1. \A i \in DOMAIN given : given[i] \in OptionKeys \cup {Lat, Lon}
        BY DEF TypeOK
      <4>2. k \in OptionKeys \cup {Lat, Lon}
        BY <1>3, <4>1 DEF IsOverwritten
      <4> QED BY <2>3, <4>2, ConfigAssumption
    <3>2. config' = [config EXCEPT ![k] = Cut(k, overwrite[k])]
      BY <1>3, <2>3, <3>1 DEF TakePair, SetKv, GetKv
    <3>3. Cut(k, overwrite[k]) = overwrite[k]
      BY <1>1, <3>1 DEF Cut, Fits, FieldOK
    <3> QED BY <1>1, <2>1, <3>2, <3>3 DEF Fits
  <2> QED BY <2>2, <2>3
<1>4. CASE k = key /\ ~IsOverwritten(k)
  <2>1. config' = SetKv(config, k, v)
    BY <1>4 DEF TakePair
  <2>2. Loaded(k, n + 1) = IF k \in LongKeys
                           THEN IF v.num >= 0 THEN v.num ELSE LastOf(k, n)
                           ELSE Cut(k, v)
    BY <1>4, LoadedNext
  <2>3. config[k] = LastOf(k, n)
    BY <1>4, LoadedIsLast
  <2> QED BY <1>1, <2>1, <2>2, <2>3 DEF SetKv, Fits
<1> QED BY <1>2, <1>3, <1>4

LEMMA ReadLineLoads == TypeOK /\ LoadInv /\ ReadLine => LoadInv'
<1> SUFFICES ASSUME TypeOK, LoadInv, ReadLine PROVE LoadInv'
  OBVIOUS
<1>1. /\ phase = "read" /\ phase' = "read" /\ left # << >> /\ left' = Tail(left)
      /\ file' = file /\ given' = given /\ overwrite' = overwrite /\ app' = app /\ cwd' = cwd
      /\ present' = present
  BY DEF ReadLine, options, disk
<1>2. PICK n \in 0 .. Len(file) : /\ left = SubSeq(file, n + 1, Len(file))
                                  /\ \A k \in Keys : config[k] = Loaded(k, n)
  BY <1>1 DEF LoadInv
<1>3. file \in Seq(Piece) /\ Len(file) \in Nat /\ n \in Nat
  BY ConfigAssumption DEF TypeOK
<1>4. n + 1 \in 1 .. Len(file) /\ n + 1 \in 0 .. Len(file)
  <2>1. n # Len(file)
    BY <1>1, <1>2, <1>3
  <2> QED BY <1>3, <2>1
<1>5. Head(left) = file[n + 1] /\ Tail(left) = SubSeq(file, (n + 1) + 1, Len(file))
  BY <1>2, <1>3, <1>4
<1>6. file[n + 1] \in Piece
  BY <1>3, <1>4
<1>7. ASSUME NEW k \in Keys PROVE config'[k] = Loaded(k, n + 1)
  <2>1. CASE file[n + 1].kind = "pair"
    <3> DEFINE key == file[n + 1].key
               v == file[n + 1].value
    <3>1. v \in Text
      BY <1>6, <2>1 DEF Piece
    <3>2. TakePair(key, v)
      BY <1>5, <2>1 DEF ReadLine
    <3> QED BY <1>2, <1>3, <2>1, <3>1, <3>2, PairLoads
  <2>2. CASE file[n + 1].kind # "pair"
    <3>1. config' = config
      BY <1>5, <2>2 DEF ReadLine
    <3>2. Loaded(k, n + 1) = Loaded(k, n)
      BY <1>3, <2>2, LoadedKept
    <3> QED BY <1>2, <3>1, <3>2
  <2> QED BY <2>1, <2>2
<1>8. FileFound' = FileFound /\ \A k : Loaded(k, n + 1)' = Loaded(k, n + 1)
  BY <1>1, LoadedUnchanged
<1>9. FileFound'
  BY <1>1, <1>8 DEF LoadInv
<1>10. \E m \in 0 .. Len(file') :
         /\ left' = SubSeq(file', m + 1, Len(file'))
         /\ \A k \in Keys : config'[k] = Loaded(k, m)'
  BY <1>1, <1>4, <1>5, <1>7, <1>8
<1> QED BY <1>1, <1>9, <1>10 DEF LoadInv, LoadedAsGiven

LEMMA NextLoads == TypeOK /\ LoadInv /\ [Next]_vars => LoadInv'
<1> SUFFICES ASSUME TypeOK, LoadInv, [Next]_vars PROVE LoadInv'
  OBVIOUS
<1>1. CASE OptionKv \/ OptionLocation \/ OptionApp
  <2>1. phase = "args" /\ phase' = phase /\ config' = config
    BY <1>1 DEF OptionKv, OptionLocation, OptionApp, Parsing
  <2> QED BY <2>1 DEF LoadInv, LoadedAsGiven
<1>2. CASE OptionExit
  BY <1>2 DEF OptionExit, LoadInv, LoadedAsGiven
<1>3. CASE ArgsDone
  <2>1. phase = "args" /\ phase' \in {"daemonize", "open"} /\ config' = config
    BY <1>3 DEF ArgsDone
  <2> QED BY <2>1 DEF LoadInv, LoadedAsGiven
<1>4. CASE Daemonize
  BY <1>4 DEF Daemonize, LoadInv, LoadedAsGiven
<1>5. CASE Open
  <2>1. /\ phase = "open" /\ config = Default /\ config' = Default
        /\ file' = file /\ given' = given /\ overwrite' = overwrite /\ app' = app /\ cwd' = cwd
        /\ present' = present
    BY <1>5 DEF Open, LoadInv, options, disk
  <2>2. FileFound' = FileFound /\ \A k, n : Loaded(k, n)' = Loaded(k, n)
    BY <2>1, LoadedUnchanged
  <2>3. CASE ~FileFound
    <3>1. phase' = "running"
      BY <1>5, <2>3 DEF Open
    <3> QED BY <2>1, <2>2, <2>3, <3>1 DEF LoadInv, LoadedAsGiven
  <2>4. CASE FileFound
    <3>1. phase' = "read" /\ left' = file
      BY <1>5, <2>4 DEF Open
    <3>2. file \in Seq(Piece) /\ 0 \in 0 .. Len(file)
      BY ConfigAssumption DEF TypeOK
    <3>3. left' = SubSeq(file, 0 + 1, Len(file))
      BY <3>1, <3>2
    <3>4. \A k \in Keys : Loaded(k, 0) = Default[k]
      BY DEF Loaded, LinesOf
    <3>5. \A k \in Keys : config'[k] = Loaded(k, 0)'
      BY <2>1, <2>2, <3>4
    <3>6. \E n \in 0 .. Len(file') :
            /\ left' = SubSeq(file', n + 1, Len(file'))
            /\ \A k \in Keys : config'[k] = Loaded(k, n)'
      BY <2>1, <3>2, <3>3, <3>5
    <3> QED BY <2>2, <2>4, <3>1, <3>6 DEF LoadInv, LoadedAsGiven
  <2> QED BY <2>3, <2>4
<1>6. CASE ReadLine
  BY <1>6, ReadLineLoads
<1>7. CASE EndOfFile
  <2>1. /\ phase = "read" /\ phase' = "running" /\ left = << >> /\ config' = config
        /\ file' = file /\ given' = given /\ overwrite' = overwrite /\ app' = app /\ cwd' = cwd
        /\ present' = present
    BY <1>7 DEF EndOfFile, options, disk
  <2>2. FileFound' = FileFound /\ \A k, n : Loaded(k, n)' = Loaded(k, n)
    BY <2>1, LoadedUnchanged
  <2>3. PICK n \in 0 .. Len(file) : /\ left = SubSeq(file, n + 1, Len(file))
                                    /\ \A k \in Keys : config[k] = Loaded(k, n)
    BY <2>1 DEF LoadInv
  <2>4. file \in Seq(Piece) /\ Len(file) \in Nat
    BY ConfigAssumption DEF TypeOK
  <2>5. n = Len(file)
    <3> SUFFICES ASSUME n # Len(file) PROVE FALSE
      OBVIOUS
    <3>1. n + 1 \in 1 .. Len(file)
      BY <2>4
    <3>2. Len(left) = Len(file) - n
      BY <2>3, <2>4, <3>1
    <3>3. Len(left) = 0
      BY <2>1
    <3> QED BY <2>4, <3>1, <3>2, <3>3
  <2>6. FileFound
    BY <2>1 DEF LoadInv
  <2>7. \A k \in Keys : config'[k] = Loaded(k, Len(file))'
    BY <2>1, <2>2, <2>3, <2>5
  <2> QED BY <2>1, <2>2, <2>6, <2>7 DEF LoadInv, LoadedAsGiven
<1>8. CASE UNCHANGED vars
  <2>1. /\ phase' = phase /\ left' = left /\ config' = config
        /\ file' = file /\ given' = given /\ overwrite' = overwrite /\ app' = app /\ cwd' = cwd
        /\ present' = present
    BY <1>8 DEF vars, options, disk
  <2>2. FileFound' = FileFound /\ \A k, n : Loaded(k, n)' = Loaded(k, n)
    BY <2>1, LoadedUnchanged
  <2> QED BY <2>1, <2>2 DEF LoadInv, LoadedAsGiven
<1> QED BY <1>1, <1>2, <1>3, <1>4, <1>5, <1>6, <1>7, <1>8 DEF Next

\* What the daemon runs with is, key by key, what options, file and defaults
\* say together, whatever the order of the options and of the lines.
THEOREM ConfigIsWhatWasGiven == Spec => []LoadedAsGiven
<1>1. Init => LoadInv
  BY DEF Init, LoadInv, LoadedAsGiven
<1>2. LoadInv => LoadedAsGiven
  BY DEF LoadInv
<1> QED BY <1>1, <1>2, InitTyped, NextTyped, NextLoads, PTL DEF Spec
=============================================================================
