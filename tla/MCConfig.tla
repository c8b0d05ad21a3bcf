------------------------------ MODULE MCConfig ------------------------------
(***************************************************************************)
(* An instance of Config for TLC: one text key, the location and the baud  *)
(* rate; values that fit, that are cut, that are empty and that are no     *)
(* number; files with repeated, unknown and commented lines, and a comment *)
(* longer than what fgets returns at once.                                 *)
(***************************************************************************)
EXTENDS Config

Name(t, len) == [text |-> t, len |-> len, num |-> 0]
Number(t, n) == [text |-> t, len |-> 2, num |-> n]

MCKeys == {"server", Lat, Lon, Baud}
MCTexts == {"", "n", "w", "19", "-1", "default", "f", "1", "12", "-5", "g", "spilt", "fast"}
MCSize == [k \in MCKeys |-> IF k = "server" THEN 64 ELSE 10]
MCValues == {Name("n", 5), Name("w", 23), Name("", 0), Number("19", 19), Number("-1", -1)}
MCDefault == [k \in MCKeys |-> IF k = Baud THEN 9600 ELSE Name("default", 8)]

Pair(k, v) == [kind |-> "pair", key |-> k, value |-> v]
Comment == [kind |-> "skip"]
Line(piece) == << piece >>

Lines(lines) == FlattenSeq(lines)

MCFiles ==
  { << >>,
    Lines(<< Line(Comment), Line(Pair("server", Name("f", 70))), Line(Pair("port", Number("1", 1))) >>),
    Lines(<< Line(Pair("server", Name("f", 9))), Line(Pair(Baud, Number("12", 12))),
       Line(Pair("server", Name("", 0))), Line(Pair(Baud, Number("-5", -5))), Line(Pair(Lat, Name("g", 8))) >>),
    Lines(<< << Comment, Pair(Lon, Name("spilt", 9)) >>, Line(Pair(Baud, Name("fast", 4))) >>) }
=============================================================================
