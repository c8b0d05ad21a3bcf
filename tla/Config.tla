------------------------------- MODULE Config -------------------------------
(***************************************************************************)
(* From main() of tinyaprsd.c to a loaded configuration: parse_args puts   *)
(* the options into a shadow configuration of config.c, the daemon leaves  *)
(* its directory, and config_init reads the file line by line, taking the  *)
(* shadow's value for a key that was given as an option.                   *)
(*                                                                         *)
(* A value is a text, of which the first len characters are meant, and the *)
(* number atol makes of it.                                                *)
(***************************************************************************)
EXTENDS Integers, Sequences, FiniteSets, SequencesExt

CONSTANTS
  Keys,       \* config_keys
  LongKeys,   \* those with an int32_t: the baud rates
  OptionKeys, \* those parse_args has an option for, but the location's two
  Texts,      \* what a value may say
  NoText,     \* nothing
  Values,     \* values on the command line and in the file: [text, len, num]
  Size,       \* sizeof of a key's field in struct _Config
  Default,    \* the initial value of config
  Files,      \* files there may be: what fgets returns of one, piece by piece
  MaxArgs     \* bound: options on the command line; overwriteConfigKeys has room
              \* for 64 keys, two for each

Baud == "tnc0.baudrate"
Lat == "beacon.lat"
Lon == "beacon.lon"

Text == [text : Texts, len : Nat, num : Int]

\* A line of the file, or 510 characters of a longer one: read_ini_file knows
\* those it skips, comments and lines without "=", from "key = value".
Piece == [kind : {"skip"}] \cup [kind : {"pair"}, key : STRING, value : Text]

ASSUME ConfigAssumption ==
  /\ {Baud, Lat, Lon} \subseteq Keys
  /\ LongKeys \subseteq Keys /\ OptionKeys \subseteq Keys
  /\ OptionKeys \cap LongKeys \subseteq {Baud} /\ Baud \in LongKeys
  /\ Lat \notin LongKeys /\ Lon \notin LongKeys
  /\ NoText \in Texts
  /\ \A v \in Values : v \in Text
  /\ Size \in [Keys -> Nat \ {0}]
  /\ DOMAIN Default = Keys
  /\ \A k \in Keys : IF k \in LongKeys THEN Default[k] \in Int
                    ELSE Default[k] \in Text /\ Default[k].len < Size[k]
  /\ Files \subseteq Seq(Piece)
  /\ MaxArgs \in 0 .. 32

VARIABLES
  phase,      \* "args", "daemonize", "open", "read", "running", "exit"
  args,       \* options parsed so far
  overwrite,  \* overwriteConfig
  given,      \* overwriteConfigKeys: keys put into it, in order
  app,        \* appConfig: [background, monitor, iserver, path]
  cwd,        \* the working directory: "start" or "tmp"
  present,    \* where there is a file: "absolute", "start", "tmp"
  file,       \* its pieces
  left,       \* what fgets has still to return
  config      \* config

options == << args, overwrite, given, app >>
disk == << present, file >>
vars == << phase, options, cwd, disk, left, config >>

-----------------------------------------------------------------------------
(* config.c                                                                *)

\* The zero of memset(&overwriteConfig, 0, ...)
Zero ==
  [k \in Keys |-> IF k \in LongKeys THEN 0 ELSE [text |-> NoText, len |-> 0, num |-> 0]]

\* Faulty variant: the last byte of the field is used too.
CutFull(k, v) == IF v.len < Size[k] THEN v ELSE [v EXCEPT !.len = Size[k]]

\* strncpy into the field: all but its last byte may be used.
Cut(k, v) == IF v.len < Size[k] THEN v ELSE [v EXCEPT !.len = Size[k] - 1]

\* Faulty variant: the empty text of "key=" is not set.
SetKvNotEmpty(c, k, v) ==
  IF k \notin Keys \/ v.len = 0 THEN c
  ELSE IF k \in LongKeys THEN [c EXCEPT ![k] = IF v.num >= 0 THEN v.num ELSE @]
  ELSE [c EXCEPT ![k] = Cut(k, v)]

\* config_set_kv: an unknown key and a negative number are ignored, a text
\* that is no number counts as 0.
SetKv(c, k, v) ==
  IF k \notin Keys THEN c
  ELSE IF k \in LongKeys THEN [c EXCEPT ![k] = IF v.num >= 0 THEN v.num ELSE @]
  ELSE [c EXCEPT ![k] = Cut(k, v)]

\* config_get_kv of a text.  A number would come back as its raw bytes; the one
\* that can be overwritten does not pass here.
GetKv(c, k) == c[k]

\* config_is_overwritten
IsOverwritten(k) == \E i \in DOMAIN given : given[i] = k

\* config_overwrite_kv
OverwriteKv(k, v) ==
  /\ overwrite' = SetKv(overwrite, k, v)
  /\ given' = Append(given, k)

\* One "key = value" of the file.
TakePair(k, v) ==
  config' = IF IsOverwritten(k)
            THEN IF k = Baud THEN [config EXCEPT ![Baud] = overwrite[Baud]]
                 ELSE SetKv(config, k, GetKv(overwrite, k))
            ELSE SetKv(config, k, v)

-----------------------------------------------------------------------------
(* tinyaprsd.c                                                             *)

Parsing == phase = "args" /\ args < MaxArgs /\ args' = args + 1

\* -H -C -P -F -D -B -S -T -l
OptionKv ==
  /\ Parsing
  /\ \E k \in OptionKeys, v \in Values : OverwriteKv(k, v)
  /\ UNCHANGED << phase, app, cwd, disk, left, config >>

\* -L lat,lon: copied into 32 bytes and split at the comma.  Without one, or
\* with less than 9 bytes of the buffer behind it, nothing is set.
OptionLocation ==
  /\ Parsing
  /\ \E lat \in Values, lon \in Values, comma \in BOOLEAN :
       IF comma /\ 31 - lat.len >= 9
       THEN /\ overwrite' = SetKv(SetKv(overwrite, Lat, lat), Lon,
                                  IF lon.len <= 30 - lat.len THEN lon
                                  ELSE [lon EXCEPT !.len = 30 - lat.len])
            /\ given' = given \o << Lat, Lon >>
       ELSE UNCHANGED << overwrite, given >>
  /\ UNCHANGED << phase, app, cwd, disk, left, config >>

\* -c -M -I -d
OptionApp ==
  /\ Parsing
  /\ \/ \E path \in {"relative", "absolute"} : app' = [app EXCEPT !.path = path]
     \/ app' = [app EXCEPT !.monitor = TRUE]
     \/ app' = [app EXCEPT !.iserver = TRUE]
     \/ app' = [app EXCEPT !.background = TRUE]
  /\ UNCHANGED << phase, overwrite, given, cwd, disk, left, config >>

\* -h, or an option that does not exist.
OptionExit ==
  /\ phase = "args"
  /\ phase' = "exit"
  /\ UNCHANGED << options, cwd, disk, left, config >>

\* The options are parsed; a monitor stays in the foreground.
ArgsDone ==
  /\ phase = "args"
  /\ app' = [app EXCEPT !.background = @ /\ ~app.monitor /\ ~app.iserver]
  /\ phase' = IF app'.background THEN "daemonize" ELSE "open"
  /\ UNCHANGED << args, overwrite, given, cwd, disk, left, config >>

\* do_daemonize: in the child, in /tmp; when fork fails, just on.
Daemonize ==
  /\ phase = "daemonize"
  /\ phase' = "open"
  /\ cwd' \in {"start", "tmp"}
  /\ UNCHANGED << options, disk, left, config >>

\* The file is where its path leads from the working directory.
FileFound == (IF app.path = "relative" THEN cwd ELSE "absolute") \in present

\* config_init: a file that does not open is no error, and leaves config alone.
Open ==
  /\ phase = "open"
  /\ IF FileFound
     THEN phase' = "read" /\ left' = file
     ELSE phase' = "running" /\ UNCHANGED left
  /\ UNCHANGED << options, cwd, disk, config >>

\* read_ini_file: fgets returns a line, or 510 characters of one; a comment and
\* a line without "=" are skipped.
ReadLine ==
  /\ phase = "read" /\ left # << >>
  /\ left' = Tail(left)
  /\ IF Head(left).kind = "pair" THEN TakePair(Head(left).key, Head(left).value)
     ELSE UNCHANGED config
  /\ UNCHANGED << phase, options, cwd, disk >>

\* The end of the file: main goes on to log_init and its mode.
EndOfFile ==
  /\ phase = "read" /\ left = << >>
  /\ phase' = "running"
  /\ UNCHANGED << options, cwd, disk, left, config >>

Init ==
  /\ phase = "args" /\ args = 0
  /\ overwrite = Zero /\ given = << >>
  /\ app = [background |-> FALSE, monitor |-> FALSE, iserver |-> FALSE, path |-> "absolute"]
  /\ cwd = "start"
  /\ present \in SUBSET {"absolute", "start", "tmp"}
  /\ file \in Files
  /\ left = << >>
  /\ config = Default

Next ==
  \/ OptionKv \/ OptionLocation \/ OptionApp \/ OptionExit
  \/ ArgsDone \/ Daemonize \/ Open \/ ReadLine \/ EndOfFile

Spec == Init /\ [][Next]_vars

-----------------------------------------------------------------------------
(* Properties                                                              *)

\* A number, or a text that leaves room for its NUL in the field.
FieldOK(k, f) ==
  IF k \in LongKeys THEN f \in Int ELSE f \in Text /\ f.len < Size[k]

\* Every key has a value that fits its field, in both configurations, and the
\* keys given as options are keys the file's lines can be compared with.
TypeOK ==
  /\ phase \in {"args", "daemonize", "open", "read", "running", "exit"}
  /\ args \in 0 .. MaxArgs
  /\ DOMAIN overwrite = Keys /\ \A k \in Keys : FieldOK(k, overwrite[k])
  /\ DOMAIN config = Keys /\ \A k \in Keys : FieldOK(k, config[k])
  /\ given \in Seq(OptionKeys \cup {Lat, Lon})
  /\ app \in [background : BOOLEAN, monitor : BOOLEAN, iserver : BOOLEAN,
              path : {"relative", "absolute"}]
  /\ cwd \in {"start", "tmp"}
  /\ file \in Files /\ left \in Seq(Piece)

\* The first n pieces of the file that set k; a negative baud rate does not.
LinesOf(k, n) == {i \in 1 .. n : file[i].kind = "pair" /\ file[i].key = k}
Setting(k, n) == {i \in LinesOf(k, n) : k \in LongKeys => file[i].value.num >= 0}

\* What is left in a field by the last of them, or what was in it.
LastOf(k, n) ==
  IF Setting(k, n) = {} THEN Default[k]
  ELSE LET v == file[Max(Setting(k, n))].value
       IN  IF k \in LongKeys THEN v.num ELSE Cut(k, v)

\* A key keeps its default unless the file has it; then the option decides,
\* if there was one, and else the last line, whatever the order of the lines.
\* A baud rate given as a negative number comes out as 0.
Loaded(k, n) ==
  IF LinesOf(k, n) = {} THEN Default[k]
  ELSE IF IsOverwritten(k) THEN overwrite[k]
  ELSE LastOf(k, n)

LoadedAsGiven ==
  phase = "running" =>
    \A k \in Keys : config[k] = IF FileFound THEN Loaded(k, Len(file)) ELSE Default[k]

\* So it is after every line.
LoadInv ==
  /\ phase \in {"args", "daemonize", "open"} => config = Default
  /\ phase = "read" =>
       /\ FileFound
       /\ \E n \in 0 .. Len(file) :
            /\ left = SubSeq(file, n + 1, Len(file))
            /\ \A k \in Keys : config[k] = Loaded(k, n)
  /\ LoadedAsGiven

\* config.c:475: without a file the daemon runs "Using command line parameters
\* or defaults", and tinyaprsd.c's help offers the options without a condition:
\* what was given as an option is what the daemon runs with.
OptionsObeyed ==
  phase = "running" => \A k \in Keys : IsOverwritten(k) => config[k] = overwrite[k]
=============================================================================
