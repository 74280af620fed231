------------------------------ MODULE Configuration -----------------------------
(***************************************************************************)
(* The configuration (config.cpp): the options of the file and of the     *)
(* command line, read when the host starts, and what the web UI saves     *)
(* (saveConfig of confighttp.cpp).  One option stands for each way the    *)
(* code has to read one; a text is a sequence of characters and words.    *)
(***************************************************************************)
EXTENDS Integers, Sequences, FiniteSets, SequencesExt, FiniteSetsExt, Functions

CONSTANTS
  ConfigLines,  (* the lines a user writes: [option, value, style]       *)
  ConfigArgs,  (* command lines: sequences of "-p" and such lines        *)
  SavedValues,  (* the values entered in the web UI                      *)
  MaxLines    (* bound: lines of a file                                  *)

VARIABLES
  written,    (* the lines of the file, as long as a user wrote them     *)
  fileText,   (* the text of the file                                    *)
  argsGiven,  (* the command line                                        *)
  configAt,   (* "edit", "running", "saving", "refused"                  *)
  applied,    (* the options' values                                     *)
  toWrite,    (* the text saveConfig is about to write                   *)
  savedAs,    (* history: option -> value, as the UI saved it last       *)
  tornFile,   (* history: the host went between truncating and writing   *)
  notSaved    (* history: the file could not be opened, and the UI was   *)
                (* told of success                                       *)

configVars == <<written, fileText, argsGiven, configAt, applied, toWrite, savedAs, tornFile,
                notSaved>>

Nothing2 == [none |-> TRUE]
Space == {"sp"}
Endings == {"cr", "nl"}
Blank == Space \cup Endings
IntRange == 0 .. 3

Defaults == [mode |-> 0, delay |-> 10, upnp |-> FALSE, keys |-> (1 :> 1), pad |-> "auto",
             sink |-> <<>>, allowSw |-> FALSE, requireSw |-> FALSE,
             state |-> <<"state">>, credentials |-> <<"state">>]

-----------------------------------------------------------------------------
(* Positions in a text t: the first one in i .. j - 1 that is, or is not, *)
(* in a class of characters, else j; and the end of what is left of       *)
(* i .. j - 1 without such characters behind.                             *)
FirstIn(t, i, j, class) == Min({k \in i .. j - 1 : t[k] \in class} \cup {j})
FirstNotIn(t, i, j, class) == Min({k \in i .. j - 1 : t[k] \notin class} \cup {j})
Trimmed(t, i, j, class) == Max({k + 1 : k \in {k \in i .. j - 1 : t[k] \notin class}} \cup {i})

(* Variants: comments stay in values, a list ends with its first bracket, *)
(* the last of several lines counts, a value out of range is taken, the   *)
(* command line yields to the file.                                       *)
TextOfBug(t, i, j) == SubSeq(t, i, j - 1)
SkipListBug(t, i) == FirstIn(t, i, Len(t) + 1, {"]"})
FirstOfNameBug(vars, o) == Max({i \in DOMAIN vars : vars[i].option = o})
BetweenBug(n, old) == n
OverridesBug(file, args) == file @@ args

(* to_string(): a comment goes up to the end of its line.                 *)
TextOf(t, i, j) ==
  LET Next1(r, c) ==
        IF c = "#" \/ (r.comment /\ c \notin Endings) THEN [r EXCEPT !.comment = TRUE]
        ELSE [text |-> Append(r.text, c), comment |-> FALSE]
  IN  FoldLeft(Next1, [text |-> <<>>, comment |-> FALSE], SubSeq(t, i, j - 1)).text

(* skip_list(): behind the bracket that closes the list, or the end.      *)
Depth(t, i, k) == 1 + Cardinality({h \in i .. k : t[h] = "["})
                    - Cardinality({h \in i .. k : t[h] = "]"})
SkipList(t, i) ==
  Min({k + 1 : k \in {k \in i .. Len(t) : Depth(t, i, k) = 0}} \cup {Len(t) + 1})

(* parse_option(): what the line at position p says, and where it ends:   *)
(* its text is begin .. endc - 1 without a comment, its value starts at   *)
(* beginVal, and a list goes on behind the end of the line.               *)
NoOption == <<>>
Said(option, value) == <<[option |-> option, value |-> value]>>
ValueIn(t, begin, endl, eq, beginVal) ==
  LET list == beginVal <= Len(t) /\ t[beginVal] = "["
      endVal == IF list THEN SkipList(t, beginVal + 1) ELSE endl
      name == TextOf(t, begin, Trimmed(t, begin, eq, Space))[1]
  IN  IF beginVal = endl \/ (list /\ beginVal = Len(t))
      THEN [at |-> endVal, says |-> NoOption]
      ELSE [at |-> endVal, says |-> Said(name, TextOf(t, beginVal, endVal))]
OptionIn(t, begin, endl, endc) ==
  LET eq == FirstIn(t, begin, endc, {"="})
  IN  IF eq \in {begin, endc} THEN [at |-> endl, says |-> NoOption]
      ELSE ValueIn(t, begin, endl, eq, FirstNotIn(t, eq + 1, endc, Space))
LineIn(t, begin, endl) ==
  OptionIn(t, begin, endl, Trimmed(t, begin, FirstIn(t, begin, endl, {"#"}), Blank))
LineFrom(t, begin) == LineIn(t, begin, FirstIn(t, begin, Len(t) + 1, Endings))
ParseOption(t, p) == LineFrom(t, FirstNotIn(t, p, Len(t) + 1, Blank))

(* parse_config(): an option's first line counts.                         *)
FirstOfName(vars, o) == Min({i \in DOMAIN vars : vars[i].option = o})
FirstCount(vars) ==
  [o \in {vars[i].option : i \in DOMAIN vars} |-> vars[FirstOfName(vars, o)].value]
ParseConfig(t) ==
  LET next(p) == IF p > Len(t) THEN p ELSE p + IF t[p] = "cr" THEN 2 ELSE 1
      From[p \in 1 .. Len(t) + 3] ==
        IF p > Len(t) THEN <<>>
        ELSE LET r == ParseOption(t, p) IN r.says \o From[next(r.at)]
  IN  FirstCount(From[1])

-----------------------------------------------------------------------------
(* from_chars(): every character is taken for a digit.  What goes beyond  *)
(* MaxNumber stays there (the code goes on to wrap).                      *)
MaxNumber == 100000
Digits == <<"0", "1", "2", "3", "4", "5", "6", "7", "8", "9">>
Digit(c) ==
  CASE c \in Range(Digits) -> (CHOOSE i \in DOMAIN Digits : Digits[i] = c) - 1
    [] c = "sp" -> -16 [] c = "cr" -> -35 [] c = "nl" -> -38 [] OTHER -> 50
Number(v) ==
  LET Step1(n, c) == IF n \in -MaxNumber .. MaxNumber THEN 10 * n + Digit(c) ELSE n
  IN  FoldLeft(Step1, 0, v)

(* int_between_f(), to_bool(), string_restricted_f().                     *)
Between(n, old) == IF n \in IntRange THEN n ELSE old
ToBool(v) == v = <<"on">> \/ "1" \in Range(v)
Allowed == {<<"auto">>, <<"x360">>}
Restricted(v, old) == IF v \in Allowed THEN v[1] ELSE old

(* list_string_f(): items end at a comma or at the closing bracket.       *)
Split(v) ==
  LET Take(r, c) == IF c = "," THEN Append(r, <<>>) ELSE [r EXCEPT ![Len(r)] = Append(@, c)]
  IN  FoldLeft(Take, <<<<>>>>, v)
Item(x) == SubSeq(x, FirstNotIn(x, 1, Len(x) + 1, Blank), Len(x))
NoEmptyLast(items) == IF Last(items) = <<>> THEN Front(items) ELSE items
Bracketed(v, first) == SubSeq(v, first, FirstIn(v, first, Len(v) + 1, {"]"}) - 1)
ListItems(v) ==
  LET inside == Bracketed(v, IF v[1] = "[" THEN 2 ELSE 1)
  IN  NoEmptyLast([x \in DOMAIN Split(inside) |-> Item(Split(inside)[x])])

(* map_int_int_f(): pairs are added to what is there.                     *)
PairsAdded(old, items) ==
  LET keys == {2 * n - 1 : n \in 1 .. Len(items) \div 2}
      new == {Number(items[n]) : n \in keys} \ DOMAIN old
      at(k) == Min({n \in keys : Number(items[n]) = k})
  IN  IF Len(items) % 2 = 1 THEN old ELSE old @@ [k \in new |-> Number(items[at(k) + 1])]
Added(old, v) == PairsAdded(old, ListItems(v))

(* apply_config(), section by section.  vt_software is read twice, and    *)
(* taken out by the first time; the credentials are kept with the state   *)
(* unless they have a file; a flag is turned round by each who names it.  *)
Given(vars, o, read(_), old) == IF o \in DOMAIN vars THEN read(vars[o]) ELSE old
VideoOptions(vars) ==
  LET mode(v) == Between(Number(v), Defaults.mode)
      software(v) == v \in {<<"allowed">>, <<"forced">>}
  IN  [mode |-> Given(vars, "mode", mode, Defaults.mode),
       allowSw |-> Given(vars, "vt", software, Defaults.allowSw),
       requireSw |-> Defaults.requireSw]
HostOptions(vars) ==
  LET same(v) == v
      state == Given(vars, "state", same, Defaults.state)
  IN  [state |-> state, credentials |-> Given(vars, "credentials", same, state),
       sink |-> Given(vars, "sink", same, Defaults.sink)]
InputOptions(vars) ==
  LET pad(v) == Restricted(v, Defaults.pad)
      keys(v) == Added(Defaults.keys, v)
  IN  [keys |-> Given(vars, "keys", keys, Defaults.keys),
       delay |-> Given(vars, "delay", Number, Defaults.delay),
       pad |-> Given(vars, "pad", pad, Defaults.pad)]
NetworkOptions(vars, flagged) == [upnp |-> flagged # Given(vars, "upnp", ToBool, FALSE)]
ApplyConfig(vars, flagged) ==
  VideoOptions(vars) @@ HostOptions(vars) @@ InputOptions(vars) @@ NetworkOptions(vars, flagged)

-----------------------------------------------------------------------------
(* How a line is written.                                                 *)
Text(l) ==
  CASE l.style = "plain" -> <<l.option, "sp", "=", "sp">> \o l.value \o <<"nl">>
    [] l.style = "tight" -> <<l.option, "=">> \o l.value \o <<"nl">>
    [] l.style = "crlf" -> <<"sp", l.option, "=", "sp">> \o l.value \o <<"cr", "nl">>
    [] l.style = "comment" ->
         <<l.option, "sp", "=", "sp">> \o l.value \o <<"sp", "#", "=", "note", "nl">>
    [] l.style = "off" -> <<"#", l.option, "sp", "=", "sp">> \o l.value \o <<"nl">>

ConfigInit ==
  /\ written = <<>> /\ fileText = <<>> /\ argsGiven = <<>> /\ configAt = "edit"
  /\ applied = Defaults /\ toWrite = <<>> /\ savedAs = Nothing2
  /\ tornFile = FALSE /\ notSaved = FALSE

(* A user writes the file.                                                *)
Edit(l) ==
  /\ configAt = "edit" /\ savedAs = Nothing2 /\ Len(written) < MaxLines
  /\ written' = Append(written, l) /\ fileText' = fileText \o Text(l)
  /\ UNCHANGED <<argsGiven, configAt, applied, toWrite, savedAs, tornFile, notSaved>>

(* parse(): the command line, then the file.  A path that cannot be made  *)
(* keeps the host from starting.                                          *)
ArgOptions(args) == SelectSeq(args, LAMBDA x : x.style = "plain")
OfArgs(args) ==
  LET vars == ArgOptions(args)
  IN  [o \in {vars[i].option : i \in DOMAIN vars} |->
         vars[Max({i \in DOMAIN vars : vars[i].option = o})].value]
Flagged(args) == Len(SelectSeq(args, LAMBDA x : x.style = "flag")) % 2 = 1
Overrides(file, args) == args @@ file

LaunchWith(args, vars) ==
  /\ configAt = "edit"
  /\ argsGiven' = args
  /\ \/ configAt' = "running" /\ applied' = ApplyConfig(vars, Flagged(args))
     \/ "state" \in DOMAIN vars /\ configAt' = "refused" /\ UNCHANGED applied
  /\ UNCHANGED <<written, fileText, toWrite, savedAs, tornFile, notSaved>>
Launch(args) == LaunchWith(args, Overrides(ParseConfig(fileText), OfArgs(args)))

(* getConfig() and saveConfig(): the UI shows the options of the file and *)
(* saves them, one of them changed; the file is truncated, then written.  *)
OptionOrder == <<"credentials", "delay", "keys", "mode", "pad", "sink", "state", "upnp", "vt">>
Rendered(vars) ==
  FlattenSeq([i \in DOMAIN OptionOrder |->
                IF OptionOrder[i] \in DOMAIN vars /\ vars[OptionOrder[i]] # <<>>
                THEN Text([option |-> OptionOrder[i], value |-> vars[OptionOrder[i]],
                           style |-> "plain"])
                ELSE <<>>])

SaveAll(vars) ==
  /\ configAt = "running" /\ savedAs = Nothing2
  /\ savedAs' = Restrict(vars, {x \in DOMAIN vars : vars[x] # <<>>})
  /\ \/ /\ configAt' = "saving" /\ fileText' = <<>> /\ toWrite' = Rendered(vars)
        /\ UNCHANGED notSaved
     \/ configAt' = "edit" /\ notSaved' = TRUE /\ UNCHANGED <<fileText, toWrite>>
  /\ UNCHANGED <<written, argsGiven, applied, tornFile>>
SaveConfig(o, v) == SaveAll((o :> v) @@ ParseConfig(fileText))

Write ==
  /\ configAt = "saving" /\ configAt' = "edit"
  /\ fileText' = toWrite /\ toWrite' = <<>>
  /\ UNCHANGED <<written, argsGiven, applied, savedAs, tornFile, notSaved>>

Killed ==
  /\ configAt = "saving" /\ configAt' = "edit"
  /\ tornFile' = TRUE /\ toWrite' = <<>>
  /\ UNCHANGED <<written, fileText, argsGiven, applied, savedAs, notSaved>>

ConfigNext ==
  \/ \E l \in ConfigLines : Edit(l)
  \/ \E args \in ConfigArgs : Launch(args)
  \/ \E o \in {"sink", "keys", "mode"}, v \in SavedValues : SaveConfig(o, v)
  \/ Write \/ Killed

-----------------------------------------------------------------------------
(* The domains of the variables.                                          *)
ConfigTypeOK ==
  /\ configAt \in {"edit", "running", "saving", "refused"} /\ Len(written) <= MaxLines
  /\ applied.mode \in IntRange /\ applied.pad \in {"auto", "x360"}
  /\ {applied.upnp, applied.allowSw, applied.requireSw, tornFile, notSaved} \subseteq BOOLEAN

(* The line of the file a reader would go by: the first that is not       *)
(* commented out; nothing is promised behind a list that is not closed,   *)
(* and of a number or word with a comment behind it, because the blank    *)
(* between them is part of the value.                                     *)
Unclosed(v) == v # <<>> /\ v[1] = "[" /\ v[Len(v)] # "]"
Unfinished == \E i \in DOMAIN written : Unclosed(written[i].value)
Lines(o) == {i \in DOMAIN written : written[i].option = o /\ written[i].style # "off"}
Readable(l) == l.style # "comment" \/ l.option = "sink"
Plain(o) ==
  o \notin DOMAIN OfArgs(argsGiven) /\ Lines(o) # {} => Readable(written[Min(Lines(o))])
Meant(o, read(_), default) ==
  IF o \in DOMAIN OfArgs(argsGiven) THEN read(OfArgs(argsGiven)[o])
  ELSE IF Lines(o) # {} THEN read(written[Min(Lines(o))].value)
  ELSE default

(* The pairs of a list, for a reader: its numbers, two by two.            *)
Pairs(v) ==
  LET items == Split(SelectSeq(v, LAMBDA c : c \in Range(Digits) \cup {","}))
  IN  {<<Number(items[2 * n - 1]), Number(items[2 * n])>> : n \in 1 .. Len(items) \div 2}

(* The host runs with what the command line says, else the file, else the *)
(* default; a number out of its range and an unknown word are ignored, and *)
(* keys are bound in addition to those bound already.                     *)
SettingsFollow ==
  LET inRange(v) == IF Number(v) \in IntRange THEN Number(v) ELSE 0
      known(v) == IF v \in Allowed THEN v[1] ELSE "auto"
      bound(v) == \A pair \in Pairs(v) :
                    pair[1] = 1 \/ <<pair[1], applied.keys[pair[1]]>> \in Pairs(v)
      on(v) == v = <<"on">>
      same(v) == v
  IN  configAt = "running" /\ savedAs = Nothing2 /\ ~Unfinished =>
        /\ Plain("mode") => applied.mode = Meant("mode", inRange, 0)
        /\ Plain("delay") => applied.delay = Meant("delay", Number, 10)
        /\ Plain("pad") => applied.pad = Meant("pad", known, "auto")
        /\ Plain("upnp") => applied.upnp = (Flagged(argsGiven) # Meant("upnp", on, FALSE))
        /\ SelectSeq(applied.sink, LAMBDA c : c # "sp") = Meant("sink", same, <<>>)
        /\ Plain("keys") => Meant("keys", bound, applied.keys = (1 :> 1))
        /\ applied.credentials = Meant("credentials", same, applied.state)

(* What the UI saved is what the next start reads, but for texts with the *)
(* sign of a comment or with blanks at their start, and lists not closed. *)
Storable(v) == "#" \notin Range(v) /\ (v # <<>> => v[1] \notin Blank)
SavedIsRead ==
  savedAs # Nothing2 /\ configAt # "saving" /\ ~tornFile /\ ~notSaved =>
    LET read == ParseConfig(fileText)
        sound == \A o \in DOMAIN savedAs : ~Unclosed(savedAs[o])
    IN  sound => \A o \in DOMAIN savedAs :
          Storable(savedAs[o]) => o \in DOMAIN read /\ read[o] = savedAs[o]
=============================================================================
