------------------------------ MODULE ConfigFile ------------------------------
(***************************************************************************)
(* How Config::load makes the five retained configuration messages of      *)
(* zwaved.conf.  A file is a sequence of lines as parseFile classifies     *)
(* them once trimmed; a value is the sequence of its colon-separated        *)
(* fields.                                                                 *)
(***************************************************************************)
EXTENDS PolicyBlobs

CONSTANT MaxLines   \* bound: lines of a file

Header(name) == [is |-> "header", section |-> name]
Entry(key, value) == [is |-> "entry", key |-> key, value |-> value]
Ignored == [is |-> "ignored"]   \* blank, a comment, or without '='

\* The file as a list of entries under the section they stand in: what the
\* code keeps as one vector per section name.
parseFile(lines) ==
  FoldLeft(LAMBDA acc, l :
             CASE l.is = "header" -> [acc EXCEPT !.section = l.section]
               [] l.is = "entry" ->
                    [acc EXCEPT !.entries = Append(@, [section |-> acc.section] @@ l)]
               [] OTHER -> acc,
           [section |-> "", entries |-> <<>>], lines).entries

allValues(file, section, key) ==
  LET mine == SelectSeq(file, LAMBDA e : e.section = section /\ e.key = key)
  IN  [i \in DOMAIN mine |-> mine[i].value]

firstValue(file, section, key) ==
  IF allValues(file, section, key) = <<>> THEN NullOpt ELSE Head(allValues(file, section, key))

Levels == <<<<"debug">>, <<"info">>, <<"warn">>, <<"error">>>>
parseLevel(text) ==
  IF text \in ToSet(Levels) THEN (CHOOSE i \in 1..4 : Levels[i] = text) - 1 ELSE NullOpt

parseBool(text) ==
  CASE text \in {<<"true">>, <<"yes">>, <<"1">>} -> TRUE
    [] text \in {<<"false">>, <<"no">>, <<"0">>} -> FALSE
    [] OTHER -> NullOpt

\* Only the first two colons separate; the rest of the fields are the name.
parseAccept(fields) ==
  IF Len(fields) < 3 \/ "" \in {fields[1], fields[2]} THEN NullOpt
  ELSE [vid |-> fields[1], pid |-> fields[2], name |-> SubSeq(fields, 3, Len(fields))]

\* A value that is missing or not understood leaves what is there.
OrElse(parsed, kept) == IF parsed = NullOpt THEN kept ELSE parsed

loadLoggerSection(file, level) ==
  LET v == firstValue(file, "logger", "min_level")
  IN  IF v = NullOpt THEN level ELSE OrElse(parseLevel(v), level)

loadStorageSection(file, dir) == OrElse(firstValue(file, "storage", "state_dir"), dir)

loadSecuritySection(file, security) ==
  [s0KeyFile |-> OrElse(firstValue(file, "security", "s0_key_file"), security.s0KeyFile),
   s2KeyDir |-> OrElse(firstValue(file, "security", "s2_key_dir"), security.s2KeyDir)]

Accepted(file) ==
  LET entries == allValues(file, "dongles", "accept")
      parsed == [i \in DOMAIN entries |-> parseAccept(entries[i])]
  IN  SelectSeq(parsed, LAMBDA a : a # NullOpt)

loadDonglesSection(file, accept) ==
  IF Accepted(file) = <<>> THEN accept ELSE Accepted(file)

loadBehaviorSection(file, flag) ==
  LET v == firstValue(file, "behavior", "auto_lifeline")
  IN  IF v = NullOpt THEN flag ELSE OrElse(parseBool(v), flag)

Defaults ==
  [logger |-> 1, storage |-> <<>>, security |-> [s0KeyFile |-> <<>>, s2KeyDir |-> <<>>],
   dongles |-> <<[vid |-> "0658", pid |-> "0200", name |-> <<"Aeotec Z-Stick Gen5">>]>>,
   behavior |-> TRUE]

\* Config::load: what is published, and whether a DaemonError is.
load(found, lines) ==
  IF found # "readable" THEN [published |-> Defaults, failed |-> found = "unreadable"]
  ELSE LET file == parseFile(lines)
       IN  [published |->
              [logger |-> loadLoggerSection(file, Defaults.logger),
               storage |-> loadStorageSection(file, Defaults.storage),
               security |-> loadSecuritySection(file, Defaults.security),
               dongles |-> loadDonglesSection(file, Defaults.dongles),
               behavior |-> loadBehaviorSection(file, Defaults.behavior)],
            failed |-> FALSE]

-----------------------------------------------------------------------------
(* The call.                                                               *)

Lines ==
  {Header("logger"), Header("dongles"), Header("behavior"), Header("security"),
   Header("storage"), Ignored,
   Entry("min_level", <<"debug">>), Entry("min_level", <<"error">>), Entry("min_level", <<"loud">>),
   Entry("accept", <<"0658", "0200", "Stick">>), Entry("accept", <<"10c4", "ea60", "A", "B">>),
   Entry("accept", <<"10c4", "ea60">>), Entry("accept", <<"", "ea60", "A">>),
   Entry("auto_lifeline", <<"no">>), Entry("auto_lifeline", <<"maybe">>),
   Entry("s2_key_dir", <<"/keys">>), Entry("state_dir", <<"/state">>), Entry("state_dir", <<"/other">>)}

ConfigInput ==
  \/ \E found \in {"missing", "unreadable"} :
       input = [of |-> "config", found |-> found, lines |-> <<>>]
  \/ \E n \in 0..MaxLines : \E lines \in [1..n -> Lines] :
       input = [of |-> "config", found |-> "readable", lines |-> lines]

loadConfig == Call("config", load(input.found, input.lines))

-----------------------------------------------------------------------------
(* Properties.                                                             *)

\* The lines that set a key of a section: those whose nearest header above
\* names the section.
Setting(section, key) ==
  {i \in DOMAIN input.lines :
     /\ input.lines[i].is = "entry" /\ input.lines[i].key = key
     /\ \E h \in 1..(i - 1) :
          /\ input.lines[h] = Header(section)
          /\ \A k \in (h + 1)..(i - 1) : input.lines[k].is # "header"}

\* A setting is the value on the first line that sets it, wherever sections
\* are reopened below, and keeps its default when no line does or that first
\* value is not understood, even if a later line has a good one.
FirstSettingWins ==
  Done("config") =>
    LET first(section, key) == input.lines[Min(Setting(section, key))].value
        expected(section, key, parse(_), default) ==
          IF Setting(section, key) = {} \/ parse(first(section, key)) = NullOpt THEN default
          ELSE parse(first(section, key))
        same(v) == v
    IN /\ output.published.logger = expected("logger", "min_level", parseLevel, 1)
       /\ output.published.storage = expected("storage", "state_dir", same, <<>>)
       /\ output.published.security.s2KeyDir = expected("security", "s2_key_dir", same, <<>>)
       /\ output.published.behavior = expected("behavior", "auto_lifeline", parseBool, TRUE)

\* The daemon never ends up accepting no dongle at all: the accepted ones are
\* the well-formed lines in file order, or the built-in one when none is.
SomeDongleAccepted ==
  Done("config") =>
    LET good == {i \in Setting("dongles", "accept") :
                   parseAccept(input.lines[i].value) # NullOpt}
        rank(i) == Cardinality({j \in good : j <= i})
    IN IF good = {} THEN output.published.dongles = Defaults.dongles
       ELSE /\ Len(output.published.dongles) = Cardinality(good)
            /\ \A i \in good : output.published.dongles[rank(i)]
                                 = parseAccept(input.lines[i].value)
=============================================================================
