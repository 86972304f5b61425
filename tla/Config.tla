-------------------------------- MODULE Config --------------------------------
(***************************************************************************)
(* Configurations (src/core/config): lines of tokens are read into a       *)
(* dictionary under the sections they stand in (config.cpp, config.lex),   *)
(* and saved without sections.                                             *)
(*                                                                         *)
(* A key is the sequence of the names between its dots.  A number is in    *)
(* units of a tenth of what std::to_string prints.                         *)
(***************************************************************************)
EXTENDS Integers, Sequences, SequencesExt, Functions

CONSTANTS ConfigKeys,    \* keys as lines have them
          SectionKeys,   \* those that open sections: without dots
          ConfigValues,  \* <<"number", n>> and <<"string", s>>
          LineBound

ASSUME ConfigAssumption ==
  /\ ConfigKeys \subseteq Seq(STRING)
  /\ SectionKeys \subseteq Seq(STRING) /\ \A k \in SectionKeys : Len(k) = 1
  /\ ConfigValues \subseteq ({"number"} \X Int) \cup ({"string"} \X STRING)

Set == <<"set">>
Start == <<"start">>
Finish == <<"finish">>
Key(k) == <<"string", k>>

VARIABLES
  dict,      \* from full keys to values
  context,   \* the sections around the next line, joined by dots
  thrown,    \* the last Load ended with an exception
  sections,  \* the keys of the sections that were opened and not closed
  lines

configVars == <<dict, context, thrown, sections, lines>>

ConfigInit ==
  dict = [k \in {} |-> 0] /\ context = <<>> /\ thrown = FALSE /\ sections = <<>> /\ lines = 0

(* A section is closed at the last dot.                                    *)
UpToLastDot(ctx) == SubSeq(ctx, 1, Len(ctx) - 1)
UpToFirstDot(ctx) == IF Len(ctx) = 1 THEN <<>> ELSE SubSeq(ctx, 1, 1)
Closed(ctx) == UpToLastDot(ctx)

(* dict[key] = value.                                                      *)
Entered(d, key, value) == [k \in DOMAIN d \cup {key} |-> IF k = key THEN value ELSE d[k]]

(* ParseString: what a line makes of [dict, context, thrown].  What stands *)
(* behind a complete entry is not read.  A line of white space alone is no *)
(* empty line: it has no token that could begin an entry, like <<Set>>.    *)
Is(line, i, type) == i <= Len(line) /\ line[i][1] = type
ParseString(at, line) ==
  IF at.thrown \/ line = <<>> THEN at
  ELSE IF Is(line, 1, "finish") /\ at.context # <<>> THEN [at EXCEPT !.context = Closed(@)]
  ELSE IF Is(line, 1, "string") /\ Is(line, 2, "start") THEN [at EXCEPT !.context = @ \o line[1][2]]
  ELSE IF Is(line, 1, "string") /\ Is(line, 2, "set") /\ (Is(line, 3, "string") \/ Is(line, 3, "number"))
       THEN [at EXCEPT !.dict = Entered(@, at.context \o line[1][2], line[3])]
  ELSE [at EXCEPT !.thrown = TRUE]

Loaded(d, ls) == FoldLeft(ParseString, [dict |-> d, context |-> <<>>, thrown |-> FALSE], ls)

(* Save: numbers lose what %f does not print.                              *)
Printed(value) == IF value[1] = "number" THEN <<"number", 10 * ((value[2] + 5) \div 10)>> ELSE value
Saved(d) == [i \in 1 .. Cardinality(DOMAIN d) |->
               LET k == SetToSeq(DOMAIN d)[i] IN <<Key(k), Set, Printed(d[k])>>]

Lines ==
  {<<>>, <<Finish>>, <<Set>>}
  \cup {<<Key(k), Start>> : k \in SectionKeys} \cup {<<Key(k), Key(k)>> : k \in ConfigKeys}
  \cup {<<Key(k), Set, v>> : k \in ConfigKeys, v \in ConfigValues \cup {Start}}
  \cup {<<Key(k), Set, v, Finish>> : k \in ConfigKeys, v \in ConfigValues}

ReadLine(line) ==
  /\ ~thrown /\ lines < LineBound
  /\ LET read == ParseString([dict |-> dict, context |-> context, thrown |-> FALSE], line) IN
     dict' = read.dict /\ context' = read.context /\ thrown' = read.thrown
  /\ sections' = IF Is(line, 2, "start") THEN Append(sections, line[1][2])
                 ELSE IF line = <<Finish>> /\ sections # <<>> THEN Front(sections) ELSE sections
  /\ lines' = lines + 1

(* The dictionary stays as far as it came, and the next Load begins        *)
(* outside of all sections.                                                *)
LoadNext ==
  /\ lines < LineBound
  /\ context' = <<>> /\ thrown' = FALSE /\ sections' = <<>> /\ lines' = lines + 1
  /\ UNCHANGED dict

ConfigNext == (\E line \in Lines : ReadLine(line)) \/ LoadNext
ConfigSpec == ConfigInit /\ [][ConfigNext]_configVars

-----------------------------------------------------------------------------
(* Keys stand under the sections that are open around them (the closing of *)
(* a section "a.b" would leave "a" open, so no section has such a key);    *)
(* and what was saved is read back under the same keys, numbers as they    *)
(* were printed (config.cpp:93-226, value.hpp:129-133).                    *)
ConfigReadsBack ==
  /\ ~thrown => context = FlattenSeq(sections)
  /\ LET again == Loaded([k \in {} |-> 0], Saved(dict)) IN
     ~again.thrown /\ again.dict = [k \in DOMAIN dict |-> Printed(dict[k])]
=============================================================================
