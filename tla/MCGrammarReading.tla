-------------------------- MODULE MCGrammarReading --------------------------
(***************************************************************************)
(* Grammars of up to three files that import one another.                  *)
(***************************************************************************)
EXTENDS GrammarReading

CONSTANTS main, lib, sub,  \* three files
          none      \* a path to no file

Rule       == [kind |-> "rule", faults |-> 0]
Faulty     == [kind |-> "rule", faults |-> 1]
Illegal    == [kind |-> "illegal"]
Unknown    == [kind |-> "unknown"]
Footer     == [kind |-> "footer"]
Value      == [kind |-> "setting", setting |-> "%value"]
Requires   == [kind |-> "requires", packcc |-> TRUE]
Other      == [kind |-> "requires", packcc |-> FALSE]
ImportOf(p) == [kind |-> "import", path |-> p]
VersionIs(v) == [kind |-> "version", version |-> v]
Marker(name) == [kind |-> "marker", name |-> name]
Needs(list) == [kind |-> "constraints", list |-> list, broken |-> FALSE]
Breaks(list) == [kind |-> "constraints", list |-> list, broken |-> TRUE]
Op(op, v)   == [op |-> op, version |-> v]

V(a, b, c) == <<a, b, c>>
V0   == IMPLICIT_VERSION
V090 == V(<<0>>, <<9>>, <<0>>)
V1101 == V(<<1>>, <<1, 0>>, <<1>>)
V190 == V(<<1>>, <<9>>, <<0>>)

MCFile == {main, lib, sub}
MCPath == {main, lib, sub, none}
\* A file is found in the second directory, or in the first one that has it.
MCOpened ==
  [x \in MCFile \X MCPath |->
     IF x[2] = none THEN IF x[1] = lib THEN <<denied, sub>> ELSE <<absent, absent>>
     ELSE IF x[2] = sub THEN <<absent, sub, lib>> ELSE <<x[2]>>]
MCSetting == {"%value"}
MCPackcc  == V(<<3>>, <<1>>, <<0>>)
MCBehind  == {<<>>, <<9>>}
MCUnterminated == {main}

Sequence(pools) == {[k \in DOMAIN pools |-> s[k]] :
                      s \in [DOMAIN pools -> UNION {pools[k] : k \in DOMAIN pools}]}
InPools(pools) == {s \in Sequence(pools) : \A k \in DOMAIN pools : s[k] \in pools[k]}
Texts(tm, tf, tg) ==
  {[x \in MCFile |-> CASE x = main -> a [] x = lib -> b [] x = sub -> c] : a \in tm, b \in tf, c \in tg}

\* Imports in every order, in circles too, with errors before, between and behind.
Everything ==
  Texts(InPools(<<{Rule, ImportOf(lib), ImportOf(none), Illegal, Value, Requires},
                  {ImportOf(lib), ImportOf(sub), Unknown, Needs(<<Op(">=", V190)>>), Breaks(<<>>)},
                  {Illegal, Rule, Needs(<<Op("<", V190), Op("!=", V0)>>), ImportOf(sub), Value},
                  {Rule, Footer, Other}>>),
        InPools(<<{Faulty, VersionIs(V1101), ImportOf(sub), ImportOf(none)},
                  {ImportOf(main), Value, Rule, VersionIs(V090)}>>),
        InPools(<<{Rule, ImportOf(lib), Marker(<<"a", "b">>)}, {Rule, Footer}>>))

\* Constraints of all kinds on what packcc and a file are, the file being read
\* before, at the end of the text or not.
Constraints ==
  LET vs == {V0, V090, V190, V1101, MCPackcc}
      one == {Needs(<<Op(o, v)>>) : o \in Operators, v \in vs}
      two == {Needs(<<Op(">=", v), Op("<", w)>>) : v \in vs, w \in vs}
      wrong == {Breaks(<<Op(">=", v)>>) : v \in vs}
      any == one \cup two \cup wrong
  IN Texts(InPools(<<{ImportOf(lib), Requires}, any>>)
             \cup InPools(<<{ImportOf(lib), Requires}, any, {Rule}>>),
           {<<VersionIs(v)>> : v \in vs} \cup {<<>>, <<Footer, VersionIs(V190)>>}, {<<Rule>>})

\* Two markers.
Markers ==
  LET names == {Marker(<<"a">>), Marker(<<"a", "b">>), Marker(<<"b">>)}
  IN Texts(InPools(<<names, names>>), {<<Rule>>}, {<<Rule>>})

MCContents == Everything \cup Constraints \cup Markers
=============================================================================
