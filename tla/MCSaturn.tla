------------------------------- MODULE MCSaturn -------------------------------
(* The compiler and the controllers of the Saturn PLC on small instances; "part" *)
(* says which of them a behaviour is about.                                      *)
EXTENDS SaturnCompiler, SaturnPlc

VARIABLE part

Element(id, kind, inputs, params, caption) ==
  [id |-> id, kind |-> kind, inputs |-> inputs, params |-> params, caption |-> caption]

\* A constant, watchpoints, a setpoint and a block of two inputs; one id is used
\* twice; a watchpoint without a caption, a type that does not exist and an empty id.
TheElements ==
  {Element("a", 1, <<>>, 1, NoText), Element("b", WP, <<"a">>, 1, <<"x">>),
   Element("c", WP, <<"c">>, 1, <<"x", "0", "y">>), Element("d", SP, <<>>, 5, <<>>),
   Element("d", MOD, <<"a", "b">>, 0, NoText), Element("e", WP, <<"e">>, 1, NoText),
   Element("f", 41, <<>>, 0, NoText), Element("", 1, <<>>, 1, NoText)}

Hint(kind, index, text) == [kind |-> kind, index |-> index, text |-> text]
TheHints == {Hint(0, 1, <<"h">>), Hint(1, 255, <<"k", "0">>)}

Fill(n) == [i \in 1 .. n |-> Zero]
Screen(len, items, bytes) == <<[is |-> "screen", v |-> [len |-> len, items |-> items]]>> \o Fill(bytes - 1)
ScreenOf(items) ==
  LET len == 8 + Sum([i \in DOMAIN items |-> items[i].size]) IN Screen(len, items, len)

\* An element of a screen; a text is followed by zeros, unless it fills its record.
Line(width, finite) == [kind |-> 0, size |-> 32, visible |-> 65535, width |-> width, finite |-> finite]
TextItem(size, visible, value, text) ==
  [kind |-> 2, size |-> size, visible |-> visible, value |-> value,
   letters |-> text \o [i \in 1 .. size - 24 - Len(text) |-> "0"]]
Gauge(value, scale) == [kind |-> 4, size |-> 32, visible |-> 65535, value |-> value, scale |-> scale]
Letters32 == [i \in 1 .. 32 |-> "n"]
Box == [kind |-> 3, size |-> 20, visible |-> 65535]

\* No bytes; screens without elements, two of them with another length than they say.
BareScreens == {<<>>, Screen(8, <<>>, 8), Screen(8, <<>>, 12), Screen(16, <<>>, 8)}

\* Screens that are in order if there are two elements: a line and a gauge; a text
\* with a value, one that asks for none and one that has no element.
FineScreens ==
  {ScreenOf(<<Line(32, TRUE), Gauge(1, 1)>>),
   ScreenOf(<<TextItem(32, 1, 0, <<"%", ".", "6", "f", "%", "%">>), TextItem(28, 0, 1, <<"%", "%">>)>>),
   ScreenOf(<<TextItem(28, 65535, 65535, <<"%", "f">>)>>)}

\* A line too wide and one that leads away; a gauge of an element that may not be
\* there, or without a scale; a text of such an element, with two values, without
\* an end, and too long; more elements than a screen may have.
PoorScreens ==
  {ScreenOf(<<Line(33, TRUE)>>), ScreenOf(<<Line(1, FALSE)>>),
   ScreenOf(<<Gauge(2, 1)>>), ScreenOf(<<Gauge(0, 0)>>),
   ScreenOf(<<TextItem(28, 65535, 2, <<"%", "f">>)>>),
   ScreenOf(<<TextItem(28, 65535, 0, <<"%", "f", "%", "f">>)>>),
   ScreenOf(<<TextItem(28, 65535, 0, <<"n", "n", "n", "n">>)>>),
   ScreenOf(<<TextItem(60, 65535, 0, Letters32)>>),
   Screen(5148, [i \in 1 .. 257 |-> Box], 5148)}

TheScreens == BareScreens \cup FineScreens \cup PoorScreens

TheItems == UNION {Range(screen[1].v.items) : screen \in TheScreens \ {<<>>}}

TheLetters == {"n", "v", "t", "x", "y", "h", "k", "0", "%", ".", "6", "f", "absent", "crc"}

TheNames == {<<"n">>, <<>>, <<"n", "0">>}

LowLimits == [p \in Programs |-> 0]
HighLimits == [p \in Programs |-> 1]

SaturnInit ==
  /\ part \in {"compiler", "controllers"}
  /\ CompilerInit /\ (part = "controllers" => ir.project[1] = <<"n">>)
  /\ PlcInit

CompilerPart == part = "compiler" /\ CompilerNext /\ UNCHANGED plcVars
PlcPart == part = "controllers" /\ PlcNext /\ UNCHANGED compilerVars

SaturnSpec ==
  /\ SaturnInit
  /\ [][UNCHANGED part /\ (CompilerPart \/ PlcPart)]_<<part, compilerVars, plcVars>>
  /\ \A t \in Threads :
       /\ WF_plcVars(part = "controllers" /\ (LoadRuntime(t) \/ LoadFails(t)) /\ UNCHANGED <<part, compilerVars>>)
       /\ WF_plcVars(part = "controllers" /\ Drops(t) /\ UNCHANGED <<part, compilerVars>>)
=============================================================================
