---------------------------- MODULE SaturnCompiler ----------------------------
(***************************************************************************)
(* FBD programs of the Saturn PLC: saturn_compiler.rs writes a program     *)
(* from a ControlIR, saturn.rs inspects any program before it crosses into *)
(* the C runtime, which walks it without looking at its end.               *)
(*                                                                         *)
(* The fixed front of a program (elements, references, parameters,         *)
(* options) is a record whose length in bytes is computed; a program that  *)
(* ends within it is refused, and is left out. What follows the front      *)
(* (captions, screens, hints) is a sequence of bytes, where a byte of a    *)
(* text is a letter or zero and a screen record begins with a byte that    *)
(* stands for its header and the fields of its elements.                   *)
(***************************************************************************)
EXTENDS Integers, Sequences, SequencesExt, FiniteSetsExt, Selection

CONSTANTS
  Elements,   \* bound: what the elements of an IR may be
  Names,      \* bound: what the name of the project may be
  Hints,      \* bound: what the hints may be
  Screens,    \* bound: what the screens may be
  Items,      \* bound: what the elements of a screen may be
  Letters,    \* bound: what the letters of a text may be
  MaxElements, MaxHints, MaxScreens  \* bounds: how many of them

\* saturn.rs, by element type; the names of the types that the code knows by name.
InputCounts ==
  <<1, 0, 1, 2, 2, 2, 2, 2, 2, 2, 2, 2, 2, 2, 1, 0, 0, 4, 3, 3, 5, 1, 1, 0, 2, 2, 2, 3, 2, 2,
    2, 2, 2, 0, 1, 2, 0, 1, 5, 1, 5>>
ParamCounts ==
  <<1, 1, 0, 0, 0, 0, 0, 0, 0, 0, 0, 0, 0, 0, 1, 1, 2, 0, 0, 0, 0, 0, 1, 5, 0, 0, 0, 0, 0, 0,
    0, 0, 1, 3, 2, 0, 4, 2, 1, 66, 0>>
WP == 22
SP == 23
ModbusKinds == {33, 34}
MOD == 35
SUMM == 40
Known(kind) == kind < Len(InputCounts)
HasCaption(kind) == kind \in {WP, SP}

Letter(c) == [is |-> "letter", v |-> c]
Number(n) == [is |-> "number", v |-> n]
Zero == Number(0)
Text(letters) == [i \in DOMAIN letters |-> IF letters[i] = "0" THEN Zero ELSE Letter(letters[i])]
NoText == <<"absent">>
CrcBytes == [i \in 1..4 |-> Letter("crc")]

\* The first byte of a screen stands for the header and the elements of it.
ScreenBytes == [is : {"screen"}, v : [len : Nat, items : Seq(Items)]]
Byte == [is : {"letter"}, v : Letters] \cup [is : {"number"}, v : Nat] \cup ScreenBytes

MaxByte == 255
MaxUint16 == 65535

ASSUME SaturnAssumption ==
  /\ {"v", "t", "x", "crc"} \subseteq Letters  \* those that are named below
  /\ Elements \subseteq
       [id : STRING, kind : Nat, inputs : Seq(STRING), params : Nat, caption : Seq(Letters)]
  /\ Names \subseteq Seq(Letters)
  /\ Hints \subseteq [kind : 0..2, index : 0..MaxByte, text : Seq(Letters)]
  /\ \A item \in Items :
       /\ {item.kind, item.visible} \subseteq Nat
       /\ item.kind = 0 => item.width \in Nat /\ item.finite \in BOOLEAN
       /\ item.kind = 2 => item.value \in Nat /\ item.letters \in Seq(Letters)
       /\ item.kind = 4 => item.value \in Nat /\ item.scale \in Int
  /\ Screens \subseteq Seq(Byte)

Sum(numbers) ==
  LET sum[k \in 0 .. Len(numbers)] == IF k = 0 THEN 0 ELSE sum[k - 1] + numbers[k]
  IN  sum[Len(numbers)]

Concat(parts) ==
  LET joined[k \in 0 .. Len(parts)] == IF k = 0 THEN <<>> ELSE joined[k - 1] \o parts[k]
  IN  joined[Len(parts)]

RoundUp(n) == ((n + 3) \div 4) * 4

-----------------------------------------------------------------------------
(* The program. *)

\* Bytes before the texts: the types and END_MARK, 16-bit references, 32-bit
\* parameters, the count of the options and the options.
FrontLength(front) ==
  Len(front.kinds) + 1 + 2 * Len(front.refs) + 4 * front.params + 1 + 4 * Len(front.options)

\* A program that has fewer options means zero by the others.
Option(program, index) == IF index < Len(program.options) THEN program.options[index + 1] ELSE 0

RequiredVersion(program) == Option(program, 0)
ScreenCount(program) == Option(program, 4)
SchemaSize(program) == Option(program, 5)
HintCount(program) == Option(program, 6)

Captions(kinds) == Cardinality({k \in DOMAIN kinds : HasCaption(kinds[k])})

\* Where the byte i of the rest of the program lies in the program, and back.
Aligned(front, i) == RoundUp(FrontLength(front) + i - 1) - FrontLength(front) + 1

\* required_rtl_version
RequiredRtl(kinds, screens) ==
  Max({7} \cup {CASE kinds[k] = SUMM -> 11
                  [] kinds[k] >= MOD /\ kinds[k] # SUMM -> 10
                  [] kinds[k] \in ModbusKinds -> 9
                  [] OTHER -> 7 : k \in DOMAIN kinds}
          \cup (IF screens > 0 THEN {8} ELSE {}))

-----------------------------------------------------------------------------
(* inspect_fbdbin. *)

None == 0

\* The byte after the next zero in front of "end".
AfterZero(rest, from, end) ==
  LET zeros == {i \in from .. end - 1 : rest[i] = Zero}
  IN  IF zeros = {} THEN None ELSE Min(zeros) + 1

\* The place after n strings, each of which has "skip" bytes in front.
AfterStrings(rest, from, end, n, skip) ==
  LET after[k \in 0 .. n] ==
        IF k = 0 THEN from
        ELSE LET before == after[k - 1]
             IN  IF before = None THEN None ELSE AfterZero(rest, before + skip, end)
  IN  after[n]

\* A text that the runtime formats with one number may hold one "%f" or "%.df".
FormatStep(state, c) ==
  CASE state.at = "text"    -> IF c = "%" THEN [state EXCEPT !.at = "percent"] ELSE state
    [] state.at = "percent" /\ c = "%" -> [state EXCEPT !.at = "text"]
    [] state.at = "percent" /\ c = "." -> [state EXCEPT !.at = "precision"]
    [] state.at = "precision" /\ c = "6" -> [state EXCEPT !.at = "digit"]
    [] state.at \in {"percent", "digit"} /\ c = "f" -> [at |-> "text", values |-> state.values + 1]
    [] OTHER -> [state EXCEPT !.at = "bad"]

FormatAccepted(letters) ==
  LET state[k \in 0 .. Len(letters)] ==
        IF k = 0 THEN [at |-> "text", values |-> 0] ELSE FormatStep(state[k - 1], letters[k])
      end == state[Len(letters)]
  IN  end.at = "text" /\ end.values <= 1

MinSize == <<32, 24, 28, 20, 32, 24>>

\* Faulty variant: the references of a screen are not looked at.
RefOkUnchecked(ref, elements) == TRUE

\* The largest reference refers to no element.
RefOk(ref, elements) == ref = MaxUint16 \/ ref < elements

\* What a text shows: the letters of its record as far as the first zero.
Ended(letters) == "0" \in Range(letters)
Shown(letters) ==
  SubSeq(letters, 1, Min({i \in DOMAIN letters : letters[i] = "0"} \cup {Len(letters) + 1}) - 1)

\* An element of a screen. The fields of its own: a line has a width, and ends
\* that are numbers of at most one; a text has a value to format and the letters
\* from byte 24 to its size; a gauge has a value and a scale.
ItemAccepted(item, elements) ==
  /\ item.kind <= 5
  /\ item.size >= MinSize[item.kind + 1] /\ item.size % 4 = 0
  /\ RefOk(item.visible, elements)
  /\ item.kind = 4 => item.value < elements /\ item.scale > 0
  /\ item.kind = 0 => item.width <= 32 /\ item.finite
  /\ item.kind = 2 => /\ RefOk(item.value, elements)
                      /\ Ended(item.letters)
                      /\ Len(Shown(item.letters)) <= 31 /\ FormatAccepted(Shown(item.letters))

ScreenAccepted(screen, room, elements) ==
  /\ screen.len >= 8 /\ screen.len % 4 = 0 /\ screen.len <= room
  /\ Len(screen.items) <= 256
  /\ \A i \in DOMAIN screen.items : ItemAccepted(screen.items[i], elements)
  /\ 8 + Sum([i \in DOMAIN screen.items |-> screen.items[i].size]) = screen.len

\* The place after n screens.  Bytes that are no header are taken for one whose
\* length is none.
AfterScreens(rest, from, end, n, elements) ==
  LET after[k \in 0 .. n] ==
        IF k = 0 THEN from
        ELSE LET at == after[k - 1]
             IN  IF at # None /\ at \in DOMAIN rest /\ rest[at].is = "screen"
                      /\ ScreenAccepted(rest[at].v, end - at, elements)
                   THEN at + rest[at].v.len
                   ELSE None
  IN  after[n]

\* The captions and the three texts of the project.
StringCount(kinds) == Captions(kinds) + 3

Checked(program) == SchemaSize(program) # 0

\* A size of zero means that there is no checksum.
DataEnd(program) == Len(program.rest) + 1 - (IF Checked(program) THEN 4 ELSE 0)

FrontAccepted(program) ==
  /\ program.marked
  /\ \A k \in DOMAIN program.kinds : Known(program.kinds[k])
  /\ Len(program.refs) = Sum([k \in DOMAIN program.kinds |-> InputCounts[program.kinds[k] + 1]])
  /\ program.params = Sum([k \in DOMAIN program.kinds |-> ParamCounts[program.kinds[k] + 1]])
  /\ \A r \in DOMAIN program.refs : program.refs[r] < Len(program.kinds)
  /\ RequiredVersion(program) >= 0 /\ ScreenCount(program) >= 0
  /\ HintCount(program) >= 0 /\ SchemaSize(program) >= 0
  /\ Checked(program) =>
       SchemaSize(program) = FrontLength(program) + Len(program.rest) /\ program.sealed

Inspect(program) ==
  /\ FrontAccepted(program)
  /\ LET end == DataEnd(program)
         texts == AfterStrings(program.rest, 1, end, StringCount(program.kinds), 0)
         screens == AfterScreens(program.rest, Aligned(program, texts), end,
                                 ScreenCount(program), Len(program.kinds))
     IN  /\ texts # None
         /\ screens # None
         /\ AfterStrings(program.rest, screens, end, HintCount(program), 2) # None

-----------------------------------------------------------------------------
(* build_schema. *)

IndexOf(elements, id) == CHOOSE k \in DOMAIN elements : elements[k].id = id

ElementAccepted(elements, e) ==
  /\ Known(e.kind)
  /\ Len(e.inputs) = InputCounts[e.kind + 1]
  /\ e.params = ParamCounts[e.kind + 1]
  /\ \A i \in DOMAIN e.inputs : \E k \in DOMAIN elements : elements[k].id = e.inputs[i]
  /\ HasCaption(e.kind) => e.caption # NoText

\* Faulty variant: an id that is used twice is not noticed.
DistinctIdsUnchecked(elements) == TRUE

DistinctIds(elements) ==
  \A j, k \in DOMAIN elements : elements[j].id = elements[k].id => j = k

Terminated(letters) == Append(Text(letters), Zero)

FixedPart(ir) ==
  LET e == ir.elements
      kinds == [k \in DOMAIN e |-> e[k].kind]
      refs == Concat([k \in DOMAIN e |-> [i \in DOMAIN e[k].inputs |-> IndexOf(e, e[k].inputs[i]) - 1]])
  IN  [kinds |-> kinds, marked |-> TRUE, refs |-> refs,
       params |-> Sum([k \in DOMAIN e |-> e[k].params]),
       options |-> <<RequiredRtl(kinds, Len(ir.screens)), 0, 0, 0, Len(ir.screens), 0,
                     Len(ir.hints), 0, 0, 0>>]

\* The zeros that align the screens.
Padding(front, texts) == [i \in 1 .. Aligned(front, Len(texts) + 1) - Len(texts) - 1 |-> Zero]

\* The captions of the elements that have one, and the texts of the project.
Texts(ir) ==
  LET captioned == Selected(ir.elements, {e \in Range(ir.elements) : HasCaption(e.kind)})
  IN  [k \in DOMAIN captioned |-> captioned[k].caption] \o ir.project

Rest(ir) ==
  LET texts == Concat([k \in DOMAIN Texts(ir) |-> Terminated(Texts(ir)[k])])
      hints == Concat([k \in DOMAIN ir.hints |->
                 <<Number(ir.hints[k].kind), Number(ir.hints[k].index)>> \o Terminated(ir.hints[k].text)])
  IN  texts \o Padding(FixedPart(ir), texts) \o Concat(ir.screens) \o hints \o CrcBytes

\* The size is the last that is known, and written into its option.
Written(ir) ==
  LET front == FixedPart(ir)
  IN  [kinds |-> front.kinds, marked |-> front.marked, refs |-> front.refs, params |-> front.params,
       options |-> [front.options EXCEPT ![6] = FrontLength(front) + Len(Rest(ir))],
       rest |-> Rest(ir), sealed |-> TRUE]

MaxInt32 == 2147483647

Buildable(ir) ==
  /\ ir.elements # <<>> /\ Len(ir.elements) <= MaxUint16 - 1
  /\ Len(ir.screens) <= MaxInt32 /\ Len(ir.hints) <= MaxInt32
  /\ \A k \in DOMAIN ir.elements : ir.elements[k].id # ""
  /\ DistinctIds(ir.elements)
  /\ \A k \in DOMAIN ir.elements : ElementAccepted(ir.elements, ir.elements[k])
  /\ SchemaSize(Written(ir)) <= MaxInt32

\* What was written is inspected; the counts that are compared then are those
\* that were written.
Compiles(ir) ==
  Buildable(ir) /\ Inspect(Written(ir))

\* parse_control_ir_json adds what it asks of a document.  A hint whose index is
\* no byte, or whose type has no name, never gets into an IR.
Parses(ir) ==
  /\ \A k \in 1..3 : ir.project[k] # <<>>
  /\ \A k \in DOMAIN ir.elements : Known(ir.elements[k].kind) /\ ir.elements[k].id # ""
  /\ \A k \in DOMAIN ir.hints : ir.hints[k].text # <<>>

-----------------------------------------------------------------------------
VARIABLES
  ir,       \* the ControlIR, as it is being written
  program,  \* a program: a set of at most one
  source    \* history: the ControlIR that the program was compiled from, likewise

compilerVars == <<ir, program, source>>

CompilerInit ==
  /\ \E name \in Names :
       ir = [elements |-> <<>>, hints |-> <<>>, screens |-> <<>>, project |-> <<name, <<"v">>, <<"t">>>>]
  /\ program = {} /\ source = {}

AddElement(e) ==
  /\ program = {} /\ Len(ir.elements) < MaxElements
  /\ ir' = [ir EXCEPT !.elements = Append(@, e)]
  /\ UNCHANGED <<program, source>>

AddHint(hint) ==
  /\ program = {} /\ Len(ir.hints) < MaxHints
  /\ ir' = [ir EXCEPT !.hints = Append(@, hint)]
  /\ UNCHANGED <<program, source>>

AddScreen(screen) ==
  /\ program = {} /\ Len(ir.screens) < MaxScreens
  /\ ir' = [ir EXCEPT !.screens = Append(@, screen)]
  /\ UNCHANGED <<program, source>>

\* compile_control_ir, on a document (saturn-fbd-compile) or on an IR.
Compile(document) ==
  /\ program = {}
  /\ document => Parses(ir)
  /\ Compiles(ir)
  /\ program' = {Written(ir)} /\ source' = {ir}
  /\ UNCHANGED ir

\* The program with another value of an option, if it has the option.
Opted(p, option, value) ==
  IF option < Len(p.options) THEN {[p EXCEPT !.options[option + 1] = value]} ELSE {}

\* What may have happened to a program that is loaded: it was cut, or it comes
\* from another tool, which may not use a checksum, may have more or fewer
\* options, or counts otherwise.
Damaged(p) ==
  {[p EXCEPT !.rest = SubSeq(@, 1, Len(@) - n), !.sealed = FALSE] : n \in {1, 5} \cap 1 .. Len(p.rest)}
  \cup {[p EXCEPT !.marked = FALSE]}
  \cup {[p EXCEPT !.options = SubSeq(@, 1, n)] : n \in {0, 5, 6} \cap 0 .. Len(p.options)}
  \cup {[p EXCEPT !.options = Append(@, 0)]}
  \cup Opted(p, 5, 0) \cup Opted(p, 5, -1)
  \cup Opted(p, 4, ScreenCount(p) + 1) \cup Opted(p, 6, HintCount(p) + 1) \cup Opted(p, 6, HintCount(p) - 1)
  \cup {[p EXCEPT !.refs[r] = Len(p.kinds)] : r \in DOMAIN p.refs}
  \cup {[p EXCEPT !.rest[i] = Letter("x")] : i \in {j \in DOMAIN p.rest : p.rest[j] = Zero}}

\* The size and the checksum may have been made to fit again.
Resized(p) ==
  IF SchemaSize(p) > 0
    THEN [p EXCEPT !.options[6] = FrontLength(p) + Len(p.rest), !.sealed = TRUE] ELSE p

Damage ==
  /\ \E p \in program : \E d \in Damaged(p) : program' = {d} \/ program' = {Resized(d)}
  /\ source' = {}
  /\ UNCHANGED ir

CompilerNext ==
  \/ \E e \in Elements : AddElement(e)
  \/ \E hint \in Hints : AddHint(hint)
  \/ \E screen \in Screens : AddScreen(screen)
  \/ \E document \in BOOLEAN : Compile(document)
  \/ source # {} /\ Damage

CompilerSpec == CompilerInit /\ [][CompilerNext]_compilerVars

-----------------------------------------------------------------------------
(* The C runtime, as far as it walks the rest of a program: strings end at a   *)
(* zero, a screen is as long as it says.                                       *)

\* Beyond its last byte a program is as good as endless.
EndOfString(rest, from) ==
  LET zeros == {i \in from .. Len(rest) : rest[i] = Zero}
  IN  IF zeros = {} THEN Len(rest) + 1 ELSE Min(zeros)

\* Where the strings begin, and where what follows them does.
StringStarts(rest, from, n, skip) ==
  LET start[k \in 0 .. n] == IF k = 0 THEN from + skip ELSE EndOfString(rest, start[k - 1]) + 1 + skip
  IN  start

ScreenStarts(rest, from, n) ==
  LET start[k \in 0 .. n] ==
        IF k = 0 THEN from
        ELSE LET before == start[k - 1]
             IN  before + (IF before \in DOMAIN rest /\ rest[before].is = "screen"
                             THEN rest[before].v.len ELSE Len(rest))
  IN  start

Walk(p) ==
  LET count == StringCount(p.kinds)
      texts == StringStarts(p.rest, 1, count, 0)
      screens == ScreenStarts(p.rest, Aligned(p, texts[count]), ScreenCount(p))
      hints == StringStarts(p.rest, screens[ScreenCount(p)], HintCount(p), 2)
  IN  [texts |-> texts, screens |-> screens, hints |-> hints]

StringAt(rest, from) == SubSeq(rest, from, EndOfString(rest, from) - 1)

-----------------------------------------------------------------------------
(* Properties. *)

\* The format of a text is made of letters, "%%", and one number at most.
Tokens == {<<"%", "%">>, <<"%", "f">>, <<"%", ".", "6", "f">>}
Printable(letters) ==
  \E starts \in SUBSET DOMAIN letters :
    LET token(i) == SubSeq(letters, i, Min({j \in starts : j > i} \cup {Len(letters) + 1}) - 1)
    IN  /\ letters # <<>> => 1 \in starts
        /\ \A i \in starts : token(i) \in Tokens \/ (Len(token(i)) = 1 /\ token(i) # <<"%">>)
        /\ Cardinality({i \in starts : token(i) \in Tokens \ {<<"%", "%">>}}) <= 1

\* What is shown for an element of a screen is there: a visibility and the value of
\* a text are elements of the program or none, the value of a gauge is one, and its
\* scale is no divisor of zero. A text ends within its record, fits into the buffer of
\* its format, and formats one value at most; a line stays within the picture.
ItemShowable(item, kinds) ==
  /\ item.visible = MaxUint16 \/ item.visible + 1 \in DOMAIN kinds
  /\ item.kind = 0 => item.width <= 32 /\ item.finite
  /\ item.kind = 2 => /\ item.value = MaxUint16 \/ item.value + 1 \in DOMAIN kinds
                      /\ Ended(item.letters) /\ Len(Shown(item.letters)) < 32
                      /\ Printable(Shown(item.letters))
  /\ item.kind = 4 => item.value + 1 \in DOMAIN kinds /\ item.scale > 0

\* Every string, screen and hint ends before the checksum, references stay within
\* the elements, and what the elements of the screens show is there.
Walkable(p) ==
  LET walk == Walk(p)
      end == DataEnd(p)
  IN  /\ \A k \in 0 .. StringCount(p.kinds) - 1 : EndOfString(p.rest, walk.texts[k]) < end
      /\ \A k \in 0 .. HintCount(p) - 1 : EndOfString(p.rest, walk.hints[k]) < end
      /\ \A r \in DOMAIN p.refs : p.refs[r] + 1 \in DOMAIN p.kinds
      /\ \A k \in 0 .. ScreenCount(p) - 1 :
           /\ walk.screens[k + 1] <= end
           /\ p.rest[walk.screens[k]].is = "screen"
           /\ \A i \in DOMAIN p.rest[walk.screens[k]].v.items :
                ItemShowable(p.rest[walk.screens[k]].v.items[i], p.kinds)

\* The runtime can walk whatever is accepted, also programs that another tool
\* wrote or that were changed.
AcceptedIsWalkable == \A p \in program : Inspect(p) => Walkable(p)

\* No text holds a zero, and a screen record is as long as its header says.
Plain(i) ==
  LET texts == {i.elements[k].caption : k \in DOMAIN i.elements}
                 \cup {i.hints[k].text : k \in DOMAIN i.hints} \cup Range(i.project)
  IN  /\ \A text \in texts : "0" \notin Range(text)
      /\ \A k \in DOMAIN i.screens :
           i.screens[k] # <<>> /\ i.screens[k][1].is = "screen"
             /\ ScreenAccepted(i.screens[k][1].v, Len(i.screens[k]), Len(i.elements))
             /\ i.screens[k][1].v.len = Len(i.screens[k])

\* A plain IR compiles if its elements, ids, counts and size are in order, and the
\* runtime finds each of its captions, project texts, screens and hints at its place,
\* and every reference at the element that was named.
CompiledIsFound ==
  /\ program = {} /\ Plain(ir) /\ Buildable(ir) => Compiles(ir)
  /\ \A p \in program, i \in source : Plain(i) =>
       LET walk == Walk(p)
           inputs == Concat([k \in DOMAIN i.elements |-> i.elements[k].inputs])
       IN  /\ \A k \in DOMAIN Texts(i) : StringAt(p.rest, walk.texts[k - 1]) = Text(Texts(i)[k])
           /\ \A k \in DOMAIN i.screens : p.rest[walk.screens[k - 1]] = i.screens[k][1]
           /\ \A k \in DOMAIN i.hints :
                /\ StringAt(p.rest, walk.hints[k - 1]) = Text(i.hints[k].text)
                /\ p.rest[walk.hints[k - 1] - 1] = Number(i.hints[k].index)
           /\ \A r \in DOMAIN inputs : {k \in DOMAIN i.elements : i.elements[k].id = inputs[r]} = {p.refs[r] + 1}
=============================================================================
