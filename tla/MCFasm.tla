-------------------------------- MODULE MCFasm --------------------------------
(* Fasm on the sources in src/fasm/src, on one that uses what they do not, and on *)
(* sources with one mistake each. *)
EXTENDS Fasm

Tok(type) == [type |-> type, lexeme |-> ""]
Id(name)  == [type |-> "IDENT", lexeme |-> name]
N(n)      == [type |-> "INT", lexeme |-> n]
R(n)      == [type |-> "REG", lexeme |-> n]

Line(tokens)   == Append(tokens, Tok("NEWLINE"))
Blank          == Line(<<>>)
Open           == Line(<<Tok("OPEN_BRACE")>>)
Close          == Line(<<Tok("CLOSE_BRACE")>>)
FuncLine(name) == Line(<<Tok("FUNC"), Id(name)>>)
LabelLine(name) == Line(<<Id(name), Tok("COLON")>>)
IntLine(name)  == Line(<<Tok("INT_DEF"), Id(name)>>)
At(i)          == <<Tok("OPEN_BRACKET"), i, Tok("CLOSE_BRACKET")>>
ArrLine(name, n) == Line(<<Tok("INT_DEF"), Id(name)>> \o At(n))
StrLine(name, s) ==
  Line(<<Tok("STRING_DEF"), Id(name), Tok("QUOTE"), [type |-> "STRING", lexeme |-> s], Tok("QUOTE")>>)
StackLine(n)   == Line(<<Tok("SETSTACKSIZE"), n>>)

Op(op)          == [type |-> "INSTR", lexeme |-> op]
I0(op)          == Line(<<Op(op)>>)
I1(op, a)       == Line(<<Op(op), a>>)
I2(op, a, b)    == Line(<<Op(op), a, Tok("COMMA"), b>>)
I3(op, a, b, c) == Line(<<Op(op), a, Tok("COMMA"), b, Tok("COMMA"), c>>)

Func(name, lines) == <<FuncLine(name), Open>> \o lines \o <<Close>>
Main(lines)       == Func("MAIN", lines)
File(lines)       == [lines |-> lines, newlines |-> 0]
-----------------------------------------------------------------------------
(* src/fasm/src *)

Idle ==
  Func("LOOP", <<LabelLine("LOOPSTART"), I1("CALLCORE", Id("INCFREETIME")), I1("JMP", Id("LOOPSTART"))>>)
    \o <<Blank>> \o Main(<<I1("CALL", Id("LOOP"))>>)

Counting(text, api) ==
  <<StrLine("PRINTSTR", text), IntLine("COUNTER"), Blank>>
    \o Func("PRINTLOOP",
         <<I2("MOV", Id("COUNTER"), N(0)), Blank, LabelLine("LOOPSTART"),
           I1("PUSH", Id("PRINTSTR")), I1("CALLCORE", Id(api)), I2("ADD", Id("COUNTER"), N(1)),
           I3("JNE", Id("COUNTER"), N(10), Id("LOOPSTART"))>>)
    \o <<Blank>> \o Main(<<I1("CALL", Id("PRINTLOOP"))>>)

Printer == Counting("Ferry OS", "PRINTER")
Voicer  == Counting("Ferry OS is good", "VOICE")

\* src/fasm/bin, as module Machine has them.
Arg(type, value) == [type |-> type, value |-> value]
Ins(op, args)    == [op |-> op, args |-> args]
Entries(a, b)    == <<[entry |-> a, size |-> 0], [entry |-> b, size |-> 0]>>

IdleProgram ==
  [code |-> <<Ins("CALLCORE", <<Arg("HOST_API_CALL_INDEX", "INCFREETIME")>>),
              Ins("JMP", <<Arg("INSTR_INDEX", 0)>>), Ins("RET", <<>>),
              Ins("CALL", <<Arg("FUNC_INDEX", 0)>>), Ins("QUIT", <<>>)>>,
   funcs |-> Entries(0, 3), main |-> 1, globals |-> 0, strings |-> 0]

CountingProgram(api, bytes) ==
  LET counter == Arg("ABS_STACK_INDEX", 1) IN
  [code |-> <<Ins("MOV", <<counter, Arg("INT", 0)>>), Ins("PUSH", <<Arg("STRING_REF", 0)>>),
              Ins("CALLCORE", <<Arg("HOST_API_CALL_INDEX", api)>>),
              Ins("ADD", <<counter, Arg("INT", 1)>>),
              Ins("JNE", <<counter, Arg("INT", 10), Arg("INSTR_INDEX", 1)>>), Ins("RET", <<>>),
              Ins("CALL", <<Arg("FUNC_INDEX", 0)>>), Ins("QUIT", <<>>)>>,
   funcs |-> Entries(0, 6), main |-> 1, globals |-> 2, strings |-> 4 + bytes]

\* The files src/fasm/bin/*.FSE are what the sources beside them are assembled to.
Shipped ==
  phase = "build" =>
    /\ source = Idle => Program = IdleProgram
    /\ source = Printer => Program = CountingProgram("PRINTER", 8)
    /\ source = Voicer => Program = CountingProgram("VOICE", 16)

\* They keep to outlines on a stack as src/config.json has it: two pages of 2^20 bytes.
Stack == INSTANCE Outlines WITH StackWords <- 524288

OutlineOfTwo(words, entry, room) ==
  [lines |-> [i \in DOMAIN words |-> [func |-> IF i <= entry THEN 1 ELSE 2,
                                     words |-> words[i], bp |-> i # entry + 2]],
   room  |-> room]

ASSUME ShippedOutlined ==
  /\ Stack!Outlines(OutlineOfTwo(<<2, 2, 2, 2, 2>>, 3, <<2, 4>>), IdleProgram)
  /\ \A api \in {"PRINTER", "VOICE"} :
       Stack!Outlines(OutlineOfTwo(<<2, 2, 3, 2, 2, 2, 2, 2>>, 6, <<3, 5>>), CountingProgram(api, 8))
-----------------------------------------------------------------------------
(* Other sources *)

\* The same names in two functions and outside, in any order; arrays; a label at the
\* end of a function; a string used twice; a brace on the line of the function.
Rich ==
  <<StackLine(N(1024)), ArrLine("A", N(2)), StrLine("S", "text"), StrLine("T", "more"),
    StrLine("U", "text")>>
    \o Func("F", <<IntLine("X"), ArrLine("Y", N(3)), LabelLine("L"), I2("MOV", Id("X"), R(1)),
                   Line(<<Op("MOV"), Id("Y")>> \o At(N(8)) \o <<Tok("COMMA"), Id("X")>>),
                   I3("JG", Id("X"), Id("G"), Id("E")), I1("JMP", Id("L")), LabelLine("E")>>)
    \o <<IntLine("G"), Line(<<Tok("FUNC"), Id("MAIN"), Tok("OPEN_BRACE")>>),
         LabelLine("L"), IntLine("X"), IntLine("Z"),
         I2("MOV", R(0), Id("X")), Line(<<Op("PUSH"), Id("A")>> \o At(N(4))),
         I1("CALL", Id("F")), I3("JE", N(1), R(0), Id("L")), I1("PUSH", Id("U")),
         I1("CALLCORE", Id("PRINT")), I1("POP", Id("Z")), I1("PUSH", Id("T")),
         I1("CALLCORE", Id("VOICE")), I1("CALLCORE", Id("PRINT")), I1("PAUSE", N(1)), I0("RET"), Close>>
    \o Func("H", <<I2("SUB", Id("G"), N(1)), I1("CALL", Id("H"))>>)

\* Accepted too: a string without its second quote, and no main function.
Careless ==
  <<Blank, Line(<<Tok("STRING_DEF"), Id("S"), Tok("QUOTE"), Tok("INVALID")>>), IntLine("X")>>
    \o Func("F", <<I1("PUSH", Id("S"))>>)

\* The last function does not end.
Unended == Func("F", <<I0("RET")>>) \o <<FuncLine("MAIN"), Open, I1("PUSH", N(1))>>

NoIndex == <<ArrLine("A", N(2))>> \o Main(<<I1("PUSH", Id("A"))>>)
NoBrace == <<FuncLine("MAIN"), Blank>>
Beyond  == Main(<<Line(<<Op("RET"), N(1)>>)>>)

RefusedFirst ==
  {Main(<<StackLine(N(4))>>), <<StackLine(N(4)), StackLine(N(4))>>, <<StackLine(R(0))>>,
   Main(<<StrLine("S", "text")>>), <<Line(<<Tok("STRING_DEF"), N(1)>>)>>,
   <<Line(<<Tok("STRING_DEF"), Id("S")>>)>>, <<IntLine("S"), StrLine("S", "text")>>,
   <<Line(<<Tok("INT_DEF"), N(1)>>)>>, <<ArrLine("A", N(0))>>, <<ArrLine("A", R(0))>>,
   <<IntLine("X"), IntLine("X")>>, Main(<<FuncLine("F")>>), <<Line(<<Tok("FUNC"), N(1)>>)>>,
   Func("F", <<>>) \o Func("F", <<>>), NoBrace, <<FuncLine("MAIN"), Blank, Close>>, <<Close>>,
   <<I0("RET")>>, <<LabelLine("L")>>, <<Line(<<Id("L"), Tok("COMMA")>>)>>,
   Main(<<LabelLine("L"), LabelLine("L")>>), <<Line(<<Tok("PTR")>>)>>}

\* Also a jump to a label, and a use of a variable, of another function.
RefusedSecond ==
  {<<ArrLine("A", N(2)), IntLine("X")>> \o Main(<<l>>) :
     l \in {I2("MOV", Id("Y"), N(1)), I2("MOV", N(1), Id("X")), I1("PUSH", Tok("COMMA")),
            Line(<<Op("MOV"), Id("X"), Id("X")>>), I1("JMP", Id("L")), I1("CALL", Id("F")),
            Line(<<Op("PUSH"), Id("X")>> \o At(N(0))), Line(<<Op("PUSH"), Id("A")>> \o At(Id("X"))),
            Line(<<Op("PUSH"), Id("A")>> \o At(Id("Y"))), Line(<<Op("PUSH"), Id("A")>> \o At(R(0))),
            Line(<<Op("PUSH"), Id("A"), Tok("OPEN_BRACKET"), N(0)>>)}}
  \cup {Func("F", <<IntLine("X"), LabelLine("L")>>) \o Main(<<l>>) :
          l \in {I2("MOV", Id("X"), N(1)), I1("JMP", Id("L"))}}

Accepted == {Idle, Printer, Voicer, Rich, Careless, Unended}
AllLines == Accepted \cup {NoIndex, Beyond} \cup RefusedFirst \cup RefusedSecond
Some     == {Idle, Unended, NoIndex, NoBrace, Beyond, <<StackLine(R(0))>>}

MCFiles ==
  <<{File(l) : l \in AllLines} \cup {[lines |-> Printer, newlines |-> 1]},
    {File(l) : l \in Some}, {File(Idle)}>>
MCFailing == <<{File(<<StackLine(R(0))>>)}, {}>>
MCResidue == {<<Blank>>, <<LabelLine("L")>>, <<Blank, Close>>}
MCLines   == UNION {{l[i] : i \in DOMAIN l} : l \in AllLines}
MCJunk    == {0, 99}
MCTexts   ==
  {t.lexeme : t \in UNION {{l[i] : i \in {j \in DOMAIN l : l[j].type \in {"IDENT", "STRING"}}} : l \in MCLines}}
MCBytes   == [s \in MCTexts |-> Len(s)]
=============================================================================
