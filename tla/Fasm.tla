--------------------------------- MODULE Fasm ---------------------------------
(***************************************************************************)
(* The assembler FASM.  The shell calls Exec with a source file.  The file *)
(* is loaded (LoadSourceFile) and read line by line, twice                 *)
(* (AssmblSourceFile): the first pass collects the functions, the labels   *)
(* and the variables, and counts the instructions; the second one writes   *)
(* the instructions into memory allocated for that number of them.  Then   *)
(* the executable file is built (BuildFSE).                                *)
(*                                                                         *)
(* There is one object FASM for all of the calls, and part of its state    *)
(* outlives a call.  A step is one line in one of the passes.              *)
(*                                                                         *)
(* A line is the sequence of the tokens that GetNextToken finds in it, the *)
(* last one NEWLINE.  A token has a type and a lexeme; that of an INT and  *)
(* that of a REG is a number.                                              *)
(***************************************************************************)
EXTENDS FseFile

CONSTANTS Lines,         \* of source files
          Files,         \* the source files that there are for each call of Exec
          Residue,       \* what memory that malloc gives may hold, line by line
          Junk,          \* what other variables hold that nobody has set
          MAIN_FUNC_NAME,
          MAX_INSTR_LOOKUP_COUNT

IsLine(l) ==
  /\ Len(l) \in Nat \ {0} /\ DOMAIN l = 1 .. Len(l)
  /\ \A i \in DOMAIN l :
       /\ (l[i].type = "NEWLINE") <=> (i = Len(l))
       /\ l[i].type \in TokenTypes
       /\ l[i].type = "INT" => l[i].lexeme \in Int
       /\ l[i].type = "REG" => l[i].lexeme \in 0 .. 3
       /\ l[i].type \in {"IDENT", "STRING"} => l[i].lexeme \in Texts
       /\ l[i].type = "INSTR" => l[i].lexeme \in Mnemonics

ASSUME LinesAssumption == \A l \in Lines : IsLine(l)

\* Files bounds the number of calls.
ASSUME FilesAssumption == Files \in Seq(SUBSET [lines : Seq(Lines), newlines : {0, 1}])
ASSUME JunkAssumption == Junk \subseteq Int /\ Residue \subseteq (Seq(Lines) \ {<<>>})

VARIABLES phase,         \* of Exec: "idle", "first", "second", "build"; or "aborted"
          result,        \* what the last call of Exec has returned
          calls,         \* how often it has been called
          sourceSize,    \* g_iSourceCodeSize
          source,        \* g_ppstrSourceCode
          line,          \* g_Lexer.iCurrSourceLine, from 1
          scope,         \* iIsFuncActive, iCurrFuncIndex, iCurrFuncLocalDataSize
          header,        \* g_ScriptHeader and g_iIsSetStackSizeFound
          streamSize,    \* g_iInstrStreamSize
          stream,        \* g_pInstrStream, up to g_iCurrInstrIndex
          tables,        \* g_FuncTable, g_LabelTable, ...
          heap           \* of the pointers to the source and the stream: "null",
                         \* "live", "freed"

vars == <<phase, result, calls, sourceSize, source, line, scope, header, streamSize,
          stream, tables, heap>>

\* What a call of Exec works on.
work == <<source, line, scope, streamSize, stream, tables>>

Outside(j) == [active |-> FALSE, func |-> j, size |-> 0]

NoWork ==
  /\ source = <<>> /\ line = 1 /\ streamSize = 0 /\ stream = <<>>
  /\ tables = NoTables /\ scope = Outside(-1)

Init ==
  /\ phase = "idle" /\ result = "NO_ERR" /\ calls = 0
  /\ sourceSize = 0
  /\ \E j \in Junk : header = [stack |-> 0, found |-> FALSE, globals |-> 0, main |-> j]
  /\ heap = [source |-> "null", stream |-> "null"]
  /\ NoWork
-----------------------------------------------------------------------------
(* The end of a call *)

\* Exec returns.  What it worked on is gone, or can no longer be reached.
Return(err) ==
  /\ phase' = "idle" /\ result' = err
  /\ source' = <<>> /\ line' = 1 /\ streamSize' = 0 /\ stream' = <<>>
  /\ tables' = NoTables /\ scope' = Outside(-1)

\* The simulator ends: something is freed, or written to, that has been freed before or
\* is not the assembler's.
Abort == phase' = "aborted" /\ UNCHANGED <<result, heap, work>>

\* ShutDown frees the source and the stream, unless they are NULL, and sets
\* neither pointer to NULL.
Freed(pointer) == IF pointer = "null" THEN "null" ELSE "freed"
ShutDown ==
  heap' = [source |-> Freed(heap.source), stream |-> Freed(heap.stream)]

\* In the first pass, a stream is one of an earlier call, and of another size.
Dangling == "freed" \in {heap.source, heap.stream} \/ (phase = "first" /\ heap.stream = "live")

\* ExitOnError and ExitOnCodeError.  Exit, at their end, does not exit, so that
\* Exec returns, if ShutDown has freed nothing twice, or goes unpunished.
ExitOnError(err) ==
  \/ Return(err) /\ ShutDown
  \/ Dangling /\ Abort
-----------------------------------------------------------------------------
(* Loading *)

\* InitInstrTable enters the instructions anew in each call.
LookupTableFull == (calls + 1) * Cardinality(Mnemonics) > MAX_INSTR_LOOKUP_COUNT

Called == phase = "idle" /\ calls < Len(Files) /\ calls' = calls + 1

\* LoadSourceFile.  The lines of the file are added to those of the files before,
\* and one more if the file ends with a newline.  So many lines are allocated; those
\* that the file does not have are never written.
LoadSourceFile(f) ==
  /\ sourceSize' = sourceSize + Len(f.lines) + f.newlines
  /\ \E r \in Residue :
       source' = f.lines \o [i \in 1 .. sourceSize' - Len(f.lines) |-> r[1 + (i % Len(r))]]
  /\ heap' = [heap EXCEPT !.source = "live"]

\* AssmblSourceFile, to the start of the first pass.
StartFirstPass ==
  /\ phase' = "first" /\ line' = 1
  /\ \E j \in Junk : scope' = Outside(j)
  /\ header' = [header EXCEPT !.stack = 0, !.found = FALSE, !.globals = 0]
  /\ UNCHANGED <<result, streamSize, stream, tables>>

Exec ==
  /\ Called
  /\ \E f \in Files[calls + 1] : LoadSourceFile(f)
  /\ StartFirstPass

\* The file is not there.
SourceMissing ==
  /\ Called
  /\ ExitOnError("FILE_NOT_FOUND")
  /\ UNCHANGED <<sourceSize, header>>

\* AddInstrLookup returns -1, and SetOpType takes it for an index: it writes where a
\* pointer leads that is not one, read from before the table.  If that hits nothing, the
\* call goes on, with the instructions that the calls before have entered.
LookupOverflows ==
  /\ Called /\ LookupTableFull
  /\ Abort
  /\ UNCHANGED <<sourceSize, header>>

\* A line that has been allocated and not written begins with a null character:
\* its length less 1 is the largest number there is, and StripComments reads, and
\* writes where it finds a semicolon, from there on.  If that ends, or hits nothing,
\* LoadSourceFile makes the line a blank one.
LoadOverruns ==
  /\ Called
  /\ \E f \in Files[calls + 1] :
       sourceSize' = sourceSize + Len(f.lines) + f.newlines /\ sourceSize' > Len(f.lines)
  /\ Abort
  /\ UNCHANGED header
-----------------------------------------------------------------------------
(* Tokens *)

\* The type of the i-th token of a line (GetNextToken, GetLookAheadChar).
TypeAt(l, i) ==
  IF l \in DOMAIN source /\ i \in DOMAIN source[l] THEN source[l][i].type ELSE "INVALID"

Type(i)   == TypeAt(line, i)
Lexeme(i) == source[line][i].lexeme

\* Mutant: the rest of the source is not looked at.
SkipToNowhere(l) == line' = l

\* Mutant: the newline at the end of a line is taken for a line.
SkipToLineAfter(l) == line' = l + 2

SkipToNextLine(l) == line' = l + 1

\* After `Func name', on the same line or on a later one.
BraceLine ==
  IF Type(3) # "NEWLINE" THEN line
  ELSE FirstOf({k \in line + 1 .. Len(source) : TypeAt(k, 1) # "NEWLINE"})
BraceType == IF BraceLine = line THEN Type(3) ELSE TypeAt(BraceLine, 1)

\* A pass meets a line that begins with a token of this type.
Reads(pass, type) == phase = pass /\ line \in DOMAIN source /\ Type(1) = type

\* A line that is refused ends the call; no later one is read.
Refused(error) ==
  /\ error # "NO_ERR" /\ ExitOnError(error)
  /\ UNCHANGED <<calls, sourceSize, header>>
Passes(error) == error = "NO_ERR" /\ UNCHANGED <<phase, result, calls, sourceSize, source, heap>>

Symbol(name) == GetSymbolByIdent(tables, name, scope.func)
-----------------------------------------------------------------------------
(* The first pass *)

SetStackSizeError ==
  IF scope.active THEN "LOCAL_SETSTACKSIZE"
  ELSE IF header.found THEN "MULTIPLE_SETSTACKSIZE"
  ELSE IF Type(2) # "INT" THEN "INVALID_STACK_SIZE"
  ELSE "NO_ERR"

SetStackSize ==
  /\ Reads("first", "SETSTACKSIZE")
  /\ \/ Refused(SetStackSizeError)
     \/ /\ Passes(SetStackSizeError)
        /\ header' = [header EXCEPT !.stack = Lexeme(2), !.found = TRUE]
        /\ SkipToNextLine(line)
        /\ UNCHANGED <<scope, streamSize, stream, tables>>

\* A string is a global variable with an initial value.
DefineStringError ==
  IF scope.active THEN "LOCAL_DEF_STRING"
  ELSE IF Type(2) # "IDENT" THEN "IDENT_EXPECTED"
  ELSE IF Type(3) # "QUOTE" \/ Type(4) = "QUOTE" THEN "STR_NOT_DEF"
  ELSE IF Type(4) = "STRING" /\ Type(5) # "QUOTE" THEN "CHAR_EXPECTED"
  ELSE IF Symbol(Lexeme(2)) # 0 THEN "IDENT_REDEFINITION"
  ELSE "NO_ERR"

\* A literal without its second quote is no error: the value is not set.
DefineString ==
  /\ Reads("first", "STRING_DEF")
  /\ \/ Refused(DefineStringError)
     \/ /\ Passes(DefineStringError)
        /\ \E value \in IF Type(4) = "STRING"
                        THEN {StringOffset(tables.strings, Lexeme(4))} ELSE Junk :
             LET known == IF Type(4) = "STRING"
                          THEN [tables EXCEPT !.strings = WithString(@, Lexeme(4))]
                          ELSE tables
             IN  tables' = AddSymbol(known,
                   [name |-> Lexeme(2), type |-> "STRING_REF", value |-> value, isArr |-> FALSE,
                    size |-> 4, index |-> header.globals, func |-> scope.func])
        /\ header' = [header EXCEPT !.globals = @ + 4]
        /\ SkipToNextLine(line)
        /\ UNCHANGED <<scope, streamSize, stream>>

IsArray == Type(3) = "OPEN_BRACKET"
DefineIntError ==
  IF Type(2) # "IDENT" THEN "IDENT_EXPECTED"
  ELSE IF IsArray /\ Type(4) # "INT" THEN "INVALID_ARRAY_SIZE"
  ELSE IF IsArray /\ Lexeme(4) <= 0 THEN "INVALID_ARRAY_SIZE"
  ELSE IF IsArray /\ Type(5) # "CLOSE_BRACKET" THEN "CHAR_EXPECTED"
  ELSE IF Symbol(Lexeme(2)) # 0 THEN "IDENT_REDEFINITION"
  ELSE "NO_ERR"

\* Mutant: a local variable begins where the one before it does.
LocalIndexBefore(size) == -scope.size

\* Local variables lie below the return address, global ones from 0 upwards.
LocalIndex(size) == -(scope.size + size)

DefineInt ==
  /\ Reads("first", "INT_DEF")
  /\ \/ Refused(DefineIntError)
     \/ /\ Passes(DefineIntError)
        /\ LET size == IF IsArray THEN 4 * Lexeme(4) ELSE 4 IN
             /\ tables' = AddSymbol(tables,
                  [name |-> Lexeme(2), type |-> "INT", value |-> 0, isArr |-> IsArray, size |-> size,
                   index |-> IF scope.active THEN LocalIndex(size) ELSE header.globals,
                   func |-> scope.func])
             /\ scope' = [scope EXCEPT !.size = IF scope.active THEN @ + size ELSE @]
             /\ header' = [header EXCEPT !.globals = IF scope.active THEN @ ELSE @ + size]
        /\ SkipToNextLine(line)
        /\ UNCHANGED <<streamSize, stream>>

BeginFunctionError ==
  IF scope.active THEN "NESTED_FUNC"
  ELSE IF Type(2) # "IDENT" THEN "IDENT_EXPECTED"
  ELSE IF GetFuncByName(tables, Lexeme(2)) # 0 THEN "FUNC_REDEFINE"
  ELSE IF BraceType # "OPEN_BRACE" THEN "CHAR_EXPECTED"
  ELSE "NO_ERR"

\* Mutant: no room for the instruction at the end.
RoomForNone == streamSize

\* A function ends with an instruction of its own.
RoomForEnd == streamSize + 1

\* Mutant: the nodes are counted after the new one has been added.
MainIndexAfter ==
  IF Lexeme(2) = MAIN_FUNC_NAME THEN NewIndex(tables.funcs) + 1 ELSE header.main

MainIndex == IF Lexeme(2) = MAIN_FUNC_NAME THEN NewIndex(tables.funcs) ELSE header.main

\* The brace is looked for when the function is in the table; without one there may
\* be no line to print with the error.
BeginFunction ==
  /\ Reads("first", "FUNC")
  /\ \/ BeginFunctionError # "CHAR_EXPECTED" /\ Refused(BeginFunctionError)
     \/ /\ BeginFunctionError = "CHAR_EXPECTED"
        /\ ExitOnError("CHAR_EXPECTED") \/ (BraceLine = 0 /\ Abort)
        /\ header' = [header EXCEPT !.main = MainIndex]
        /\ UNCHANGED <<calls, sourceSize>>
     \/ /\ Passes(BeginFunctionError)
        /\ \E j \in Junk : tables' = AddFunc(tables, Lexeme(2), streamSize, j)
        /\ header' = [header EXCEPT !.main = MainIndex]
        /\ scope' = [active |-> TRUE, func |-> NewIndex(tables.funcs), size |-> 0]
        /\ streamSize' = RoomForEnd
        /\ SkipToNextLine(BraceLine)
        /\ UNCHANGED stream

EndFunctionError == IF scope.active THEN "NO_ERR" ELSE "CHAR_EXPECTED"

EndFunction ==
  /\ Reads("first", "CLOSE_BRACE")
  /\ \/ Refused(EndFunctionError)
     \/ /\ Passes(EndFunctionError)
        /\ tables' = SetFuncInfo(tables, scope.func + 1, scope.size)
        /\ scope' = [scope EXCEPT !.active = FALSE]
        /\ SkipToNextLine(line)
        /\ UNCHANGED <<header, streamSize, stream>>

CountInstrError == IF scope.active THEN "NO_ERR" ELSE "GLOBAL_INSTR"

CountInstr ==
  /\ Reads("first", "INSTR")
  /\ \/ Refused(CountInstrError)
     \/ /\ Passes(CountInstrError)
        /\ streamSize' = streamSize + 1
        /\ SkipToNextLine(line)
        /\ UNCHANGED <<scope, header, stream, tables>>

DefineLabelError ==
  IF Type(2) # "COLON" THEN "INVALID_LABEL"
  ELSE IF ~scope.active THEN "GLOBAL_LABEL"
  ELSE IF GetLabelByIdent(tables, Lexeme(1), scope.func) # 0 THEN "LABEL_REDEFINE"
  ELSE "NO_ERR"

\* Mutant: the room for the end of the function is counted.
LabelTargetAfter == streamSize

\* The room for the end of the function has been counted already.
LabelTarget == streamSize - 1

DefineLabel ==
  /\ Reads("first", "IDENT")
  /\ \/ Refused(DefineLabelError)
     \/ /\ Passes(DefineLabelError)
        /\ tables' = AddLabel(tables, Lexeme(1), LabelTarget, scope.func)
        /\ SkipToNextLine(line)
        /\ UNCHANGED <<scope, header, streamSize, stream>>

SkipBlank ==
  /\ Reads("first", "NEWLINE")
  /\ SkipToNextLine(line)
  /\ UNCHANGED <<phase, result, calls, sourceSize, source, scope, header, streamSize, stream,
                 tables, heap>>

Statements == {"SETSTACKSIZE", "STRING_DEF", "INT_DEF", "FUNC", "CLOSE_BRACE", "INSTR",
               "IDENT", "NEWLINE"}

InvalidInput ==
  /\ \E type \in TokenTypes \ Statements : Reads("first", type)
  /\ Refused("INVALID_INPUT")

FirstPass ==
  \/ SetStackSize \/ DefineString \/ DefineInt \/ BeginFunction \/ EndFunction
  \/ CountInstr \/ DefineLabel \/ SkipBlank \/ InvalidInput

\* Between the passes.  Memory is allocated for streamSize instructions.
AllocateStream ==
  /\ phase = "first" /\ line \notin DOMAIN source
  /\ phase' = "second"
  /\ stream' = <<>>
  /\ line' = 1
  /\ heap' = [heap EXCEPT !.stream = "live"]
  /\ UNCHANGED <<result, calls, sourceSize, source, scope, header, streamSize, tables>>
-----------------------------------------------------------------------------
(* The operands of an instruction, in the second pass *)

Accepts == InstrTable[Lexeme(1)]

\* The token with which the k-th operand begins; an array element has four tokens,
\* and a comma comes between operands.
Indexed(k, i) == "MEM_REF" \in Accepts[k] /\ Type(i) = "IDENT" /\ Type(i + 1) = "OPEN_BRACKET"
Start(k) ==
  LET start[i \in 1 .. k] ==
        IF i = 1 THEN 2 ELSE start[i - 1] + IF Indexed(i - 1, start[i - 1]) THEN 5 ELSE 2
  IN  start[k]

\* "ABORT" stands for the array without an index: the error is printed, everything
\* is freed, and the second pass goes on.
VariableError(i, indexed) ==
  LET s == Symbol(Lexeme(i)) IN
  IF s = 0 THEN "UNDEF_IDENT"
  ELSE IF ~indexed THEN (IF tables.symbols[s].isArr THEN "ABORT" ELSE "NO_ERR")
  ELSE IF ~tables.symbols[s].isArr THEN "ARR_NOT_INDEXED"
  ELSE IF Type(i + 2) = "IDENT" /\ Symbol(Lexeme(i + 2)) = 0 THEN "UNDEF_IDENT"
  ELSE IF Type(i + 2) = "IDENT" /\ tables.symbols[Symbol(Lexeme(i + 2))].size > 1
       THEN "INVALID_ARRAY_SIZE"
  ELSE IF Type(i + 2) \notin {"INT", "IDENT"} THEN "INVALID_ARRAY_SIZE"
  ELSE IF Type(i + 3) # "CLOSE_BRACKET" THEN "CHAR_EXPECTED"
  ELSE "NO_ERR"

NameError(i, kinds) ==
  IF "LINE_LABEL" \in kinds /\ GetLabelByIdent(tables, Lexeme(i), scope.func) = 0
  THEN "INVALID_LABEL"
  ELSE IF "FUNC_NAME" \in kinds /\ GetFuncByName(tables, Lexeme(i)) = 0 THEN "UNDEF_FUNC"
  ELSE "NO_ERR"

OperandError(k) ==
  LET i == Start(k) IN
  IF Type(i) \in {"INT", "REG"} THEN (IF Type(i) \in Accepts[k] THEN "NO_ERR" ELSE "INVALID_OP")
  ELSE IF Type(i) # "IDENT" THEN "INVALID_OP"
  ELSE IF "MEM_REF" \in Accepts[k] THEN VariableError(i, Indexed(k, i))
  ELSE NameError(i, Accepts[k])

VariableOperand(i, indexed) ==
  LET s == tables.symbols[Symbol(Lexeme(i))] IN
  IF ~indexed
  THEN IF s.type = "STRING_REF" THEN [type |-> "STRING_REF", value |-> s.value]
                                ELSE [type |-> "ABS_STACK_INDEX", value |-> s.index]
  ELSE IF Type(i + 2) = "INT"
       THEN [type |-> "ABS_STACK_INDEX", value |-> s.index + Lexeme(i + 2)]
       ELSE [type |-> "REL_STACK_INDEX", value |-> s.index,
             offset |-> tables.symbols[Symbol(Lexeme(i + 2))].index]

NameOperand(i, kinds) ==
  CASE "LINE_LABEL" \in kinds ->
         [type |-> "INSTR_INDEX",
          value |-> tables.labels[GetLabelByIdent(tables, Lexeme(i), scope.func)].target]
    [] "FUNC_NAME" \in kinds ->
         [type |-> "FUNC_INDEX", value |-> GetFuncByName(tables, Lexeme(i)) - 1]
    [] "CORE_API_CALL" \in kinds ->
         [type |-> "HOST_API_CALL_INDEX", value |-> StringOffset(tables.apis, Lexeme(i))]

OperandOf(k) ==
  LET i == Start(k) IN
  IF Type(i) \in {"INT", "REG"} THEN [type |-> Type(i), value |-> Lexeme(i)]
  ELSE IF "MEM_REF" \in Accepts[k] THEN VariableOperand(i, Indexed(k, i))
  ELSE NameOperand(i, Accepts[k])

\* The first thing that is wrong: an operand, a missing comma, or more on the line.
Faulty(k) ==
  OperandError(k) # "NO_ERR" \/ (k < Len(Accepts) /\ Type(Start(k + 1) - 1) # "COMMA")
InstrError ==
  LET k == FirstOf({i \in DOMAIN Accepts : Faulty(i)})
      last == Len(Accepts)
      next == IF last = 0 THEN 2 ELSE Start(last) + IF Indexed(last, Start(last)) THEN 4 ELSE 1
  IN  IF k # 0 THEN (IF OperandError(k) # "NO_ERR" THEN OperandError(k) ELSE "CHAR_EXPECTED")
      ELSE IF Type(next) # "NEWLINE" THEN "INVALID_INPUT"
      ELSE "NO_ERR"
-----------------------------------------------------------------------------
(* The second pass *)

Write(I) == stream' = Append(stream, I)

WriteInstr ==
  /\ Reads("second", "INSTR")
  /\ \/ InstrError \notin {"ABORT", "INVALID_INPUT"} /\ Refused(InstrError)
     \/ InstrError = "ABORT" /\ Abort /\ UNCHANGED <<calls, sourceSize, header>>
     \/ \* Returns without ShutDown.
        /\ InstrError = "INVALID_INPUT"
        /\ Return("INVALID_INPUT")
        /\ UNCHANGED <<calls, sourceSize, header, heap>>
     \/ /\ Passes(InstrError)
        /\ Write([op |-> Lexeme(1), args |-> [k \in DOMAIN Accepts |-> OperandOf(k)]])
        /\ tables' = IF Lexeme(1) = "CALLCORE"
                     THEN [tables EXCEPT !.apis = WithString(@, Lexeme(2))] ELSE tables
        /\ SkipToNextLine(line)
        /\ UNCHANGED <<scope, header, streamSize>>

EnterFunction ==
  /\ Reads("second", "FUNC") /\ Passes("NO_ERR")
  /\ scope' = [scope EXCEPT !.active = TRUE, !.func = GetFuncByName(tables, Lexeme(2)) - 1]
  /\ SkipToNextLine(BraceLine)
  /\ UNCHANGED <<header, streamSize, stream, tables>>

\* An instruction is added: QUIT to the main function, RET to the others.
LeaveFunction ==
  /\ Reads("second", "CLOSE_BRACE") /\ Passes("NO_ERR")
  /\ Write([op |-> IF tables.funcs[scope.func + 1].name = MAIN_FUNC_NAME THEN "QUIT" ELSE "RET",
            args |-> <<>>])
  /\ scope' = [scope EXCEPT !.active = FALSE]
  /\ SkipToNextLine(line)
  /\ UNCHANGED <<header, streamSize, tables>>

SkipOther ==
  /\ \E type \in TokenTypes \ {"INSTR", "FUNC", "CLOSE_BRACE"} : Reads("second", type)
  /\ Passes("NO_ERR")
  /\ SkipToNextLine(line)
  /\ UNCHANGED <<scope, header, streamSize, stream, tables>>

SecondPass == WriteInstr \/ EnterFunction \/ LeaveFunction \/ SkipOther

EndSecondPass ==
  /\ phase = "second" /\ line \notin DOMAIN source
  /\ phase' = "build"
  /\ UNCHANGED <<result, calls, sourceSize, header, heap, work>>
-----------------------------------------------------------------------------
(* The executable file *)

\* An instruction that was allocated and not written.
Unwritten == [op |-> "UNWRITTEN", args |-> <<>>]

Code == [i \in 1 .. streamSize |-> IF i \in DOMAIN stream THEN stream[i] ELSE Unwritten]

\* The file that is written, and what the kernel will load.
Fse     == FileOf(header, Code, tables)
Program == ProgramOf(Fse)

\* BuildFSE, and ShutDown.  The number of operands of an instruction that was not
\* written is rubbish, and it has none.
BuildFSE ==
  /\ phase = "build"
  /\ \/ Return("NO_ERR") /\ ShutDown
     \/ Len(stream) < streamSize /\ Abort
  /\ UNCHANGED <<calls, sourceSize, header>>

\* The file cannot be created.
BuildFails ==
  /\ phase = "build"
  /\ ExitOnError("BUILD_FILE_FAILED")
  /\ UNCHANGED <<calls, sourceSize, header>>
-----------------------------------------------------------------------------
Next ==
  \/ Exec \/ SourceMissing \/ LookupOverflows \/ LoadOverruns
  \/ FirstPass \/ AllocateStream \/ SecondPass \/ EndSecondPass
  \/ BuildFSE \/ BuildFails

Spec == Init /\ [][Next]_vars

\* The shell's thread goes on with a call once it has made it.
FairSpec == Spec /\ WF_vars(phase # "idle" /\ Next)
-----------------------------------------------------------------------------
(* Properties *)

\* Every variable has its type: a label has a place from 0 on.
TypeOK ==
  /\ phase \in {"idle", "first", "second", "build", "aborted"}
  /\ result \in ErrorCodes
  /\ calls \in 0 .. Len(Files) /\ sourceSize \in Nat
  /\ source \in Seq(Lines)
  /\ line \in 1 .. Len(source) + 1
  /\ scope \in [active: BOOLEAN, func: Int, size: Nat]
  /\ header \in [stack: Int, found: BOOLEAN, globals: Nat, main: Int]
  /\ streamSize \in Nat
  /\ stream \in Seq(Instrs)
  /\ tables \in Tables
  /\ heap \in [source: {"null", "live", "freed"}, stream: {"null", "live", "freed"}]

\* AssmblSourceFile: the two passes agree.  The instructions written stay within the
\* memory allocated after the first pass, and fill it, if the last function ends.
StreamFits ==
  /\ phase \in {"second", "build"} => Len(stream) <= streamSize
  /\ phase = "build" /\ ~scope.active => Len(stream) = streamSize

\* Places in the source, found from its lines alone: how many lines before a line
\* begin with a token; how many instructions it is preceded by; its function.
Before(l, type) == Cardinality({k \in 1 .. l - 1 : TypeAt(k, 1) = type})
Slot(l)     == Before(l, "INSTR") + Before(l, "CLOSE_BRACE")
FuncOf(l)   == Before(l, "FUNC") - 1
IsLocal(l)  == Before(l, "FUNC") > Before(l, "CLOSE_BRACE")
LinesOf(type) == {l \in DOMAIN source : TypeAt(l, 1) = type}

WrittenFor(l)  == stream[Slot(l) + 1]
LastOperand(I) == I.args[Len(I.args)].value
LastName(l)    == source[l][Len(source[l]) - 1].lexeme
JumpOps        == {"JMP", "JE", "JNE", "JG", "JL"}

\* A jump leads to the instruction that follows the label of that name in the same
\* function, a call to the first instruction of the function of that name.
Follows(l, I) ==
  /\ I.op = source[l][1].lexeme
  /\ I.op \in JumpOps =>
       \E d \in LinesOf("IDENT") :
         /\ source[d][1].lexeme = LastName(l) /\ FuncOf(d) = FuncOf(l)
         /\ LastOperand(I) = Slot(d)
  /\ I.op = "CALL" =>
       \E d \in LinesOf("FUNC") :
         /\ source[d][2].lexeme = LastName(l)
         /\ tables.funcs[LastOperand(I) + 1].entry = Slot(d)

\* The places that the first pass has found are those of the instructions that the
\* second one writes.
TargetsFollow == phase = "build" => \A l \in LinesOf("INSTR") : Follows(l, WrittenFor(l))

Declarations == LinesOf("INT_DEF") \cup LinesOf("STRING_DEF")
SymbolOf(d)  == tables.symbols[Before(d, "INT_DEF") + Before(d, "STRING_DEF") + 1]

\* Where the operands of an instruction begin, and the index of an array element.
OperandTokens(l) ==
  {i \in 2 .. Len(source[l]) : /\ source[l][i].type \in {"INT", "REG", "IDENT"}
                              /\ source[l][i - 1].type # "OPEN_BRACKET"}
Element(l, i) == IF TypeAt(l, i + 1) = "OPEN_BRACKET" THEN source[l][i + 2].lexeme ELSE 0

OperandNumber(l, i) == Cardinality({j \in OperandTokens(l) : j <= i})

\* The variable that a token stands for: the one of that name declared in the same
\* function, if there is one, and else the global one.
Meant(l, i) ==
  LET named == {d \in Declarations : source[d][2].lexeme = source[l][i].lexeme}
      own   == {d \in named : IsLocal(d) /\ FuncOf(d) = FuncOf(l)}
  IN  IF own # {} THEN own ELSE {d \in named : ~IsLocal(d)}

UsesOwn(l, I) ==
  \A i \in OperandTokens(l) :
    LET k == OperandNumber(l, i)
        o == I.args[k]
    IN  source[l][i].type = "IDENT" /\ "MEM_REF" \in InstrTable[source[l][1].lexeme][k] =>
          \E d \in Meant(l, i) :
            IF SymbolOf(d).type = "STRING_REF"
            THEN o = [type |-> "STRING_REF", value |-> SymbolOf(d).value]
            ELSE o.value = SymbolOf(d).index + Element(l, i)

\* An instruction uses the variables it means, whatever the names of variables of other
\* functions, and whatever iCurrFuncIndex is outside functions (AddSymbol,
\* GetSymbolByIdent).
OwnVariables == phase = "build" => \A l \in LinesOf("INSTR") : UsesOwn(l, WrittenFor(l))

\* Variables that a function can see have storage of their own, within the global
\* data or the frame of the function: the sizes in the file are those that
\* loadExecFile and CALL make room for.
Disjoint ==
  phase = "build" =>
    \A d \in Declarations :
      LET s == SymbolOf(d)
          bytes(t) == t.index .. t.index + t.size - 1
      IN  /\ \A e \in Declarations \ {d} :
               (IsLocal(d) /\ IsLocal(e) => FuncOf(d) = FuncOf(e))
                 => bytes(s) \cap bytes(SymbolOf(e)) = {}
          /\ ~IsLocal(d) => bytes(s) \subseteq 0 .. header.globals - 1
          /\ IsLocal(d) /\ ~(scope.active /\ FuncOf(d) = scope.func)
               => bytes(s) \subseteq -tables.funcs[FuncOf(d) + 1].size .. -1

\* The texts of the source are found again in the memory of the program: AddString
\* computes places in a table that BuildFSE writes and loadExecFile reads.
TextsFound ==
  phase = "build" =>
    LET texts == TextTable(Fse, StringsAt(Fse)).texts IN
    /\ \A d \in LinesOf("STRING_DEF") :
         TypeAt(d, 4) = "STRING" => /\ SymbolOf(d).value \in DOMAIN texts
                                    /\ texts[SymbolOf(d).value] = source[d][4].lexeme
    /\ \A l \in LinesOf("INSTR") :
         source[l][1].lexeme = "CALLCORE" =>
           Program.code[Slot(l) + 1].args[1].value = LastName(l)

Computer == INSTANCE Machine WITH StackWords <- 0

\* What the kernel loads is a program for the processor: the operands are of the
\* kinds that interprete expects, the main function is there, a jump stays in its
\* function, and each function ends with the instruction that leaves it, so that none
\* runs on into the next, or into the tables.
Loadable ==
  phase = "build" /\ ~scope.active /\ GetFuncByName(tables, MAIN_FUNC_NAME) # 0 =>
    LET P == Program
        end(i) == IF i = Len(P.funcs) THEN Len(P.code) ELSE P.funcs[i + 1].entry
    IN  /\ Computer!WellFormed(P)
        /\ \A i \in DOMAIN P.funcs :
             /\ P.funcs[i].entry < end(i)
             /\ P.code[end(i)].op = IF i = P.main + 1 THEN "QUIT" ELSE "RET"
             /\ \A n \in P.funcs[i].entry + 1 .. end(i) :
                  P.code[n].op \in JumpOps =>
                    LastOperand(P.code[n]) \in P.funcs[i].entry .. end(i) - 1

\* Exec returns to the shell, whatever the source, unless the simulator has gone:
\* neither pass can stay on a line.
Returns == []<>(phase \in {"idle", "aborted"})

\* "Exit the program" (FASM::Exit): an error ends it in order, with what it has
\* allocated freed, and nothing is freed or written to again.
Survives == phase # "aborted"
=============================================================================
