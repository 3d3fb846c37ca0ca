---------------------------- MODULE MCProcessor ----------------------------
(* Processor on three processes. *)
EXTENDS Processor, Outlines

Int_(n)  == [type |-> "INT", value |-> n]
Reg(r)   == [type |-> "REG", value |-> r]
Var(i)   == [type |-> "ABS_STACK_INDEX", value |-> i]
Instr(i) == [type |-> "INSTR_INDEX", value |-> i]
Func(i)  == [type |-> "FUNC_INDEX", value |-> i]
Api(s)   == [type |-> "HOST_API_CALL_INDEX", value |-> s]
I0(op)       == [op |-> op, args |-> <<>>]
I1(op, a)    == [op |-> op, args |-> <<a>>]
I2(op, a, b) == [op |-> op, args |-> <<a, b>>]

\* IDLE.FSE.
MCIdleProgram ==
  [code |-> << I1("CALLCORE", Api("INCFREETIME")), I1("JMP", Instr(0)), I0("RET"),
               I1("CALL", Func(0)), I0("QUIT") >>,
   funcs |-> << [entry |-> 0, size |-> 0], [entry |-> 3, size |-> 0] >>,
   main |-> 1, globals |-> 0, strings |-> 0]

\* A function in a function, a local and a global variable, a kernel call and a
\* pause.
Worker ==
  [code |-> << I1("CALL", Func(1)),
               I1("PUSH", Var(0)),
               I1("CALLCORE", Api("SEMPOST")),
               I1("PAUSE", Int_(1)),
               I0("QUIT"),
               I1("CALL", Func(2)),
               I0("RET"),
               I2("MOV", Var(-1), Int_(7)),
               I2("ADD", Var(0), Var(-1)),
               I0("RET") >>,
   funcs |-> << [entry |-> 0, size |-> 0], [entry |-> 5, size |-> 0],
                [entry |-> 7, size |-> 1] >>,
   main |-> 0, globals |-> 1, strings |-> 8]

\* Waits for a semaphore, creates a process and deletes it again.  Creating may
\* fail: -1 is then the argument of PROCESSDELETE, which takes it for PID_CURR.
Creator ==
  [code |-> << I1("PUSH", Int_(10)),
               I1("PUSH", Int_(0)),
               I1("CALLCORE", Api("SEMPEND")),
               I1("PUSH", Int_(0)),
               I1("CALLCORE", Api("PROCESSCREATE")),
               I1("PUSH", Reg(1)),
               I1("CALLCORE", Api("PROCESSDELETE")),
               I0("QUIT") >>,
   funcs |-> << [entry |-> 0, size |-> 0] >>,
   main |-> 0, globals |-> 0, strings |-> 16]

MCShellPrograms == {Creator}
MCPrograms == {Worker}
MCResults  == {-1}

\* A main function with a local variable that calls a function without one.
Caller ==
  [code |-> << I2("MOV", Var(-1), Int_(5)),
               I1("CALL", Func(1)),
               I0("QUIT"),
               I0("RET") >>,
   funcs |-> << [entry |-> 0, size |-> 1], [entry |-> 3, size |-> 0] >>,
   main |-> 0, globals |-> 0, strings |-> 0]

MCFramePrograms == {Caller}

\* Deletes itself by a kernel call.
Leaver ==
  [code |-> << I1("PUSH", Int_(PID_CURR)),
               I1("CALLCORE", Api("PROCESSDELETE")),
               I0("QUIT") >>,
   funcs |-> << [entry |-> 0, size |-> 0] >>,
   main |-> 0, globals |-> 0, strings |-> 0]

MCLeavePrograms == {Leaver, Creator}
-----------------------------------------------------------------------------
(* The outlines that these programs keep to: for each instruction the function, the *)
(* words of its stack and whether BP is known to be its own; for each function the  *)
(* words that it takes with what it calls.                                          *)

Outline(lines, room) ==
  [lines |-> [i \in DOMAIN lines |->
                [func |-> lines[i][1], words |-> lines[i][2], bp |-> lines[i][3]]],
   room  |-> room]

MCOutlines ==
  (MCIdleProgram :>
     Outline(<< <<1, 2, TRUE>>, <<1, 2, TRUE>>, <<1, 2, TRUE>>, <<2, 2, TRUE>>, <<2, 2, FALSE>> >>,
             <<2, 4>>)
   @@ Worker :>
     Outline(<< <<1, 2, TRUE>>, <<1, 2, FALSE>>, <<1, 3, FALSE>>, <<1, 2, FALSE>>, <<1, 2, FALSE>>,
                <<2, 2, TRUE>>, <<2, 2, FALSE>>,
                <<3, 3, TRUE>>, <<3, 3, TRUE>>, <<3, 3, TRUE>> >>,
             <<7, 5, 3>>)
   @@ Creator :>
     Outline(<< <<1, 2, TRUE>>, <<1, 3, TRUE>>, <<1, 4, TRUE>>, <<1, 2, TRUE>>, <<1, 3, TRUE>>,
                <<1, 2, TRUE>>, <<1, 3, TRUE>>, <<1, 2, TRUE>> >>,
             <<4>>)
   @@ Caller :>
     Outline(<< <<1, 3, TRUE>>, <<1, 3, TRUE>>, <<1, 3, FALSE>>, <<2, 2, TRUE>> >>, <<5, 2>>)
   @@ Leaver :>
     Outline(<< <<1, 2, TRUE>>, <<1, 3, TRUE>>, <<1, 2, TRUE>> >>, <<3>>))

ASSUME ProgramsOutlined ==
  \A P \in AllPrograms : P \in DOMAIN MCOutlines /\ Outlines(MCOutlines[P], P)
=============================================================================
