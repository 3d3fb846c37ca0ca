------------------------------ MODULE FasmProofs ------------------------------
(***************************************************************************)
(* The two passes of the assembler agree and every variable has its type,  *)
(* proved for every source: both the lines of a file and those that are    *)
(* rubbish, whatever an earlier call has left.                             *)
(***************************************************************************)
EXTENDS Fasm, FiniteSetTheorems, SequenceTheorems, TLAPS

-----------------------------------------------------------------------------
(* Counting lines *)

\* The least element of a set of numbers.
LEMMA FirstOfIsLeast ==
  ASSUME NEW S, S \subseteq Nat, S # {}
  PROVE  FirstOf(S) \in S /\ \A j \in S : FirstOf(S) <= j
<1> DEFINE less == {ss \in Nat \X Nat : ss[1] < ss[2]}
<1>1. IsWellFoundedOn(less, Nat)
  BY NatLessThanWellFounded DEF OpToRel
<1> HIDE DEF less
<1>2. PICK i \in S : \A j \in S : ~ (<<j, i>> \in less)
  BY <1>1, WFMin
<1>3. ASSUME NEW j \in S  PROVE i <= j
  <2>1. <<j, i>> \in Nat \X Nat /\ <<j, i>>[1] = j /\ <<j, i>>[2] = i
    OBVIOUS
  <2>2. ~ (j < i)
    BY <1>2, <2>1 DEF less
  <2> QED
    BY <2>2
<1>4. FirstOf(S) = CHOOSE m \in S : \A j \in S : m <= j
  BY DEF FirstOf
<1> QED
  BY <1>3, <1>4

LEMMA BeforeIsNat ==
  ASSUME NEW l \in Nat, NEW t
  PROVE  Before(l, t) \in Nat
<1>1. IsFiniteSet(1 .. l - 1)
  BY FS_Interval
<1>2. {k \in 1 .. l - 1 : TypeAt(k, 1) = t} \subseteq 1 .. l - 1
  OBVIOUS
<1> QED
  BY <1>1, <1>2, FS_Subset, FS_CardinalityType DEF Before

LEMMA BeforeFirst ==
  ASSUME NEW t
  PROVE  Before(1, t) = 0 /\ Before(1, t)' = 0
<1>1. /\ {k \in 1 .. 1 - 1 : TypeAt(k, 1) = t} = {}
      /\ {k \in 1 .. 1 - 1 : TypeAt(k, 1)' = t} = {}
  OBVIOUS
<1> QED
  BY <1>1, FS_EmptySet DEF Before

\* One line more.
LEMMA BeforeNext ==
  ASSUME NEW l \in Nat, l > 0, NEW t
  PROVE  Before(l + 1, t) = Before(l, t) + IF TypeAt(l, 1) = t THEN 1 ELSE 0
<1> DEFINE S == {k \in 1 .. l - 1 : TypeAt(k, 1) = t}
           T == {k \in 1 .. (l + 1) - 1 : TypeAt(k, 1) = t}
<1>1. IsFiniteSet(S)
  <2>1. IsFiniteSet(1 .. l - 1) /\ S \subseteq 1 .. l - 1
    BY FS_Interval
  <2> QED
    BY <2>1, FS_Subset
<1>2. l \notin S
  OBVIOUS
<1>3. CASE TypeAt(l, 1) = t
  <2>1. T = S \cup {l}
    BY <1>3
  <2> HIDE DEF S, T
  <2>2. Cardinality(T) = Cardinality(S) + 1
    BY <1>1, <1>2, <2>1, FS_AddElement
  <2> QED
    BY <1>3, <2>2 DEF Before, S, T
<1>4. CASE TypeAt(l, 1) # t
  <2>1. T = S
    BY <1>4
  <2>2. Cardinality(S) + 0 = Cardinality(S)
    BY <1>1, FS_CardinalityType
  <2> QED
    BY <1>4, <2>1, <2>2 DEF Before
<1> QED
  BY <1>3, <1>4

\* Lines that do not count.
LEMMA BeforeSkip ==
  ASSUME NEW l \in Nat, NEW m \in Nat, l <= m, NEW t, \A k \in l .. m - 1 : TypeAt(k, 1) # t
  PROVE  Before(m, t) = Before(l, t)
<1>1. {k \in 1 .. m - 1 : TypeAt(k, 1) = t} = {k \in 1 .. l - 1 : TypeAt(k, 1) = t}
  OBVIOUS
<1> QED
  BY <1>1 DEF Before

LEMMA BeforeGrows ==
  ASSUME NEW l \in Nat, NEW m \in Nat, l <= m, NEW t
  PROVE  Before(l, t) <= Before(m, t)
<1> DEFINE S == {k \in 1 .. l - 1 : TypeAt(k, 1) = t}
           T == {k \in 1 .. m - 1 : TypeAt(k, 1) = t}
<1>1. IsFiniteSet(T)
  <2>1. IsFiniteSet(1 .. m - 1) /\ T \subseteq 1 .. m - 1
    BY FS_Interval
  <2> QED
    BY <2>1, FS_Subset
<1>2. S \subseteq T
  OBVIOUS
<1> QED
  BY <1>1, <1>2, FS_Subset DEF Before

-----------------------------------------------------------------------------
(* The invariant *)

\* Lines that a pass skips between the name of a function and its first instruction
\* begin with these tokens.
Skipped == {"NEWLINE", "OPEN_BRACE"}

\* The line of the brace that a function begins with: BraceLine of any line.
Brace(l) ==
  IF TypeAt(l, 3) # "NEWLINE" THEN l
  ELSE FirstOf({k \in l + 1 .. Len(source) : TypeAt(k, 1) # "NEWLINE"})

\* A line that the first pass has let pass.
WellPlaced(l) ==
  /\ TypeAt(l, 1) \in {"CLOSE_BRACE", "INSTR", "IDENT"} =>
       Before(l, "FUNC") = Before(l, "CLOSE_BRACE") + 1
  /\ TypeAt(l, 1) = "FUNC" =>
       /\ Before(l, "FUNC") = Before(l, "CLOSE_BRACE")
       /\ Brace(l) \in l .. Len(source)
       /\ \A k \in l + 1 .. Brace(l) : TypeAt(k, 1) \in Skipped

\* None of this depends on where a pass is.
LEMMA SameSource ==
  ASSUME source' = source
  PROVE  /\ \A l, t : Before(l, t)' = Before(l, t)
         /\ \A l : WellPlaced(l)' = WellPlaced(l)
<1>1. \A k, i : TypeAt(k, i)' = TypeAt(k, i)
  BY DEF TypeAt
<1>2. \A l, t : Before(l, t)' = Before(l, t)
  <2> SUFFICES ASSUME NEW l, NEW t  PROVE Before(l, t)' = Before(l, t)
    OBVIOUS
  <2> QED
    BY <1>1 DEF Before
<1>3. \A l : Brace(l)' = Brace(l)
  <2> SUFFICES ASSUME NEW l  PROVE Brace(l)' = Brace(l)
    OBVIOUS
  <2> QED
    BY <1>1 DEF Brace
<1>4. \A l : WellPlaced(l)' = WellPlaced(l)
  <2> SUFFICES ASSUME NEW l  PROVE WellPlaced(l)' = WellPlaced(l)
    OBVIOUS
  <2> QED
    BY <1>1, <1>2, <1>3 DEF WellPlaced
<1> QED
  BY <1>2, <1>4

\* Instructions are counted, and for each function the one at its end.
FirstCounts ==
  /\ streamSize = Before(line, "INSTR") + Before(line, "FUNC")
  /\ Before(line, "FUNC") = Before(line, "CLOSE_BRACE") + IF scope.active THEN 1 ELSE 0
  /\ \A l \in 1 .. line - 1 : WellPlaced(l)

\* An instruction is written for each that is read, and for each end of a function.
SecondWrites ==
  LET end == Len(source) + 1 IN
  /\ \A l \in 1 .. Len(source) : WellPlaced(l)
  /\ streamSize = Before(end, "INSTR") + Before(end, "FUNC")
  /\ Before(end, "CLOSE_BRACE") <= Before(end, "FUNC")
  /\ Before(end, "FUNC") <= Before(end, "CLOSE_BRACE") + 1
  /\ Len(stream) = Slot(line)
  /\ ~scope.active => Before(line, "FUNC") = Before(line, "CLOSE_BRACE")

WorkTyped ==
  /\ calls \in Nat /\ sourceSize \in Nat
  /\ source \in Seq(Lines)
  /\ line \in 1 .. Len(source) + 1
  /\ \E S : stream \in Seq(S)
  /\ DOMAIN scope = {"active", "func", "size"} /\ scope.active \in BOOLEAN

PassInv ==
  /\ WorkTyped
  /\ phase = "idle" => streamSize = 0
  /\ phase = "first" => FirstCounts
  /\ phase \in {"second", "build"} => SecondWrites
  /\ phase = "build" => line = Len(source) + 1

LEMMA PassInvFits == PassInv => StreamFits
<1> SUFFICES ASSUME PassInv, phase \in {"second", "build"}
             PROVE  /\ Len(stream) <= streamSize
                    /\ phase = "build" /\ ~scope.active => Len(stream) = streamSize
  BY DEF StreamFits
<1> DEFINE end == Len(source) + 1
<1>1. end \in Nat /\ line \in Nat /\ line <= end
  BY DEF PassInv, WorkTyped
<1>2. SecondWrites
  BY DEF PassInv
<1>3. \A t : Before(line, t) \in Nat /\ Before(end, t) \in Nat /\ Before(line, t) <= Before(end, t)
  BY <1>1, BeforeIsNat, BeforeGrows
<1>4. Len(stream) = Before(line, "INSTR") + Before(line, "CLOSE_BRACE")
  BY <1>2 DEF SecondWrites, Slot
<1>5. Len(stream) <= streamSize
  <2>1. /\ Before(line, "INSTR") <= Before(end, "INSTR")
        /\ Before(line, "CLOSE_BRACE") <= Before(end, "CLOSE_BRACE")
        /\ Before(end, "INSTR") \in Nat /\ Before(end, "FUNC") \in Nat
        /\ Before(line, "INSTR") \in Nat /\ Before(line, "CLOSE_BRACE") \in Nat
        /\ Before(end, "CLOSE_BRACE") \in Nat
    BY <1>3
  <2>2. /\ streamSize = Before(end, "INSTR") + Before(end, "FUNC")
        /\ Before(end, "CLOSE_BRACE") <= Before(end, "FUNC")
    BY <1>2 DEF SecondWrites
  <2> QED
    BY <1>4, <2>1, <2>2
<1>6. ASSUME phase = "build", ~scope.active  PROVE Len(stream) = streamSize
  <2>1. line = end
    BY <1>6 DEF PassInv
  <2> QED
    BY <1>2, <1>3, <1>4, <1>6, <2>1 DEF SecondWrites
<1> QED
  BY <1>5, <1>6
-----------------------------------------------------------------------------
(* Reading *)

\* A pass reads one line, and the lines that follow it up to m, which do not count.
Passed(m) ==
  /\ line \in DOMAIN source /\ m \in line .. Len(source)
  /\ \A k \in line + 1 .. m : TypeAt(k, 1) \in Skipped
  /\ line' = m + 1
  /\ UNCHANGED <<phase, calls, sourceSize, source>>
  /\ scope'.active = IF TypeAt(line, 1) = "FUNC" THEN TRUE
                     ELSE IF TypeAt(line, 1) = "CLOSE_BRACE" THEN FALSE ELSE scope.active
  /\ DOMAIN scope' = {"active", "func", "size"}

\* What is counted goes up by the line that is read.
LEMMA PassedCounts ==
  ASSUME WorkTyped, NEW m, Passed(m)
  PROVE  /\ m \in Nat /\ line \in Nat /\ line <= m /\ m + 1 \in 1 .. Len(source) + 1
         /\ \A t : Before(line, t) \in Nat
         /\ \A t : t \notin Skipped =>
              Before(m + 1, t) = Before(line, t) + IF TypeAt(line, 1) = t THEN 1 ELSE 0
         /\ scope'.active \in BOOLEAN
<1>1. /\ line \in Nat /\ line > 0 /\ m \in Nat /\ m + 1 \in Nat /\ Len(source) \in Nat
      /\ line + 1 \in Nat /\ line + 1 <= m + 1 /\ m + 1 \in 1 .. Len(source) + 1 /\ line <= m
  BY DEF WorkTyped, Passed
<1>2. ASSUME NEW t, t \notin Skipped
      PROVE  Before(m + 1, t) = Before(line, t) + IF TypeAt(line, 1) = t THEN 1 ELSE 0
  <2>1. \A k \in line + 1 .. (m + 1) - 1 : TypeAt(k, 1) # t
    BY <1>1, <1>2 DEF Passed
  <2>2. Before(m + 1, t) = Before(line + 1, t)
    BY <1>1, <2>1, BeforeSkip
  <2> QED
    BY <1>1, <2>2, BeforeIsNat, BeforeNext
<1>4. \A t : Before(line, t) \in Nat
  BY <1>1, BeforeIsNat
<1>3. scope'.active \in BOOLEAN
  BY DEF WorkTyped, Passed
<1> QED
  BY <1>1, <1>2, <1>3, <1>4

LEMMA PassedTyped ==
  ASSUME WorkTyped, NEW m, Passed(m), \E S : stream' \in Seq(S)
  PROVE  WorkTyped'
BY PassedCounts DEF WorkTyped, Passed

\* In the first pass.
LEMMA FirstReads ==
  ASSUME PassInv, phase = "first", NEW m, Passed(m), WellPlaced(line), stream' = stream,
         streamSize' = IF TypeAt(line, 1) \in {"INSTR", "FUNC"} THEN streamSize + 1 ELSE streamSize
  PROVE  PassInv'
<1> DEFINE t == TypeAt(line, 1)
           f == Before(line, "FUNC")
           c == Before(line, "CLOSE_BRACE")
           i == Before(line, "INSTR")
<1>1. WorkTyped /\ FirstCounts
  BY DEF PassInv
<1>2. /\ m \in Nat /\ line \in Nat /\ line <= m
      /\ f \in Nat /\ c \in Nat /\ i \in Nat
      /\ Before(m + 1, "INSTR") = i + IF t = "INSTR" THEN 1 ELSE 0
      /\ Before(m + 1, "FUNC") = f + IF t = "FUNC" THEN 1 ELSE 0
      /\ Before(m + 1, "CLOSE_BRACE") = c + IF t = "CLOSE_BRACE" THEN 1 ELSE 0
  BY <1>1, PassedCounts DEF Skipped
<1>3. /\ streamSize = i + f
      /\ f = c + IF scope.active THEN 1 ELSE 0
      /\ t = "CLOSE_BRACE" => f = c + 1
      /\ t = "FUNC" => f = c
      /\ scope'.active = IF t = "FUNC" THEN TRUE
                         ELSE IF t = "CLOSE_BRACE" THEN FALSE ELSE scope.active
  BY <1>1 DEF FirstCounts, WellPlaced, Passed
<1> HIDE DEF t, f, c, i
<1>4. streamSize' = Before(m + 1, "INSTR") + Before(m + 1, "FUNC")
  <2>1. streamSize' = IF t \in {"INSTR", "FUNC"} THEN streamSize + 1 ELSE streamSize
    BY DEF t
  <2> QED
    BY <1>2, <1>3, <2>1
<1>5. Before(m + 1, "FUNC") = Before(m + 1, "CLOSE_BRACE") + IF scope'.active THEN 1 ELSE 0
  <2>1. CASE t = "FUNC"
    BY <1>2, <1>3, <2>1
  <2>2. CASE t = "CLOSE_BRACE"
    BY <1>2, <1>3, <2>2
  <2>3. CASE t \notin {"FUNC", "CLOSE_BRACE"}
    BY <1>2, <1>3, <2>3
  <2> QED
    BY <2>1, <2>2, <2>3
<1>6. \A l \in 1 .. m : WellPlaced(l)
  <2>1. \A l \in 1 .. line - 1 : WellPlaced(l)
    BY <1>1 DEF FirstCounts
  <2>2. \A l \in line + 1 .. m : WellPlaced(l)
    BY DEF WellPlaced, Skipped, Passed
  <2>3. \A l \in 1 .. m : l \in 1 .. line - 1 \/ l = line \/ l \in line + 1 .. m
    BY <1>2
  <2> QED
    BY <2>1, <2>2, <2>3
<1>7. FirstCounts'
  <2>1. line' = m + 1 /\ line' - 1 = m /\ source' = source
    BY <1>2 DEF Passed
  <2> QED
    BY <1>4, <1>5, <1>6, <2>1, SameSource DEF FirstCounts
<1>8. WorkTyped' /\ phase' = "first"
  BY <1>1, PassedTyped DEF WorkTyped, Passed
<1> QED
  BY <1>7, <1>8 DEF PassInv

\* In the second pass.
LEMMA SecondReads ==
  ASSUME PassInv, phase = "second", NEW m, Passed(m), streamSize' = streamSize,
         NEW S, stream' \in Seq(S),
         Len(stream') = Len(stream) + (IF TypeAt(line, 1) \in {"INSTR", "CLOSE_BRACE"} THEN 1 ELSE 0)
  PROVE  PassInv'
<1> DEFINE t == TypeAt(line, 1)
           f == Before(line, "FUNC")
           c == Before(line, "CLOSE_BRACE")
           i == Before(line, "INSTR")
<1>1. WorkTyped /\ SecondWrites /\ WellPlaced(line)
  BY DEF PassInv, SecondWrites, Passed, WorkTyped
<1>2. /\ m \in Nat /\ line \in Nat /\ line <= m
      /\ f \in Nat /\ c \in Nat /\ i \in Nat
      /\ Before(m + 1, "INSTR") = i + IF t = "INSTR" THEN 1 ELSE 0
      /\ Before(m + 1, "FUNC") = f + IF t = "FUNC" THEN 1 ELSE 0
      /\ Before(m + 1, "CLOSE_BRACE") = c + IF t = "CLOSE_BRACE" THEN 1 ELSE 0
  BY <1>1, PassedCounts DEF Skipped
<1>3. /\ Len(stream) = i + c
      /\ ~scope.active => f = c
      /\ t = "CLOSE_BRACE" => f = c + 1
      /\ scope'.active = IF t = "FUNC" THEN TRUE
                         ELSE IF t = "CLOSE_BRACE" THEN FALSE ELSE scope.active
  BY <1>1 DEF SecondWrites, Slot, WellPlaced, Passed
<1>4. Len(stream') = Len(stream) + (IF t \in {"INSTR", "CLOSE_BRACE"} THEN 1 ELSE 0)
  OBVIOUS
<1> HIDE DEF t, f, c, i
<1>5. Len(stream') = Before(m + 1, "INSTR") + Before(m + 1, "CLOSE_BRACE")
  <2>1. CASE t = "INSTR"
    BY <1>2, <1>3, <1>4, <2>1
  <2>2. CASE t = "CLOSE_BRACE"
    BY <1>2, <1>3, <1>4, <2>2
  <2>3. CASE t \notin {"INSTR", "CLOSE_BRACE"}
    BY <1>2, <1>3, <1>4, <2>3
  <2> QED
    BY <2>1, <2>2, <2>3
<1>6. ~scope'.active => Before(m + 1, "FUNC") = Before(m + 1, "CLOSE_BRACE")
  <2>1. CASE t = "FUNC"
    BY <1>3, <2>1
  <2>2. CASE t = "CLOSE_BRACE"
    BY <1>2, <1>3, <2>2
  <2>3. CASE t \notin {"FUNC", "CLOSE_BRACE"}
    BY <1>2, <1>3, <2>3
  <2> QED
    BY <2>1, <2>2, <2>3
<1>7. SecondWrites'
  <2>1. line' = m + 1 /\ source' = source
    BY DEF Passed
  <2> QED
    BY <1>1, <1>5, <1>6, <2>1, SameSource DEF SecondWrites, Slot
<1>8. WorkTyped' /\ phase' = "second"
  BY <1>1, PassedTyped DEF Passed
<1> QED
  BY <1>7, <1>8 DEF PassInv
-----------------------------------------------------------------------------
(* The end of a call *)

LEMMA ReturnKeeps ==
  ASSUME NEW err, Return(err), calls' \in Nat, sourceSize' \in Nat
  PROVE  PassInv'
<1>1. source' \in Seq(Lines) /\ Len(source') = 0
  BY DEF Return
<1>2. \E S : stream' \in Seq(S)
  <2>1. stream' \in Seq(Lines)
    BY DEF Return
  <2> QED
    BY <2>1
<1>5. line' \in 1 .. Len(source') + 1
  BY <1>1 DEF Return
<1>3. DOMAIN scope' = {"active", "func", "size"} /\ scope'.active = FALSE
  BY DEF Return, Outside
<1>4. WorkTyped'
  BY <1>1, <1>2, <1>3, <1>5 DEF WorkTyped
<1> QED
  BY <1>4 DEF Return, PassInv

LEMMA AbortKeeps ==
  ASSUME PassInv, Abort, calls' \in Nat, sourceSize' \in Nat
  PROVE  PassInv'
<1>1. WorkTyped'
  BY DEF PassInv, WorkTyped, Abort, work
<1> QED
  BY <1>1 DEF Abort, PassInv

LEMMA ExitKeeps ==
  ASSUME PassInv, NEW err, ExitOnError(err), calls' \in Nat, sourceSize' \in Nat
  PROVE  PassInv'
BY ReturnKeeps, AbortKeeps DEF ExitOnError

LEMMA RefusedKeeps ==
  ASSUME PassInv, NEW err, Refused(err)
  PROVE  PassInv'
<1>1. calls' \in Nat /\ sourceSize' \in Nat
  BY DEF PassInv, WorkTyped, Refused
<1> QED
  BY <1>1, ExitKeeps DEF Refused

-----------------------------------------------------------------------------
(* The lines of the first pass *)

\* A line that neither begins nor ends a function.
LEMMA PlainLine ==
  ASSUME PassInv, NEW type, type \notin {"FUNC", "CLOSE_BRACE"}, Reads("first", type),
         type \in {"INSTR", "IDENT"} => scope.active,
         Passes("NO_ERR"), SkipToNextLine(line),
         scope'.active = scope.active, DOMAIN scope' = DOMAIN scope, stream' = stream,
         streamSize' = IF type = "INSTR" THEN streamSize + 1 ELSE streamSize
  PROVE  PassInv'
<1>1. TypeAt(line, 1) = type /\ line \in DOMAIN source /\ phase = "first"
  BY DEF Reads, Type
<1>2. WorkTyped
  BY DEF PassInv
<1>3. Passed(line)
  <2>1. line \in line .. Len(source) /\ line + 1 .. line = {}
    BY <1>1, <1>2 DEF WorkTyped
  <2> QED
    BY <1>1, <1>2, <2>1 DEF Passed, Passes, SkipToNextLine, WorkTyped
<1>4. WellPlaced(line)
  <2>1. scope.active => Before(line, "FUNC") = Before(line, "CLOSE_BRACE") + 1
    BY <1>1 DEF PassInv, FirstCounts
  <2> QED
    BY <1>1, <2>1 DEF WellPlaced
<1> QED
  BY <1>1, <1>3, <1>4, FirstReads

LEMMA SetStackSizeKeeps == PassInv /\ SetStackSize => PassInv'
<1> SUFFICES ASSUME PassInv, SetStackSize  PROVE PassInv'
  OBVIOUS
<1>1. CASE Refused(SetStackSizeError)
  BY <1>1, RefusedKeeps
<1>2. CASE /\ Passes(SetStackSizeError) /\ SkipToNextLine(line)
           /\ UNCHANGED <<scope, streamSize, stream>>
  <2>1. Passes("NO_ERR")
    BY <1>2 DEF Passes
  <2> QED
    BY <1>2, <2>1, PlainLine DEF SetStackSize
<1> QED
  BY <1>1, <1>2 DEF SetStackSize

LEMMA DefineStringKeeps == PassInv /\ DefineString => PassInv'
<1> SUFFICES ASSUME PassInv, DefineString  PROVE PassInv'
  OBVIOUS
<1>1. CASE Refused(DefineStringError)
  BY <1>1, RefusedKeeps
<1>2. CASE /\ Passes(DefineStringError) /\ SkipToNextLine(line)
           /\ UNCHANGED <<scope, streamSize, stream>>
  <2>1. Passes("NO_ERR")
    BY <1>2 DEF Passes
  <2> QED
    BY <1>2, <2>1, PlainLine DEF DefineString
<1> QED
  BY <1>1, <1>2 DEF DefineString

LEMMA DefineIntKeeps == PassInv /\ DefineInt => PassInv'
<1> SUFFICES ASSUME PassInv, DefineInt  PROVE PassInv'
  OBVIOUS
<1>1. CASE Refused(DefineIntError)
  BY <1>1, RefusedKeeps
<1>2. CASE /\ Passes(DefineIntError) /\ SkipToNextLine(line)
           /\ \E n : scope' = [scope EXCEPT !.size = n]
           /\ UNCHANGED <<streamSize, stream>>
  <2>1. Passes("NO_ERR")
    BY <1>2 DEF Passes
  <2>2. scope'.active = scope.active /\ DOMAIN scope' = DOMAIN scope
    BY <1>2
  <2> QED
    BY <1>2, <2>1, <2>2, PlainLine DEF DefineInt
<1> QED
  BY <1>1, <1>2 DEF DefineInt

\* A function begins: the brace is found, and what lies before it does not count.
LEMMA BeginFunctionPlaced ==
  ASSUME PassInv, Reads("first", "FUNC"), ~scope.active, BraceType = "OPEN_BRACE"
  PROVE  /\ WellPlaced(line)
         /\ BraceLine \in line .. Len(source)
         /\ \A k \in line + 1 .. BraceLine : TypeAt(k, 1) \in Skipped
<1>1. /\ WorkTyped /\ FirstCounts /\ line \in DOMAIN source /\ TypeAt(line, 1) = "FUNC"
      /\ line \in Nat /\ line <= Len(source) /\ Len(source) \in Nat
  BY DEF PassInv, Reads, Type, WorkTyped
<1>2. Brace(line) = BraceLine
  BY DEF Brace, BraceLine, Type
<1>3. Before(line, "FUNC") = Before(line, "CLOSE_BRACE")
  <2>1. Before(line, "CLOSE_BRACE") \in Nat
    BY <1>1, BeforeIsNat
  <2> QED
    BY <1>1, <2>1 DEF FirstCounts
<1>4. /\ BraceLine \in line .. Len(source)
      /\ \A k \in line + 1 .. BraceLine : TypeAt(k, 1) \in Skipped
  <2>1. CASE Type(3) # "NEWLINE"
    BY <1>1, <2>1 DEF BraceLine
  <2>2. CASE Type(3) = "NEWLINE"
    <3> DEFINE S == {k \in line + 1 .. Len(source) : TypeAt(k, 1) # "NEWLINE"}
    <3>1. BraceLine = FirstOf(S)
      BY <2>2 DEF BraceLine
    <3>2. S # {}
      <4> SUFFICES ASSUME S = {}  PROVE FALSE
        OBVIOUS
      <4>1. BraceLine = 0
        BY <3>1 DEF FirstOf
      <4>2. BraceType = TypeAt(0, 1) /\ 0 \notin DOMAIN source
        BY <1>1, <4>1 DEF BraceType, WorkTyped
      <4> QED
        BY <4>2 DEF TypeAt
    <3>3. S \subseteq Nat
      BY <1>1
    <3>4. BraceLine \in S /\ \A j \in S : BraceLine <= j
      BY <3>1, <3>2, <3>3, FirstOfIsLeast
    <3>5. TypeAt(BraceLine, 1) = "OPEN_BRACE"
      BY <1>1, <3>4 DEF BraceType
    <3>6. ASSUME NEW k \in line + 1 .. BraceLine, k # BraceLine  PROVE TypeAt(k, 1) = "NEWLINE"
      <4>1. k \in line + 1 .. Len(source) /\ ~ (BraceLine <= k)
        BY <1>1, <3>4, <3>6
      <4> QED
        BY <3>4, <4>1
    <3> QED
      BY <1>1, <3>4, <3>5, <3>6 DEF Skipped
  <2> QED
    BY <2>1, <2>2
<1> QED
  BY <1>1, <1>2, <1>3, <1>4 DEF WellPlaced

LEMMA BeginFunctionKeeps == PassInv /\ BeginFunction => PassInv'
<1> SUFFICES ASSUME PassInv, BeginFunction  PROVE PassInv'
  OBVIOUS
<1>1. CASE Refused(BeginFunctionError)
  BY <1>1, RefusedKeeps
<1>2. CASE ExitOnError("CHAR_EXPECTED") /\ UNCHANGED <<calls, sourceSize>>
  BY <1>2, ExitKeeps DEF PassInv, WorkTyped
<1>3. CASE Abort /\ UNCHANGED <<calls, sourceSize>>
  BY <1>3, AbortKeeps DEF PassInv, WorkTyped
<1>4. CASE /\ Passes(BeginFunctionError)
           /\ scope' = [active |-> TRUE, func |-> NewIndex(tables.funcs), size |-> 0]
           /\ streamSize' = RoomForEnd
           /\ SkipToNextLine(BraceLine)
           /\ UNCHANGED stream
  <2>1. ~scope.active /\ BraceType = "OPEN_BRACE"
    BY <1>4 DEF Passes, BeginFunctionError
  <2>2. Reads("first", "FUNC")
    BY DEF BeginFunction
  <2>3. /\ WellPlaced(line)
        /\ BraceLine \in line .. Len(source)
        /\ \A k \in line + 1 .. BraceLine : TypeAt(k, 1) \in Skipped
    BY <2>1, <2>2, BeginFunctionPlaced
  <2>4. TypeAt(line, 1) = "FUNC" /\ phase = "first" /\ line \in DOMAIN source
    BY <2>2 DEF Reads, Type
  <2>5. Passed(BraceLine)
    BY <1>4, <2>3, <2>4 DEF Passed, Passes, SkipToNextLine
  <2> QED
    BY <1>4, <2>3, <2>4, <2>5, FirstReads DEF RoomForEnd
<1> QED
  BY <1>1, <1>2, <1>3, <1>4 DEF BeginFunction

LEMMA EndFunctionKeeps == PassInv /\ EndFunction => PassInv'
<1> SUFFICES ASSUME PassInv, EndFunction  PROVE PassInv'
  OBVIOUS
<1>1. CASE Refused(EndFunctionError)
  BY <1>1, RefusedKeeps
<1>2. CASE /\ Passes(EndFunctionError) /\ SkipToNextLine(line)
           /\ scope' = [scope EXCEPT !.active = FALSE]
           /\ UNCHANGED <<streamSize, stream>>
  <2>1. /\ TypeAt(line, 1) = "CLOSE_BRACE" /\ phase = "first" /\ line \in DOMAIN source
        /\ WorkTyped /\ FirstCounts
    BY DEF EndFunction, Reads, Type, PassInv
  <2>2. scope.active
    BY <1>2 DEF Passes, EndFunctionError
  <2>3. WellPlaced(line)
    BY <2>1, <2>2 DEF WellPlaced, FirstCounts
  <2>4. line \in line .. Len(source) /\ line + 1 .. line = {}
    BY <2>1 DEF WorkTyped
  <2>5. scope'.active = FALSE /\ DOMAIN scope' = {"active", "func", "size"}
    BY <1>2, <2>1 DEF WorkTyped
  <2>6. Passed(line)
    BY <1>2, <2>1, <2>4, <2>5 DEF Passed, Passes, SkipToNextLine
  <2> QED
    BY <1>2, <2>1, <2>3, <2>6, FirstReads
<1> QED
  BY <1>1, <1>2 DEF EndFunction

LEMMA CountInstrKeeps == PassInv /\ CountInstr => PassInv'
<1> SUFFICES ASSUME PassInv, CountInstr  PROVE PassInv'
  OBVIOUS
<1>1. CASE Refused(CountInstrError)
  BY <1>1, RefusedKeeps
<1>2. CASE /\ Passes(CountInstrError) /\ SkipToNextLine(line)
           /\ streamSize' = streamSize + 1
           /\ UNCHANGED <<scope, stream>>
  <2>1. Passes("NO_ERR")
    BY <1>2 DEF Passes
  <2>2. scope.active
    BY <1>2 DEF Passes, CountInstrError
  <2> QED
    BY <1>2, <2>1, <2>2, PlainLine DEF CountInstr
<1> QED
  BY <1>1, <1>2 DEF CountInstr

LEMMA DefineLabelKeeps == PassInv /\ DefineLabel => PassInv'
<1> SUFFICES ASSUME PassInv, DefineLabel  PROVE PassInv'
  OBVIOUS
<1>1. CASE Refused(DefineLabelError)
  BY <1>1, RefusedKeeps
<1>2. CASE /\ Passes(DefineLabelError) /\ SkipToNextLine(line)
           /\ UNCHANGED <<scope, streamSize, stream>>
  <2>1. Passes("NO_ERR")
    BY <1>2 DEF Passes
  <2>2. scope.active
    BY <1>2 DEF Passes, DefineLabelError
  <2> QED
    BY <1>2, <2>1, <2>2, PlainLine DEF DefineLabel
<1> QED
  BY <1>1, <1>2 DEF DefineLabel

LEMMA FirstPassKeeps == PassInv /\ FirstPass => PassInv'
<1> SUFFICES ASSUME PassInv, FirstPass  PROVE PassInv'
  OBVIOUS
<1>1. CASE SkipBlank
  BY <1>1, PlainLine DEF SkipBlank, Passes
<1>2. CASE InvalidInput
  BY <1>2, RefusedKeeps DEF InvalidInput
<1> QED
  BY <1>1, <1>2, SetStackSizeKeeps, DefineStringKeeps, DefineIntKeeps, BeginFunctionKeeps,
     EndFunctionKeeps, CountInstrKeeps, DefineLabelKeeps DEF FirstPass

\* What the first pass has counted is what the second one will write.
LEMMA AllocateStreamKeeps == PassInv /\ AllocateStream => PassInv'
<1> SUFFICES ASSUME PassInv, AllocateStream  PROVE PassInv'
  OBVIOUS
<1> DEFINE end == Len(source) + 1
<1>1. WorkTyped /\ FirstCounts /\ UNCHANGED <<calls, sourceSize, source, scope, streamSize>>
      /\ phase' = "second" /\ line' = 1 /\ stream' = <<>>
  BY DEF PassInv, AllocateStream
<1>2. line = end /\ line - 1 = Len(source) /\ end \in Nat /\ Len(source) \in Nat
  BY DEF PassInv, AllocateStream, WorkTyped
<1>3. WorkTyped'
  <2>1. \E S : stream' \in Seq(S)
    <3>1. stream' \in Seq(Lines)
      BY <1>1
    <3> QED
      BY <3>1
  <2>2. line' \in 1 .. Len(source') + 1
    BY <1>1, <1>2
  <2> QED
    BY <1>1, <2>1, <2>2 DEF WorkTyped
<1>4. /\ \A l \in 1 .. Len(source) : WellPlaced(l)
      /\ streamSize = Before(end, "INSTR") + Before(end, "FUNC")
      /\ Before(end, "CLOSE_BRACE") <= Before(end, "FUNC")
      /\ Before(end, "FUNC") <= Before(end, "CLOSE_BRACE") + 1
  <2>1. Before(end, "CLOSE_BRACE") \in Nat
    BY <1>2, BeforeIsNat
  <2> QED
    BY <1>1, <1>2, <2>1 DEF FirstCounts
<1>5. /\ Len(stream') = Slot(line)'
      /\ Before(line, "FUNC")' = Before(line, "CLOSE_BRACE")'
  <2>1. \A t : Before(line, t)' = 0
    <3>1. \A t : Before(1, t) = 0
      BY BeforeFirst
    <3>2. \A t : Before(line', t) = Before(line, t)'
      BY <1>1 DEF Before, TypeAt
    <3> QED
      BY <1>1, <3>1, <3>2
  <2>2. Len(stream') = 0
    BY <1>1
  <2> QED
    BY <2>1, <2>2 DEF Slot
<1>6. SecondWrites'
  BY <1>1, <1>4, <1>5, SameSource DEF SecondWrites
<1> QED
  BY <1>1, <1>3, <1>6 DEF PassInv

-----------------------------------------------------------------------------
(* The second pass *)

\* A line for which an instruction is written.
LEMMA WrittenLine ==
  ASSUME PassInv, NEW type \in {"INSTR", "CLOSE_BRACE"}, Reads("second", type), Passes("NO_ERR"),
         NEW I, Write(I), SkipToNextLine(line), streamSize' = streamSize,
         scope'.active = IF type = "CLOSE_BRACE" THEN FALSE ELSE scope.active,
         DOMAIN scope' = DOMAIN scope
  PROVE  PassInv'
<1>1. TypeAt(line, 1) = type /\ line \in DOMAIN source /\ phase = "second" /\ WorkTyped
  BY DEF Reads, Type, PassInv
<1>2. line \in line .. Len(source) /\ line + 1 .. line = {}
  BY <1>1 DEF WorkTyped
<1>3. Passed(line)
  BY <1>1, <1>2 DEF Passed, Passes, SkipToNextLine, WorkTyped
<1>4. PICK S : stream \in Seq(S)
  BY <1>1 DEF WorkTyped
<1>5. stream' \in Seq(S \cup {I}) /\ Len(stream') = Len(stream) + 1
  <2>1. stream \in Seq(S \cup {I}) /\ I \in S \cup {I}
    BY <1>4
  <2>2. Append(stream, I) \in Seq(S \cup {I}) /\ Len(Append(stream, I)) = Len(stream) + 1
    BY <2>1
  <2> QED
    BY <2>2 DEF Write
<1> QED
  BY <1>1, <1>3, <1>5, SecondReads

LEMMA WriteInstrKeeps == PassInv /\ WriteInstr => PassInv'
<1> SUFFICES ASSUME PassInv, WriteInstr  PROVE PassInv'
  OBVIOUS
<1>1. CASE Refused(InstrError)
  BY <1>1, RefusedKeeps
<1>2. CASE Abort /\ UNCHANGED <<calls, sourceSize>>
  BY <1>2, AbortKeeps DEF PassInv, WorkTyped
<1>3. CASE Return("INVALID_INPUT") /\ UNCHANGED <<calls, sourceSize>>
  BY <1>3, ReturnKeeps DEF PassInv, WorkTyped
<1>4. CASE /\ Passes(InstrError) /\ \E I : Write(I)
           /\ SkipToNextLine(line) /\ UNCHANGED <<scope, streamSize>>
  <2>1. Passes("NO_ERR") /\ Reads("second", "INSTR")
    BY <1>4 DEF Passes, WriteInstr
  <2>2. PICK I : Write(I)
    BY <1>4
  <2> QED
    BY <1>4, <2>1, <2>2, WrittenLine
<1> QED
  BY <1>1, <1>2, <1>3, <1>4 DEF WriteInstr

LEMMA LeaveFunctionKeeps == PassInv /\ LeaveFunction => PassInv'
<1> SUFFICES ASSUME PassInv, LeaveFunction  PROVE PassInv'
  OBVIOUS
<1>1. PICK I : Write(I)
  BY DEF LeaveFunction
<1>2. /\ Reads("second", "CLOSE_BRACE") /\ Passes("NO_ERR") /\ SkipToNextLine(line)
      /\ streamSize' = streamSize /\ scope' = [scope EXCEPT !.active = FALSE]
  BY DEF LeaveFunction
<1>3. scope'.active = FALSE /\ DOMAIN scope' = DOMAIN scope
  BY <1>2 DEF PassInv, WorkTyped
<1> QED
  BY <1>1, <1>2, <1>3, WrittenLine

\* A line for which nothing is written; the first pass has found the brace of a
\* function where the second one finds it.
LEMMA EnterFunctionKeeps == PassInv /\ EnterFunction => PassInv'
<1> SUFFICES ASSUME PassInv, EnterFunction  PROVE PassInv'
  OBVIOUS
<1>1. /\ TypeAt(line, 1) = "FUNC" /\ line \in DOMAIN source /\ phase = "second"
      /\ WorkTyped /\ WellPlaced(line)
  BY DEF EnterFunction, Reads, Type, PassInv, SecondWrites, WorkTyped
<1>2. Brace(line) = BraceLine
  BY DEF Brace, BraceLine, Type
<1>3. /\ BraceLine \in line .. Len(source)
      /\ \A k \in line + 1 .. BraceLine : TypeAt(k, 1) \in Skipped
  BY <1>1, <1>2 DEF WellPlaced
<1>4. scope'.active = TRUE /\ DOMAIN scope' = {"active", "func", "size"}
  BY <1>1 DEF EnterFunction, WorkTyped
<1>5. Passed(BraceLine)
  BY <1>1, <1>3, <1>4 DEF Passed, EnterFunction, Passes, SkipToNextLine
<1>6. PICK S : stream \in Seq(S)
  BY <1>1 DEF WorkTyped
<1>7. stream' \in Seq(S) /\ Len(stream') = Len(stream) + 0 /\ streamSize' = streamSize
  BY <1>6 DEF EnterFunction
<1> QED
  BY <1>1, <1>5, <1>7, SecondReads

LEMMA SkipOtherKeeps == PassInv /\ SkipOther => PassInv'
<1> SUFFICES ASSUME PassInv, SkipOther  PROVE PassInv'
  OBVIOUS
<1>1. /\ TypeAt(line, 1) \notin {"INSTR", "FUNC", "CLOSE_BRACE"}
      /\ line \in DOMAIN source /\ phase = "second" /\ WorkTyped
  BY DEF SkipOther, Reads, Type, PassInv
<1>2. line \in line .. Len(source) /\ line + 1 .. line = {}
  BY <1>1 DEF WorkTyped
<1>3. Passed(line)
  BY <1>1, <1>2 DEF Passed, SkipOther, Passes, SkipToNextLine, WorkTyped
<1>4. PICK S : stream \in Seq(S)
  BY <1>1 DEF WorkTyped
<1>5. stream' \in Seq(S) /\ Len(stream') = Len(stream) + 0 /\ streamSize' = streamSize
  BY <1>4 DEF SkipOther
<1> QED
  BY <1>1, <1>3, <1>5, SecondReads

LEMMA EndSecondPassKeeps == PassInv /\ EndSecondPass => PassInv'
<1> SUFFICES ASSUME PassInv, EndSecondPass  PROVE PassInv'
  OBVIOUS
<1>1. UNCHANGED work /\ phase' = "build" /\ WorkTyped /\ SecondWrites /\ line = Len(source) + 1
      /\ UNCHANGED <<calls, sourceSize>>
  BY DEF EndSecondPass, PassInv, WorkTyped
<1>2. WorkTyped'
  BY <1>1 DEF WorkTyped, work
<1>3. SecondWrites'
  BY <1>1, SameSource DEF SecondWrites, Slot, work
<1> QED
  BY <1>1, <1>2, <1>3 DEF PassInv, work

-----------------------------------------------------------------------------
(* A call *)

\* What is loaded consists of lines: those of the file, and what memory holds.
LEMMA LoadedLines ==
  ASSUME NEW c \in DOMAIN Files, NEW f \in Files[c], LoadSourceFile(f), sourceSize \in Nat
  PROVE  sourceSize' \in Nat /\ source' \in Seq(Lines)
<1>1. f.lines \in Seq(Lines) /\ f.newlines \in {0, 1}
  BY FilesAssumption
<1>2. /\ sourceSize' \in Nat /\ Len(f.lines) \in Nat
      /\ sourceSize' - Len(f.lines) \in Nat
  BY <1>1 DEF LoadSourceFile
<1> DEFINE n == sourceSize' - Len(f.lines)
<1>3. PICK r \in Residue : source' = f.lines \o [i \in 1 .. n |-> r[1 + (i % Len(r))]]
  BY DEF LoadSourceFile
<1> HIDE DEF n
<1>4. r \in Seq(Lines) /\ Len(r) \in Nat /\ Len(r) > 0
  BY JunkAssumption
<1>5. ASSUME NEW i \in 1 .. n  PROVE r[1 + (i % Len(r))] \in Lines
  <2>1. i \in Nat
    BY <1>2 DEF n
  <2>2. i % Len(r) \in 0 .. Len(r) - 1
    BY <1>4, <2>1
  <2> QED
    BY <1>4, <2>2
<1>6. [i \in 1 .. n |-> r[1 + (i % Len(r))]] \in Seq(Lines)
  BY <1>2, <1>5 DEF n
<1>7. \A g \in Seq(Lines) : f.lines \o g \in Seq(Lines)
  BY <1>1
<1>8. source' \in Seq(Lines)
  BY <1>3, <1>6, <1>7, Zenon
<1> QED
  BY <1>2, <1>8

LEMMA ExecKeeps == PassInv /\ Exec => PassInv'
<1> SUFFICES ASSUME PassInv, Exec  PROVE PassInv'
  OBVIOUS
<1>1. /\ calls + 1 \in DOMAIN Files /\ calls' = calls + 1 /\ calls' \in Nat
      /\ WorkTyped /\ streamSize = 0
  BY FilesAssumption DEF Exec, Called, PassInv, WorkTyped
<1>2. PICK f \in Files[calls + 1] : LoadSourceFile(f)
  BY DEF Exec
<1>3. sourceSize' \in Nat /\ source' \in Seq(Lines)
  BY <1>1, <1>2, LoadedLines DEF WorkTyped
<1>4. /\ phase' = "first" /\ line' = 1 /\ streamSize' = 0 /\ stream' = stream
      /\ scope'.active = FALSE /\ DOMAIN scope' = {"active", "func", "size"}
  BY <1>1 DEF Exec, StartFirstPass, Outside
<1>5. WorkTyped'
  <2>1. line' \in 1 .. Len(source') + 1
    BY <1>3, <1>4
  <2>2. \E S : stream' \in Seq(S)
    BY <1>1, <1>4 DEF WorkTyped
  <2> QED
    BY <1>1, <1>3, <1>4, <2>1, <2>2 DEF WorkTyped
<1>6. FirstCounts'
  <2>1. \A t : Before(line, t)' = 0
    <3>1. \A t : Before(1, t)' = 0
      BY BeforeFirst
    <3> QED
      BY <1>4, <3>1 DEF Before
  <2>2. 1 .. line' - 1 = {}
    BY <1>4
  <2> QED
    BY <1>4, <2>1, <2>2 DEF FirstCounts
<1> QED
  BY <1>4, <1>5, <1>6 DEF PassInv

LEMMA CallsKeep == PassInv /\ (SourceMissing \/ LookupOverflows \/ LoadOverruns) => PassInv'
<1> SUFFICES ASSUME PassInv, SourceMissing \/ LookupOverflows \/ LoadOverruns  PROVE PassInv'
  OBVIOUS
<1>1. calls \in Nat /\ sourceSize \in Nat /\ calls' = calls + 1
      /\ calls + 1 \in DOMAIN Files
  BY FilesAssumption DEF SourceMissing, LookupOverflows, LoadOverruns, Called, PassInv, WorkTyped
<1>2. LoadOverruns => sourceSize' \in Nat
  <2> SUFFICES ASSUME LoadOverruns  PROVE sourceSize' \in Nat
    OBVIOUS
  <2>1. PICK f \in Files[calls + 1] : sourceSize' = sourceSize + Len(f.lines) + f.newlines
    BY DEF LoadOverruns
  <2>2. f \in [lines : Seq(Lines), newlines : {0, 1}]
    BY <1>1, FilesAssumption
  <2>3. Len(f.lines) \in Nat /\ f.newlines \in Nat
    BY <2>2
  <2> QED
    BY <1>1, <2>1, <2>3
<1>3. calls' \in Nat /\ sourceSize' \in Nat
  BY <1>1, <1>2 DEF SourceMissing, LookupOverflows
<1> QED
  BY <1>3, ExitKeeps, AbortKeeps DEF SourceMissing, LookupOverflows, LoadOverruns

LEMMA BuildsKeep == PassInv /\ (BuildFSE \/ BuildFails) => PassInv'
<1> SUFFICES ASSUME PassInv, BuildFSE \/ BuildFails  PROVE PassInv'
  OBVIOUS
<1>1. calls' \in Nat /\ sourceSize' \in Nat
  BY DEF BuildFSE, BuildFails, PassInv, WorkTyped
<1> QED
  BY <1>1, ReturnKeeps, ExitKeeps, AbortKeeps DEF BuildFSE, BuildFails

-----------------------------------------------------------------------------
(* Every step *)

LEMMA PassInvStart == Init => PassInv
<1> SUFFICES ASSUME Init  PROVE PassInv
  OBVIOUS
<1>1. source \in Seq(Lines) /\ Len(source) = 0
  BY DEF Init, NoWork
<1>2. \E S : stream \in Seq(S)
  <2>1. stream \in Seq(Lines)
    BY DEF Init, NoWork
  <2> QED
    BY <2>1
<1>3. line \in 1 .. Len(source) + 1
  BY <1>1 DEF Init, NoWork
<1>4. DOMAIN scope = {"active", "func", "size"} /\ scope.active = FALSE
  BY DEF Init, NoWork, Outside
<1>5. WorkTyped
  BY <1>1, <1>2, <1>3, <1>4 DEF WorkTyped, Init
<1> QED
  BY <1>5 DEF Init, NoWork, PassInv

LEMMA PassInvStep == PassInv /\ [Next]_vars => PassInv'
<1> SUFFICES ASSUME PassInv, [Next]_vars  PROVE PassInv'
  OBVIOUS
<1>1. CASE SecondPass
  BY <1>1, WriteInstrKeeps, EnterFunctionKeeps, LeaveFunctionKeeps, SkipOtherKeeps DEF SecondPass
<1>2. CASE UNCHANGED vars
  <2>1. WorkTyped'
    BY <1>2 DEF PassInv, WorkTyped, vars
  <2>2. FirstCounts => FirstCounts'
    BY <1>2, SameSource DEF FirstCounts, vars
  <2>3. SecondWrites => SecondWrites'
    BY <1>2, SameSource DEF SecondWrites, Slot, vars
  <2> QED
    BY <1>2, <2>1, <2>2, <2>3 DEF PassInv, vars
<1> QED
  BY <1>1, <1>2, ExecKeeps, CallsKeep, FirstPassKeeps, AllocateStreamKeeps, EndSecondPassKeeps,
     BuildsKeep DEF Next

\* AssmblSourceFile, whatever the source and whatever an earlier call has left: the
\* instructions of the second pass stay within the memory that the first one has
\* counted, and fill it, if the last function ends.
THEOREM StreamFitsHolds == Spec => []StreamFits
<1>1. Init => PassInv
  BY PassInvStart
<1>2. PassInv /\ [Next]_vars => PassInv'
  BY PassInvStep
<1>3. PassInv => StreamFits
  BY PassInvFits
<1> QED
  BY <1>1, <1>2, <1>3, PTL DEF Spec

-----------------------------------------------------------------------------
(* Looking up *)

LEMMA FirstOfIn ==
  ASSUME NEW S, S \subseteq Nat \ {0}
  PROVE  /\ FirstOf(S) = 0 <=> S = {}
         /\ FirstOf(S) # 0 => FirstOf(S) \in S /\ \A j \in S : FirstOf(S) <= j
<1>1. CASE S = {}
  BY <1>1 DEF FirstOf
<1>2. CASE S # {}
  <2>1. FirstOf(S) \in S /\ \A j \in S : FirstOf(S) <= j
    BY <1>2, FirstOfIsLeast
  <2> QED
    BY <1>2, <2>1
<1> QED
  BY <1>1, <1>2

TablesTyped ==
  /\ tables.funcs \in Seq(FuncNodes) /\ tables.labels \in Seq(LabelNodes)
  /\ tables.symbols \in Seq(SymbolNodes)
  /\ tables.strings \in Seq(Texts) /\ tables.apis \in Seq(Texts)

\* A position that is found is one of the table, and nothing is found only if there is
\* nothing to be found.
LEMMA FuncFound ==
  ASSUME TablesTyped, NEW name
  PROVE  /\ GetFuncByName(tables, name) \in 0 .. Len(tables.funcs)
         /\ GetFuncByName(tables, name) # 0 => tables.funcs[GetFuncByName(tables, name)].name = name
         /\ \A i \in 1 .. Len(tables.funcs) :
              tables.funcs[i].name = name => GetFuncByName(tables, name) # 0
<1> DEFINE S == {i \in DOMAIN tables.funcs : tables.funcs[i].name = name}
           p == GetFuncByName(tables, name)
<1>1. S \subseteq Nat \ {0} /\ p = FirstOf(S) /\ DOMAIN tables.funcs = 1 .. Len(tables.funcs)
  BY DEF GetFuncByName, TablesTyped
<1>2. (p = 0 <=> S = {}) /\ (p # 0 => p \in S)
  BY <1>1, FirstOfIn
<1> HIDE DEF p
<1>3. p \in 0 .. Len(tables.funcs) /\ (p # 0 => tables.funcs[p].name = name)
  BY <1>1, <1>2
<1>4. \A i \in 1 .. Len(tables.funcs) : tables.funcs[i].name = name => p # 0
  BY <1>1, <1>2
<1> QED
  BY <1>3, <1>4 DEF p

LEMMA LabelFound ==
  ASSUME TablesTyped, NEW name, NEW func
  PROVE  /\ GetLabelByIdent(tables, name, func) \in 0 .. Len(tables.labels)
         /\ GetLabelByIdent(tables, name, func) # 0 =>
              /\ tables.labels[GetLabelByIdent(tables, name, func)].name = name
              /\ tables.labels[GetLabelByIdent(tables, name, func)].func = func
<1> DEFINE S == {i \in DOMAIN tables.labels : tables.labels[i].name = name /\ tables.labels[i].func = func}
           p == GetLabelByIdent(tables, name, func)
<1>1. S \subseteq Nat \ {0} /\ p = FirstOf(S) /\ DOMAIN tables.labels = 1 .. Len(tables.labels)
  BY DEF GetLabelByIdent, TablesTyped
<1>2. p = 0 \/ p \in S
  BY <1>1, FirstOfIn
<1> HIDE DEF p
<1>3. \A i \in S : /\ i \in 1 .. Len(tables.labels)
                   /\ tables.labels[i].name = name /\ tables.labels[i].func = func
  BY <1>1, Zenon
<1>4. Len(tables.labels) \in Nat
  BY DEF TablesTyped
<1> HIDE DEF S
<1>5. p # 0 => /\ p \in 1 .. Len(tables.labels)
               /\ tables.labels[p].name = name /\ tables.labels[p].func = func
  BY <1>2, <1>3, Zenon
<1>6. p \in 0 .. Len(tables.labels)
  BY <1>4, <1>5
<1> QED
  BY <1>5, <1>6 DEF p

\* What GetSymbolByIdent takes for a variable of that name.
Matches(i, name) ==
  tables.symbols[i].name = name /\ (tables.symbols[i].func = scope.func \/ tables.symbols[i].index >= 0)

LEMMA SymbolFound ==
  ASSUME TablesTyped, NEW name
  PROVE  /\ Symbol(name) \in 0 .. Len(tables.symbols)
         /\ Symbol(name) # 0 => Matches(Symbol(name), name)
         /\ \A i \in 1 .. Len(tables.symbols) : Matches(i, name) => Symbol(name) # 0 /\ Symbol(name) <= i
<1> DEFINE S == {i \in DOMAIN tables.symbols : Matches(i, name)}
           p == Symbol(name)
<1>1. S \subseteq Nat \ {0} /\ DOMAIN tables.symbols = 1 .. Len(tables.symbols)
  BY DEF TablesTyped
<1>5. p = FirstOf(S)
  BY DEF GetSymbolByIdent, Symbol, Matches
<1>2. (p = 0 <=> S = {}) /\ (p # 0 => p \in S /\ \A j \in S : p <= j)
  BY <1>1, <1>5, FirstOfIn
<1> HIDE DEF p
<1>3. p \in 0 .. Len(tables.symbols) /\ (p # 0 => Matches(p, name))
  BY <1>1, <1>2
<1>4. \A i \in 1 .. Len(tables.symbols) : Matches(i, name) => p # 0 /\ p <= i
  BY <1>1, <1>2
<1> QED
  BY <1>3, <1>4 DEF p
-----------------------------------------------------------------------------
(* Recursive functions: the value of each step is computed from the last one. *)

IteratedOn(f, a, G, n) == f = [i \in 1 .. n |-> IF i = 1 THEN a ELSE G[i - 1][f[i - 1]]]

\* There is such a function.
LEMMA Iterated ==
  ASSUME NEW D, NEW a \in D, NEW G \in [Nat -> [D -> D]], NEW n \in Nat
  PROVE  \E f \in [1 .. n -> D] : IteratedOn(f, a, G, n)
<1> DEFINE Good(m, f) == \A i \in 1 .. m : f[i] = IF i = 1 THEN a ELSE G[i - 1][f[i - 1]]
           S == {m \in Nat : ~ \E f \in [1 .. m -> D] : Good(m, f)}
<1>1. S = {}
  <2> SUFFICES ASSUME S # {}  PROVE FALSE
    OBVIOUS
  <2>0. S \subseteq Nat
    OBVIOUS
  <2> HIDE DEF S
  <2>1. PICK m \in S : \A j \in S : m <= j
    BY <2>0, FirstOfIsLeast
  <2>2. CASE m = 0
    <3> DEFINE f == [i \in 1 .. m |-> a]
    <3>1. f \in [1 .. m -> D] /\ Good(m, f)
      BY <2>2
    <3> QED
      BY <2>1, <3>1 DEF S
  <2>3. CASE m # 0
    <3>1. m \in Nat /\ m - 1 \in Nat /\ m - 1 \notin S
      BY <2>0, <2>1, <2>3
    <3>2. PICK f \in [1 .. m - 1 -> D] : Good(m - 1, f)
      BY <3>1 DEF S
    <3> DEFINE v == IF m = 1 THEN a ELSE G[m - 1][f[m - 1]]
               g == [i \in 1 .. m |-> IF i = m THEN v ELSE f[i]]
    <3>3. v \in D
      <4>1. CASE m = 1
        BY <4>1
      <4>2. CASE m # 1
        <5>1. m - 1 \in Nat /\ f[m - 1] \in D
          BY <2>3, <3>1, <4>2
        <5> QED
          BY <4>2, <5>1
      <4> QED
        BY <4>1, <4>2
    <3> HIDE DEF v
    <3>4. g \in [1 .. m -> D]
      BY <3>1, <3>3
    <3>5. ASSUME NEW i \in 1 .. m
          PROVE  g[i] = IF i = 1 THEN a ELSE G[i - 1][g[i - 1]]
      <4>1. CASE i = m
        <5>1. i # 1 => g[i - 1] = f[m - 1]
          BY <3>1, <4>1
        <5> QED
          BY <4>1, <5>1 DEF v
      <4>2. CASE i # m
        <5>1. i \in 1 .. m - 1 /\ g[i] = f[i] /\ (i # 1 => g[i - 1] = f[i - 1])
          BY <3>1, <4>2
        <5> HIDE DEF g
        <5> QED
          BY <3>2, <5>1
      <4> QED
        BY <4>1, <4>2
    <3> HIDE DEF g
    <3> QED
      BY <2>1, <3>4, <3>5 DEF S
  <2> QED
    BY <2>2, <2>3
<1>2. PICK f \in [1 .. n -> D] : Good(n, f)
  BY <1>1
<1>3. IteratedOn(f, a, G, n)
  BY <1>2 DEF IteratedOn
<1> QED
  BY <1>3

\* What holds of the first value, and of each value if of the last one, holds of all.
LEMMA Inductively ==
  ASSUME NEW n \in Nat, NEW T \in SUBSET (1 .. n), n > 0 => 1 \in T,
         \A i \in 1 .. n - 1 : i \in T => i + 1 \in T
  PROVE  T = 1 .. n
<1> DEFINE S == (1 .. n) \ T
<1> SUFFICES ASSUME S # {}  PROVE FALSE
  OBVIOUS
<1>0. S \subseteq Nat /\ S \subseteq 1 .. n
  OBVIOUS
<1> HIDE DEF S
<1>1. PICK m \in S : \A j \in S : m <= j
  BY <1>0, FirstOfIsLeast
<1>2. m # 1
  BY <1>0, <1>1 DEF S
<1>3. m - 1 \in 1 .. n - 1 /\ m - 1 \notin S
  BY <1>0, <1>1, <1>2
<1>4. m - 1 \in T
  BY <1>3 DEF S
<1> QED
  BY <1>1, <1>3, <1>4 DEF S

\* Offsets, as equations.
LEMMA OffsetsAre ==
  ASSUME NEW list \in Seq(Texts)
  PROVE  /\ Offsets(list) \in [1 .. Len(list) + 1 -> Nat]
         /\ Offsets(list)[1] = 0
         /\ \A i \in 1 .. Len(list) : Offsets(list)[i + 1] = Offsets(list)[i] + Bytes[list[i]] + 4
<1> DEFINE n == Len(list) + 1
           Eq(f) == f = [i \in 1 .. n |-> IF i = 1 THEN 0 ELSE f[i - 1] + Bytes[list[i - 1]] + 4]
           b == [i \in Nat |-> IF i \in 1 .. Len(list) THEN Bytes[list[i]] ELSE 0]
           G == [i \in Nat |-> [x \in Nat |-> x + b[i] + 4]]
<1>1. b \in [Nat -> Nat]
  BY BytesAssumption
<1>2. G \in [Nat -> [Nat -> Nat]] /\ \A i, x \in Nat : G[i][x] = x + b[i] + 4
  <2> HIDE DEF b
  <2>1. \A i \in Nat : \A x \in Nat : x + b[i] + 4 \in Nat
    <3> SUFFICES ASSUME NEW i \in Nat, NEW x \in Nat  PROVE x + b[i] + 4 \in Nat
      OBVIOUS
    <3>1. b[i] \in Nat
      BY <1>1
    <3> QED
      BY <3>1
  <2> QED
    BY <2>1
<1>3. n \in Nat /\ 0 \in Nat /\ \A i \in 1 .. n : i # 1 => i - 1 \in 1 .. Len(list)
  OBVIOUS
<1>4. \A i \in 1 .. Len(list) : b[i] = Bytes[list[i]] /\ b[i] \in Nat
  BY <1>1
<1>0. n = Len(list) + 1
  OBVIOUS
<1> HIDE DEF G, b, n
<1>5. \E f : Eq(f)
  <2>1. PICK f \in [1 .. n -> Nat] : IteratedOn(f, 0, G, n)
    BY <1>2, <1>3, Iterated, Zenon
  <2>2. ASSUME NEW i \in 1 .. n, i # 1
        PROVE  G[i - 1][f[i - 1]] = f[i - 1] + Bytes[list[i - 1]] + 4
    <3>1. i - 1 \in 1 .. Len(list) /\ i - 1 \in Nat /\ i - 1 \in 1 .. n
      BY <1>0, <1>3, <2>2
    <3>2. f[i - 1] \in Nat
      BY <3>1
    <3>3. G[i - 1][f[i - 1]] = f[i - 1] + b[i - 1] + 4
      BY <1>2, <3>1, <3>2
    <3> QED
      BY <1>4, <3>1, <3>3
  <2>3. Eq(f)
    BY <2>1, <2>2 DEF IteratedOn
  <2> QED
    BY <2>3
<1>6. Offsets(list) = CHOOSE f : Eq(f)
  BY Zenon DEF Offsets, n
<1>7. Eq(Offsets(list))
  BY <1>5, <1>6, Zenon
<1> DEFINE o == Offsets(list)
<1> HIDE DEF o
<1>8. /\ o = [i \in 1 .. n |-> o[i]] /\ o[1] = 0
      /\ \A i \in 1 .. n : i # 1 => o[i] = o[i - 1] + Bytes[list[i - 1]] + 4
  <2>1. o = [i \in 1 .. n |-> IF i = 1 THEN 0 ELSE o[i - 1] + Bytes[list[i - 1]] + 4]
    BY <1>7 DEF o
  <2>2. 1 \in 1 .. n
    BY <1>0
  <2>3. DOMAIN o = 1 .. n /\ o[1] = 0
    BY <2>1, <2>2
  <2>4. o = [i \in 1 .. n |-> o[i]]
    BY <2>1
  <2> QED
    BY <2>1, <2>3, <2>4
<1>9. \A i \in 1 .. Len(list) : o[i + 1] = o[i] + Bytes[list[i]] + 4
  <2> SUFFICES ASSUME NEW i \in 1 .. Len(list)  PROVE o[i + 1] = o[i] + Bytes[list[i]] + 4
    OBVIOUS
  <2>1. i + 1 \in 1 .. n /\ i + 1 # 1 /\ (i + 1) - 1 = i
    BY <1>0
  <2> QED
    BY <1>8, <2>1
<1>10. {i \in 1 .. n : o[i] \in Nat} = 1 .. n
  <2> DEFINE T == {i \in 1 .. n : o[i] \in Nat}
  <2>1. 1 \in T
    BY <1>0, <1>8
  <2>2. ASSUME NEW i \in 1 .. n - 1, i \in T  PROVE i + 1 \in T
    <3>1. i \in 1 .. Len(list) /\ i + 1 \in 1 .. n /\ o[i] \in Nat
      BY <1>0, <1>3, <2>2
    <3>2. Bytes[list[i]] \in Nat
      BY <3>1, BytesAssumption
    <3> QED
      BY <1>9, <3>1, <3>2
  <2>4. T \in SUBSET (1 .. n)
    OBVIOUS
  <2> HIDE DEF T
  <2>3. T = 1 .. n
    BY <1>3, <2>1, <2>2, <2>4, Inductively
  <2> QED
    BY <2>3 DEF T
<1>11. o \in [1 .. n -> Nat]
  BY <1>8, <1>10
<1> QED
  BY <1>8, <1>9, <1>11 DEF o, n

-----------------------------------------------------------------------------
(* Tokens *)

\* A token that is there is one of its line, and has a lexeme of its type.
LEMMA TokenIs ==
  ASSUME source \in Seq(Lines), NEW l, NEW i, TypeAt(l, i) # "INVALID"
  PROVE  /\ l \in DOMAIN source /\ i \in DOMAIN source[l] /\ source[l][i].type = TypeAt(l, i)
         /\ source[l] \in Lines /\ IsLine(source[l])
         /\ TypeAt(l, i) \in {"INT", "REG"} => source[l][i].lexeme \in Int
         /\ TypeAt(l, i) \in {"IDENT", "STRING"} => source[l][i].lexeme \in Texts
         /\ TypeAt(l, i) = "INSTR" => source[l][i].lexeme \in Mnemonics
         /\ TypeAt(l, i) = "NEWLINE" <=> i = Len(source[l])
<1>1. l \in DOMAIN source /\ i \in DOMAIN source[l] /\ source[l][i].type = TypeAt(l, i)
  BY DEF TypeAt
<1>2. source[l] \in Lines
  BY <1>1
<1>3. IsLine(source[l])
  BY <1>2, LinesAssumption
<1> QED
  BY <1>1, <1>2, <1>3 DEF IsLine
-----------------------------------------------------------------------------
(* Instructions *)

LEMMA AcceptsAre ==
  ASSUME NEW mn \in Mnemonics
  PROVE  /\ Len(InstrTable[mn]) \in 0 .. 3 /\ DOMAIN InstrTable[mn] = 1 .. Len(InstrTable[mn])
         /\ mn \in JumpOps => /\ Len(InstrTable[mn]) > 0
                              /\ InstrTable[mn][Len(InstrTable[mn])] = {"LINE_LABEL"}
         /\ mn = "CALL" => Len(InstrTable[mn]) = 1 /\ InstrTable[mn][1] = {"FUNC_NAME"}
         /\ mn = "CALLCORE" => Len(InstrTable[mn]) = 1 /\ InstrTable[mn][1] = {"CORE_API_CALL"}
         /\ \A k \in 1 .. Len(InstrTable[mn]) :
              \/ "MEM_REF" \in InstrTable[mn][k]
              \/ InstrTable[mn][k] = {"LINE_LABEL"} /\ mn \in JumpOps /\ k = Len(InstrTable[mn])
              \/ InstrTable[mn][k] = {"FUNC_NAME"} /\ mn = "CALL"
              \/ InstrTable[mn][k] = {"CORE_API_CALL"} /\ mn = "CALLCORE"
<1> DEFINE A == InstrTable[mn]
<1>1. mn \in {"MOV", "ADD", "SUB", "MUL", "DIV", "JMP", "JE", "JNE", "JG", "JL", "PUSH", "POP",
              "CALL", "RET", "CALLCORE", "PAUSE", "QUIT"}
  BY DEF Mnemonics, InstrTable
<1>2. CASE mn \in {"MOV", "ADD", "SUB", "MUL", "DIV"}
  <2>1. PICK x, y : A = <<x, y>> /\ "MEM_REF" \in x /\ "MEM_REF" \in y
    BY <1>2 DEF InstrTable, Target, Source, Variable
  <2> QED
    BY <1>2, <2>1 DEF JumpOps
<1>3. CASE mn = "JMP"
  <2>1. A = << {"LINE_LABEL"} >>
    BY <1>3 DEF InstrTable
  <2> QED
    BY <1>3, <2>1 DEF JumpOps
<1>4. CASE mn \in {"JE", "JNE", "JG", "JL"}
  <2>1. PICK x, y : A = <<x, y, {"LINE_LABEL"} >> /\ "MEM_REF" \in x /\ "MEM_REF" \in y
    BY <1>4 DEF InstrTable, Source
  <2> QED
    BY <1>4, <2>1 DEF JumpOps
<1>5. CASE mn \in {"PUSH", "POP", "PAUSE"}
  <2>1. PICK x : A = <<x>> /\ "MEM_REF" \in x
    BY <1>5 DEF InstrTable, Target, Source
  <2> QED
    BY <1>5, <2>1 DEF JumpOps
<1>6. CASE mn = "CALL"
  <2>1. A = << {"FUNC_NAME"} >>
    BY <1>6 DEF InstrTable
  <2> QED
    BY <1>6, <2>1 DEF JumpOps
<1>8. CASE mn = "CALLCORE"
  <2>1. A = << {"CORE_API_CALL"} >>
    BY <1>8 DEF InstrTable
  <2> QED
    BY <1>8, <2>1 DEF JumpOps
<1>7. CASE mn \in {"RET", "QUIT"}
  <2>1. A = <<>>
    BY <1>7 DEF InstrTable
  <2> QED
    BY <1>7, <2>1 DEF JumpOps
<1> QED
  BY <1>1, <1>2, <1>3, <1>4, <1>5, <1>6, <1>7, <1>8

\* An operand begins 2 tokens after the one before it, or 5, if that is an element.
Width(k, i) == IF Indexed(k, i) THEN 5 ELSE 2

LEMMA StartIs ==
  /\ Start(1) = 2
  /\ Start(2) = 2 + Width(1, 2)
  /\ Start(3) = Start(2) + Width(2, Start(2))
<1> DEFINE Eq(n, s) == s = [i \in 1 .. n |-> IF i = 1 THEN 2 ELSE s[i - 1] + IF Indexed(i - 1, s[i - 1]) THEN 5 ELSE 2]
           u == 2 + Width(1, 2)
           v == u + Width(2, u)
<1>1. ASSUME NEW n \in 1 .. 3
      PROVE  LET s == CHOOSE s : Eq(n, s)
             IN  /\ s[1] = 2
                 /\ n > 1 => s[2] = u
                 /\ n > 2 => s[3] = v
  <2> DEFINE r == [i \in 1 .. n |-> IF i = 1 THEN 2 ELSE IF i = 2 THEN u ELSE v]
  <2>1. Eq(n, r)
    <3>1. ASSUME NEW i \in 1 .. n
          PROVE  r[i] = IF i = 1 THEN 2 ELSE r[i - 1] + IF Indexed(i - 1, r[i - 1]) THEN 5 ELSE 2
      <4>1. CASE i = 1
        BY <4>1
      <4>2. CASE i = 2
        <5>1. r[i - 1] = 2 /\ i - 1 = 1 /\ r[i] = u
          BY <4>2
        <5> HIDE DEF r
        <5> QED
          BY <4>2, <5>1 DEF Width
      <4>3. CASE i = 3
        <5>1. r[i - 1] = u /\ i - 1 = 2 /\ r[i] = v
          BY <4>3
        <5> HIDE DEF r, u
        <5> QED
          BY <4>3, <5>1 DEF Width
      <4> QED
        BY <4>1, <4>2, <4>3
    <3> QED
      BY <3>1
  <2> DEFINE s == CHOOSE s : Eq(n, s)
  <2>2. Eq(n, s)
    BY <2>1, Zenon
  <2> HIDE DEF s
  <2>3. \A i \in 1 .. n : s[i] = IF i = 1 THEN 2 ELSE s[i - 1] + IF Indexed(i - 1, s[i - 1]) THEN 5 ELSE 2
    BY <2>2
  <2>4. s[1] = 2
    BY <2>3
  <2>5. n > 1 => s[2] = u
    <3>1. n > 1 => 2 \in 1 .. n /\ 2 - 1 = 1
      OBVIOUS
    <3> QED
      BY <2>3, <2>4, <3>1 DEF Width
  <2>6. n > 2 => s[3] = v
    <3>1. n > 2 => 3 \in 1 .. n /\ 3 - 1 = 2
      OBVIOUS
    <3> HIDE DEF u
    <3> QED
      BY <2>3, <2>5, <3>1 DEF Width
  <2> HIDE DEF u, v
  <2> QED
    BY <2>4, <2>5, <2>6 DEF s
<1>2. \A n : Start(n) = (CHOOSE s : Eq(n, s))[n]
  BY Zenon DEF Start
<1>3. Start(1) = 2 /\ Start(2) = u /\ Start(3) = v
  <2> HIDE DEF Eq, u, v
  <2> QED
    BY <1>1, <1>2
<1> QED
  BY <1>3

\* An instruction that is let pass: its operands, the commas between them, and the end
\* of the line behind the last one.
LEMMA InstrPasses ==
  ASSUME InstrError = "NO_ERR", Lexeme(1) \in Mnemonics
  PROVE  /\ \A k \in 1 .. Len(Accepts) : OperandError(k) = "NO_ERR"
         /\ \A k \in 1 .. Len(Accepts) - 1 : Type(Start(k + 1) - 1) = "COMMA"
         /\ LET last == Len(Accepts) IN
            Type(IF last = 0 THEN 2
                 ELSE Start(last) + IF Indexed(last, Start(last)) THEN 4 ELSE 1) = "NEWLINE"
<1> DEFINE S == {i \in DOMAIN Accepts : Faulty(i)}
           k == FirstOf(S)
<1>1. DOMAIN Accepts = 1 .. Len(Accepts) /\ Len(Accepts) \in Nat
  BY AcceptsAre DEF Accepts
<1>2. S \subseteq Nat \ {0}
  BY <1>1
<1>3. k = 0
  BY Zenon DEF InstrError
<1>4. S = {}
  BY <1>2, <1>3, FirstOfIn
<1>5. \A i \in 1 .. Len(Accepts) : ~Faulty(i)
  BY <1>1, <1>4
<1>6. Type(IF Len(Accepts) = 0 THEN 2
           ELSE Start(Len(Accepts)) + IF Indexed(Len(Accepts), Start(Len(Accepts))) THEN 4 ELSE 1) = "NEWLINE"
  BY <1>3, Zenon DEF InstrError
<1>7. \A i \in 1 .. Len(Accepts) : OperandError(i) = "NO_ERR"
  BY <1>5 DEF Faulty
<1>8. \A i \in 1 .. Len(Accepts) - 1 : Type(Start(i + 1) - 1) = "COMMA"
  <2>1. \A i \in 1 .. Len(Accepts) - 1 : i \in 1 .. Len(Accepts) /\ i < Len(Accepts)
    BY <1>1
  <2> QED
    BY <1>5, <2>1 DEF Faulty
<1> QED
  BY <1>6, <1>7, <1>8

LEMMA StringOffsetIsNat ==
  ASSUME NEW list \in Seq(Texts), NEW s
  PROVE  StringOffset(list, s) \in Nat
<1>1. Positions(list, s) \subseteq 1 .. Len(list)
  BY DEF Positions
<1>2. Positions(list, s) # {} => FirstOf(Positions(list, s)) \in 1 .. Len(list)
  BY <1>1, FirstOfIsLeast
<1>3. (IF Positions(list, s) = {} THEN Len(list) + 1 ELSE FirstOf(Positions(list, s)))
        \in 1 .. Len(list) + 1
  BY <1>2
<1> QED
  BY <1>3, OffsetsAre DEF StringOffset

\* An operand that is let pass.
LEMMA OperandTyped ==
  ASSUME source \in Seq(Lines), TablesTyped, Lexeme(1) \in Mnemonics,
         NEW k \in 1 .. Len(Accepts), OperandError(k) = "NO_ERR"
  PROVE  OperandOf(k) \in Ops
<1> DEFINE i == Start(k)
<1>1. CASE Type(i) \in {"INT", "REG"}
  <2>1. Lexeme(i) \in Int
    BY <1>1, TokenIs DEF Lexeme, Type
  <2>2. OperandOf(k) = [type |-> Type(i), value |-> Lexeme(i)]
    BY <1>1 DEF OperandOf
  <2> QED
    BY <1>1, <2>1, <2>2 DEF Ops, OperandTypes
<1>2. CASE Type(i) \notin {"INT", "REG"}
  <2>1. Type(i) = "IDENT"
    BY <1>2 DEF OperandError
  <2>2. Lexeme(i) \in Texts
    BY <2>1, TokenIs DEF Lexeme, Type
  <2>3. CASE "MEM_REF" \in Accepts[k]
    <3> DEFINE s == Symbol(Lexeme(i))
               node == tables.symbols[s]
    <3>1. OperandOf(k) = VariableOperand(i, Indexed(k, i)) /\ VariableError(i, Indexed(k, i)) = "NO_ERR"
      BY <1>2, <2>1, <2>3 DEF OperandOf, OperandError
    <3>2. s # 0
      BY <3>1 DEF VariableError
    <3>3. \A x : Symbol(x) # 0 => tables.symbols[Symbol(x)] \in SymbolNodes
      <4> SUFFICES ASSUME NEW x, Symbol(x) # 0  PROVE tables.symbols[Symbol(x)] \in SymbolNodes
        OBVIOUS
      <4>1. Symbol(x) \in 0 .. Len(tables.symbols)
        BY SymbolFound
      <4> QED
        BY <4>1 DEF TablesTyped
    <3>4. node \in SymbolNodes
      BY <3>2, <3>3
    <3>5. CASE ~Indexed(k, i)
      <4>1. OperandOf(k) \in {[type |-> "STRING_REF", value |-> node.value],
                              [type |-> "ABS_STACK_INDEX", value |-> node.index]}
        BY <3>1, <3>5 DEF VariableOperand
      <4>2. node.value \in Int /\ node.index \in Int
        BY <3>4 DEF SymbolNodes
      <4> QED
        BY <4>1, <4>2 DEF Ops, OperandTypes
    <3>6. CASE Indexed(k, i) /\ Type(i + 2) = "INT"
      <4>1. Lexeme(i + 2) \in Int
        BY <3>6, TokenIs DEF Lexeme, Type
      <4>2. OperandOf(k) = [type |-> "ABS_STACK_INDEX", value |-> node.index + Lexeme(i + 2)]
        BY <3>1, <3>6 DEF VariableOperand
      <4>3. node.index + Lexeme(i + 2) \in Int
        BY <3>4, <4>1 DEF SymbolNodes
      <4> QED
        BY <4>2, <4>3 DEF Ops, OperandTypes
    <3>7. CASE Indexed(k, i) /\ Type(i + 2) # "INT"
      <4>1. Type(i + 2) = "IDENT" /\ Symbol(Lexeme(i + 2)) # 0
        BY <3>1, <3>2, <3>7 DEF VariableError
      <4>2. tables.symbols[Symbol(Lexeme(i + 2))] \in SymbolNodes
        BY <3>3, <4>1
      <4>3. OperandOf(k) = [type |-> "REL_STACK_INDEX", value |-> node.index,
                            offset |-> tables.symbols[Symbol(Lexeme(i + 2))].index]
        BY <3>1, <3>7 DEF VariableOperand
      <4> QED
        BY <3>4, <4>2, <4>3 DEF Ops, SymbolNodes
    <3> QED
      BY <3>5, <3>6, <3>7
  <2>4. CASE "MEM_REF" \notin Accepts[k]
    <3>1. OperandOf(k) = NameOperand(i, Accepts[k]) /\ NameError(i, Accepts[k]) = "NO_ERR"
      BY <1>2, <2>1, <2>4 DEF OperandOf, OperandError
    <3>2. Accepts[k] \in { {"LINE_LABEL"}, {"FUNC_NAME"}, {"CORE_API_CALL"} }
      BY <2>4, AcceptsAre DEF Accepts
    <3>3. CASE Accepts[k] = {"LINE_LABEL"}
      <4> DEFINE p == GetLabelByIdent(tables, Lexeme(i), scope.func)
      <4>1. p # 0
        BY <3>1, <3>3 DEF NameError
      <4>2. p \in 1 .. Len(tables.labels)
        BY <4>1, LabelFound
      <4>5. tables.labels[p] \in LabelNodes
        BY <4>2 DEF TablesTyped
      <4>3. tables.labels[p].target \in Nat
        BY <4>5 DEF LabelNodes
      <4>4. OperandOf(k) = [type |-> "INSTR_INDEX", value |-> tables.labels[p].target]
        BY <3>1, <3>3 DEF NameOperand
      <4> QED
        BY <4>3, <4>4 DEF Ops, OperandTypes
    <3>4. CASE Accepts[k] = {"FUNC_NAME"}
      <4>1. GetFuncByName(tables, Lexeme(i)) \in Int
        BY FuncFound
      <4>2. OperandOf(k) = [type |-> "FUNC_INDEX", value |-> GetFuncByName(tables, Lexeme(i)) - 1]
        BY <3>1, <3>4 DEF NameOperand
      <4> QED
        BY <4>1, <4>2 DEF Ops, OperandTypes
    <3>5. CASE Accepts[k] = {"CORE_API_CALL"}
      <4>1. StringOffset(tables.apis, Lexeme(i)) \in Nat
        BY StringOffsetIsNat DEF TablesTyped
      <4>2. OperandOf(k) = [type |-> "HOST_API_CALL_INDEX", value |-> StringOffset(tables.apis, Lexeme(i))]
        BY <3>1, <3>5 DEF NameOperand
      <4> QED
        BY <4>1, <4>2 DEF Ops, OperandTypes
    <3> QED
      BY <3>2, <3>3, <3>4, <3>5
  <2> QED
    BY <2>3, <2>4
<1> QED
  BY <1>1, <1>2

-----------------------------------------------------------------------------
(* Types *)

Scopes  == [active: BOOLEAN, func: Int, size: Nat]
Headers == [stack: Int, found: BOOLEAN, globals: Nat, main: Int]
Heaps   == [source: {"null", "live", "freed"}, stream: {"null", "live", "freed"}]

\* What WorkTyped does not say.
RestTyped ==
  /\ phase \in {"idle", "first", "second", "build", "aborted"}
  /\ result \in ErrorCodes /\ calls \in 0 .. Len(Files)
  /\ scope \in Scopes /\ header \in Headers /\ streamSize \in Nat /\ stream \in Seq(Instrs)
  /\ tables \in Tables /\ heap \in Heaps
  /\ phase = "first" /\ scope.active => scope.func \in Nat

LEMMA TypeParts == PassInv /\ RestTyped => TypeOK
BY DEF PassInv, WorkTyped, RestTyped, TypeOK, Scopes, Headers, Heaps

LEMMA TablesAre ==
  ASSUME RestTyped
  PROVE  /\ TablesTyped
         /\ tables = [funcs |-> tables.funcs, labels |-> tables.labels, symbols |-> tables.symbols,
                      strings |-> tables.strings, apis |-> tables.apis]
BY DEF RestTyped, Tables, TablesTyped

LEMMA EmptyTyped == NoTables \in Tables /\ \A j \in Int : Outside(j) \in Scopes
<1>1. \A S : <<>> \in Seq(S)
  OBVIOUS
<1> QED
  BY <1>1 DEF NoTables, Tables, Outside, Scopes

LEMMA ReturnTyped ==
  ASSUME RestTyped, NEW err \in ErrorCodes, Return(err), calls' \in 0 .. Len(Files),
         header' \in Headers, heap' \in Heaps
  PROVE  RestTyped'
<1>1. scope' = Outside(-1) /\ scope' \in Scopes /\ tables' \in Tables
  BY EmptyTyped DEF Return
<1>2. stream' \in Seq(Instrs) /\ streamSize' \in Nat
  BY DEF Return
<1> QED
  BY <1>1, <1>2 DEF Return, RestTyped, Outside

LEMMA AbortTyped ==
  ASSUME RestTyped, Abort, calls' \in 0 .. Len(Files), header' \in Headers
  PROVE  RestTyped'
BY DEF Abort, RestTyped, work

LEMMA ExitTyped ==
  ASSUME RestTyped, NEW err \in ErrorCodes, ExitOnError(err), calls' \in 0 .. Len(Files),
         header' \in Headers
  PROVE  RestTyped'
<1>1. ShutDown => heap' \in Heaps
  BY DEF ShutDown, Freed, Heaps, RestTyped
<1> QED
  BY <1>1, ReturnTyped, AbortTyped DEF ExitOnError

LEMMA RefusedTyped ==
  ASSUME RestTyped, NEW err \in ErrorCodes, Refused(err)
  PROVE  RestTyped'
BY ExitTyped DEF Refused, RestTyped

LEMMA LineTyped ==
  ASSUME RestTyped, Passes("NO_ERR"), scope' \in Scopes, header' \in Headers,
         streamSize' \in Nat, stream' \in Seq(Instrs), tables' \in Tables,
         phase = "first" /\ scope'.active => scope'.func \in Nat
  PROVE  RestTyped'
BY DEF Passes, RestTyped

LEMMA SetStackSizeTyped == PassInv /\ RestTyped /\ SetStackSize => RestTyped'
<1> SUFFICES ASSUME PassInv, RestTyped, SetStackSize  PROVE RestTyped'
  OBVIOUS
<1>1. CASE Refused(SetStackSizeError)
  <2>1. SetStackSizeError \in ErrorCodes
    BY DEF SetStackSizeError, ErrorCodes
  <2> QED
    BY <1>1, <2>1, RefusedTyped
<1>2. CASE /\ Passes(SetStackSizeError)
           /\ header' = [header EXCEPT !.stack = Lexeme(2), !.found = TRUE]
           /\ UNCHANGED <<scope, streamSize, stream, tables>>
  <2>1. Passes("NO_ERR") /\ Type(2) = "INT"
    BY <1>2 DEF Passes, SetStackSizeError
  <2>2. Lexeme(2) \in Int
    BY <2>1, TokenIs DEF Lexeme, Type, PassInv, WorkTyped
  <2>3. header' \in Headers
    BY <1>2, <2>2 DEF RestTyped, Headers
  <2> QED
    BY <1>2, <2>1, <2>3, LineTyped DEF RestTyped
<1> QED
  BY <1>1, <1>2 DEF SetStackSize

LEMMA WithStringTyped ==
  ASSUME NEW list \in Seq(Texts), NEW s \in Texts
  PROVE  WithString(list, s) \in Seq(Texts)
BY DEF WithString

LEMMA AddSymbolTyped ==
  ASSUME NEW t \in Tables, NEW y \in SymbolNodes
  PROVE  AddSymbol(t, y) \in Tables
<1>1. Append(t.symbols, y) \in Seq(SymbolNodes)
  BY DEF Tables
<1> QED
  BY <1>1 DEF AddSymbol, Tables

LEMMA DefineStringTyped == PassInv /\ RestTyped /\ DefineString => RestTyped'
<1> SUFFICES ASSUME PassInv, RestTyped, DefineString  PROVE RestTyped'
  OBVIOUS
<1>1. CASE Refused(DefineStringError)
  <2>1. DefineStringError \in ErrorCodes
    BY DEF DefineStringError, ErrorCodes
  <2> QED
    BY <1>1, <2>1, RefusedTyped
<1>2. CASE Passes(DefineStringError) /\ ~Refused(DefineStringError)
  <2>1. Passes("NO_ERR") /\ Type(2) = "IDENT" /\ source \in Seq(Lines)
    BY <1>2 DEF Passes, DefineStringError, PassInv, WorkTyped
  <2>2. Lexeme(2) \in Texts /\ (Type(4) = "STRING" => Lexeme(4) \in Texts)
    BY <2>1, TokenIs DEF Lexeme, Type
  <2>3. /\ header' = [header EXCEPT !.globals = @ + 4]
        /\ UNCHANGED <<scope, streamSize, stream>>
    BY <1>2 DEF DefineString
  <2>4. header' \in Headers
    <3>1. header \in Headers
      BY DEF RestTyped
    <3>2. header.globals + 4 \in Nat
      BY <3>1 DEF Headers
    <3> QED
      BY <2>3, <3>1, <3>2 DEF Headers
  <2> DEFINE known == IF Type(4) = "STRING"
                      THEN [tables EXCEPT !.strings = WithString(@, Lexeme(4))]
                      ELSE tables
             node(v) == [name |-> Lexeme(2), type |-> "STRING_REF", value |-> v, isArr |-> FALSE,
                         size |-> 4, index |-> header.globals, func |-> scope.func]
  <2>5. PICK v \in IF Type(4) = "STRING" THEN {StringOffset(tables.strings, Lexeme(4))} ELSE Junk :
             tables' = AddSymbol(known, node(v))
    BY <1>2, Zenon DEF DefineString
  <2>6. v \in Int
    <3>1. tables.strings \in Seq(Texts)
      BY DEF RestTyped, Tables
    <3>2. Type(4) = "STRING" => StringOffset(tables.strings, Lexeme(4)) \in Nat
      BY <2>2, <3>1, StringOffsetIsNat
    <3>3. CASE Type(4) = "STRING"
      BY <2>5, <3>2, <3>3
    <3>4. CASE Type(4) # "STRING"
      BY <2>5, <3>4, JunkAssumption
    <3> QED
      BY <3>3, <3>4
  <2>7. known \in Tables
    BY <2>2, WithStringTyped DEF RestTyped, Tables
  <2>8. node(v) \in SymbolNodes
    BY <2>2, <2>6 DEF RestTyped, Headers, Scopes, SymbolNodes
  <2> HIDE DEF known, node
  <2>9. tables' \in Tables
    BY <2>5, <2>7, <2>8, AddSymbolTyped
  <2> QED
    BY <2>1, <2>3, <2>4, <2>9, LineTyped DEF RestTyped
<1> QED
  BY <1>1, <1>2 DEF DefineString

LEMMA DefineIntTyped == PassInv /\ RestTyped /\ DefineInt => RestTyped'
<1> SUFFICES ASSUME PassInv, RestTyped, DefineInt  PROVE RestTyped'
  OBVIOUS
<1>1. CASE Refused(DefineIntError)
  <2>1. DefineIntError \in ErrorCodes
    BY DEF DefineIntError, ErrorCodes
  <2> QED
    BY <1>1, <2>1, RefusedTyped
<1>2. CASE Passes(DefineIntError) /\ ~Refused(DefineIntError)
  <2>1. Passes("NO_ERR") /\ Type(2) = "IDENT" /\ source \in Seq(Lines)
        /\ (IsArray => Type(4) = "INT" /\ ~ (Lexeme(4) <= 0))
    BY <1>2 DEF Passes, DefineIntError, PassInv, WorkTyped
  <2>2. Lexeme(2) \in Texts /\ (IsArray => Lexeme(4) \in Int)
    BY <2>1, TokenIs DEF Lexeme, Type
  <2> DEFINE size == IF IsArray THEN 4 * Lexeme(4) ELSE 4
             node == [name |-> Lexeme(2), type |-> "INT", value |-> 0, isArr |-> IsArray, size |-> size,
                      index |-> IF scope.active THEN LocalIndex(size) ELSE header.globals,
                      func |-> scope.func]
  <2>3. size \in Nat
    BY <2>1, <2>2
  <2>4. /\ tables' = AddSymbol(tables, node)
        /\ scope' = [scope EXCEPT !.size = IF scope.active THEN @ + size ELSE @]
        /\ header' = [header EXCEPT !.globals = IF scope.active THEN @ ELSE @ + size]
        /\ UNCHANGED <<streamSize, stream>>
    BY <1>2, Zenon DEF DefineInt
  <2> HIDE DEF size
  <2>5. header' \in Headers /\ scope' \in Scopes /\ scope'.active = scope.active /\ scope'.func = scope.func
    <3>1. header \in Headers /\ scope \in Scopes
      BY DEF RestTyped
    <3>2. header.globals + size \in Nat /\ scope.size + size \in Nat
      BY <2>3, <3>1 DEF Headers, Scopes
    <3> QED
      BY <2>4, <3>1, <3>2 DEF Headers, Scopes
  <2>6. node \in SymbolNodes
    <3>1. node.index \in Int /\ node.isArr \in BOOLEAN
      BY <2>3 DEF LocalIndex, RestTyped, Scopes, Headers, IsArray
    <3> QED
      BY <2>2, <2>3, <3>1 DEF RestTyped, Scopes, SymbolNodes
  <2> HIDE DEF node
  <2>7. tables' \in Tables
    BY <2>4, <2>6, AddSymbolTyped DEF RestTyped
  <2> QED
    BY <2>1, <2>4, <2>5, <2>7, LineTyped DEF RestTyped
<1> QED
  BY <1>1, <1>2 DEF DefineInt

LEMMA BeginFunctionTyped == PassInv /\ RestTyped /\ BeginFunction => RestTyped'
<1> SUFFICES ASSUME PassInv, RestTyped, BeginFunction  PROVE RestTyped'
  OBVIOUS
<1>1. CASE Refused(BeginFunctionError)
  <2>1. BeginFunctionError \in ErrorCodes
    BY DEF BeginFunctionError, ErrorCodes
  <2> QED
    BY <1>1, <2>1, RefusedTyped
<1>2. ASSUME header' = [header EXCEPT !.main = MainIndex]  PROVE header' \in Headers
  <2>1. MainIndex \in Int
    BY DEF MainIndex, NewIndex, RestTyped, Headers, Tables
  <2> QED
    BY <1>2, <2>1 DEF RestTyped, Headers
<1>3. CASE ExitOnError("CHAR_EXPECTED") /\ header' \in Headers /\ UNCHANGED <<calls, sourceSize>>
  <2>1. "CHAR_EXPECTED" \in ErrorCodes
    BY DEF ErrorCodes
  <2> QED
    BY <1>3, <2>1, ExitTyped DEF RestTyped
<1>4. CASE Abort /\ header' \in Headers /\ UNCHANGED <<calls, sourceSize>>
  BY <1>4, AbortTyped DEF RestTyped
<1>5. CASE /\ Passes(BeginFunctionError)
           /\ \E j \in Junk : tables' = AddFunc(tables, Lexeme(2), streamSize, j)
           /\ header' \in Headers
           /\ scope' = [active |-> TRUE, func |-> NewIndex(tables.funcs), size |-> 0]
           /\ streamSize' = RoomForEnd
           /\ UNCHANGED stream
  <2>1. Passes("NO_ERR") /\ Type(2) = "IDENT" /\ source \in Seq(Lines)
    BY <1>5 DEF Passes, BeginFunctionError, PassInv, WorkTyped
  <2>2. Lexeme(2) \in Texts
    BY <2>1, TokenIs DEF Lexeme, Type
  <2>3. PICK j \in Junk : tables' = AddFunc(tables, Lexeme(2), streamSize, j)
    BY <1>5
  <2>4. tables' \in Tables
    <3>1. [name |-> Lexeme(2), entry |-> streamSize, size |-> j] \in FuncNodes
      BY <2>2, JunkAssumption DEF FuncNodes, RestTyped
    <3>2. Append(tables.funcs, [name |-> Lexeme(2), entry |-> streamSize, size |-> j]) \in Seq(FuncNodes)
      BY <3>1 DEF RestTyped, Tables
    <3> QED
      BY <2>3, <3>2 DEF AddFunc, RestTyped, Tables
  <2>5. scope' \in Scopes /\ scope'.func \in Nat
    BY <1>5 DEF NewIndex, Scopes, RestTyped, Tables
  <2>6. streamSize' \in Nat /\ stream' \in Seq(Instrs)
    BY <1>5 DEF RoomForEnd, RestTyped
  <2> QED
    BY <1>5, <2>1, <2>4, <2>5, <2>6, LineTyped
<1> QED
  BY <1>1, <1>2, <1>3, <1>4, <1>5 DEF BeginFunction

LEMMA EndFunctionTyped == PassInv /\ RestTyped /\ EndFunction => RestTyped'
<1> SUFFICES ASSUME PassInv, RestTyped, EndFunction  PROVE RestTyped'
  OBVIOUS
<1>1. CASE Refused(EndFunctionError)
  <2>1. EndFunctionError \in ErrorCodes
    BY DEF EndFunctionError, ErrorCodes
  <2> QED
    BY <1>1, <2>1, RefusedTyped
<1>2. CASE /\ Passes(EndFunctionError)
           /\ tables' = SetFuncInfo(tables, scope.func + 1, scope.size)
           /\ scope' = [scope EXCEPT !.active = FALSE]
           /\ UNCHANGED <<header, streamSize, stream>>
  <2>1. Passes("NO_ERR")
    BY <1>2 DEF Passes
  <2>2. scope' \in Scopes /\ scope'.active = FALSE /\ scope.size \in Nat
    BY <1>2 DEF RestTyped, Scopes
  <2> DEFINE i == scope.func + 1
             funcs == [tables.funcs EXCEPT ![i].size = scope.size]
  <2>3. funcs \in Seq(FuncNodes)
    <3>1. tables.funcs \in Seq(FuncNodes)
      BY DEF RestTyped, Tables
    <3>2. i \in DOMAIN tables.funcs => [tables.funcs[i] EXCEPT !.size = scope.size] \in FuncNodes
      <4>1. i \in DOMAIN tables.funcs => tables.funcs[i] \in FuncNodes
        BY <3>1
      <4> QED
        BY <2>2, <4>1 DEF FuncNodes
    <3> HIDE DEF i
    <3>3. /\ DOMAIN funcs = 1 .. Len(tables.funcs) /\ Len(tables.funcs) \in Nat
          /\ \A k \in 1 .. Len(tables.funcs) : funcs[k] \in FuncNodes
      BY <3>1, <3>2
    <3>4. funcs = [k \in 1 .. Len(tables.funcs) |-> funcs[k]]
      BY <3>1, <3>3
    <3> HIDE DEF funcs
    <3> QED
      BY <3>3, <3>4
  <2>4. tables' \in Tables
    <3>1. tables' = [tables EXCEPT !.funcs = funcs]
      BY <1>2, TablesAre DEF SetFuncInfo
    <3> HIDE DEF funcs
    <3> QED
      BY <2>3, <3>1 DEF RestTyped, Tables
  <2> QED
    BY <1>2, <2>1, <2>2, <2>4, LineTyped DEF RestTyped
<1> QED
  BY <1>1, <1>2 DEF EndFunction

LEMMA CountInstrTyped == PassInv /\ RestTyped /\ CountInstr => RestTyped'
<1> SUFFICES ASSUME PassInv, RestTyped, CountInstr  PROVE RestTyped'
  OBVIOUS
<1>1. CASE Refused(CountInstrError)
  <2>1. CountInstrError \in ErrorCodes
    BY DEF CountInstrError, ErrorCodes
  <2> QED
    BY <1>1, <2>1, RefusedTyped
<1>2. CASE /\ Passes(CountInstrError) /\ streamSize' = streamSize + 1
           /\ UNCHANGED <<scope, header, stream, tables>>
  <2>1. Passes("NO_ERR") /\ streamSize' \in Nat
    BY <1>2 DEF Passes, RestTyped
  <2> QED
    BY <1>2, <2>1, LineTyped DEF RestTyped
<1> QED
  BY <1>1, <1>2 DEF CountInstr

\* The room for the end of the function has been counted.
LEMMA RoomCounted ==
  ASSUME PassInv, phase = "first", scope.active
  PROVE  streamSize - 1 \in Nat
<1>1. Before(line, "INSTR") \in Nat /\ Before(line, "CLOSE_BRACE") \in Nat
  BY BeforeIsNat DEF PassInv, WorkTyped
<1> QED
  BY <1>1 DEF PassInv, FirstCounts

LEMMA DefineLabelTyped == PassInv /\ RestTyped /\ DefineLabel => RestTyped'
<1> SUFFICES ASSUME PassInv, RestTyped, DefineLabel  PROVE RestTyped'
  OBVIOUS
<1>1. CASE Refused(DefineLabelError)
  <2>1. DefineLabelError \in ErrorCodes
    BY DEF DefineLabelError, ErrorCodes
  <2> QED
    BY <1>1, <2>1, RefusedTyped
<1>2. CASE /\ Passes(DefineLabelError)
           /\ tables' = AddLabel(tables, Lexeme(1), LabelTarget, scope.func)
           /\ UNCHANGED <<scope, header, streamSize, stream>>
  <2>1. Passes("NO_ERR") /\ scope.active /\ phase = "first" /\ Type(1) = "IDENT" /\ source \in Seq(Lines)
    BY <1>2 DEF Passes, DefineLabelError, DefineLabel, Reads, PassInv, WorkTyped
  <2>2. Lexeme(1) \in Texts
    BY <2>1, TokenIs DEF Lexeme, Type
  <2>3. LabelTarget \in Nat /\ scope.func \in Nat
    BY <2>1, RoomCounted DEF LabelTarget, RestTyped
  <2>4. [name |-> Lexeme(1), target |-> LabelTarget, func |-> scope.func] \in LabelNodes
    BY <2>2, <2>3 DEF LabelNodes
  <2>5. Append(tables.labels, [name |-> Lexeme(1), target |-> LabelTarget, func |-> scope.func])
          \in Seq(LabelNodes)
    BY <2>4 DEF RestTyped, Tables
  <2>6. tables' \in Tables
    BY <1>2, <2>5 DEF AddLabel, RestTyped, Tables
  <2> QED
    BY <1>2, <2>1, <2>6, LineTyped DEF RestTyped
<1> QED
  BY <1>1, <1>2 DEF DefineLabel

LEMMA FirstPassTyped == PassInv /\ RestTyped /\ FirstPass => RestTyped'
<1> SUFFICES ASSUME PassInv, RestTyped, FirstPass  PROVE RestTyped'
  OBVIOUS
<1>1. CASE SkipBlank
  BY <1>1 DEF SkipBlank, RestTyped
<1>2. CASE InvalidInput
  <2>1. "INVALID_INPUT" \in ErrorCodes
    BY DEF ErrorCodes
  <2> QED
    BY <1>2, <2>1, RefusedTyped DEF InvalidInput
<1> QED
  BY <1>1, <1>2, SetStackSizeTyped, DefineStringTyped, DefineIntTyped, BeginFunctionTyped,
     EndFunctionTyped, CountInstrTyped, DefineLabelTyped DEF FirstPass

LEMMA ErrorsTyped ==
  ASSUME InstrError # "ABORT"
  PROVE  InstrError \in ErrorCodes
<1>1. \A i, b : VariableError(i, b) \in ErrorCodes \cup {"ABORT"}
  BY DEF VariableError, ErrorCodes
<1>2. \A i, S : NameError(i, S) \in ErrorCodes
  BY DEF NameError, ErrorCodes
<1>3. \A k : OperandError(k) \in ErrorCodes \cup {"ABORT"}
  BY <1>1, <1>2 DEF OperandError, ErrorCodes
<1>4. "CHAR_EXPECTED" \in ErrorCodes /\ "INVALID_INPUT" \in ErrorCodes /\ "NO_ERR" \in ErrorCodes
  BY DEF ErrorCodes
<1> QED
  BY <1>3, <1>4 DEF InstrError

\* The name of a kernel call is a token of its line.
LEMMA ApiNamed ==
  ASSUME source \in Seq(Lines), Lexeme(1) = "CALLCORE", InstrError = "NO_ERR"
  PROVE  Type(2) = "IDENT" /\ Lexeme(2) \in Texts
<1>1. "CALLCORE" \in Mnemonics
  BY DEF Mnemonics, InstrTable
<1>2. Len(Accepts) = 1 /\ Accepts[1] = {"CORE_API_CALL"}
  BY <1>1, AcceptsAre DEF Accepts
<1>3. OperandError(1) = "NO_ERR" /\ Start(1) = 2
  BY <1>1, <1>2, InstrPasses, StartIs
<1>4. Type(2) = "IDENT"
  BY <1>2, <1>3 DEF OperandError
<1> QED
  BY <1>4, TokenIs DEF Type, Lexeme

LEMMA WriteInstrTyped == PassInv /\ RestTyped /\ WriteInstr => RestTyped'
<1> SUFFICES ASSUME PassInv, RestTyped, WriteInstr  PROVE RestTyped'
  OBVIOUS
<1>1. CASE InstrError \notin {"ABORT", "INVALID_INPUT"} /\ Refused(InstrError)
  BY <1>1, ErrorsTyped, RefusedTyped
<1>2. CASE Abort /\ UNCHANGED <<calls, sourceSize, header>>
  BY <1>2, AbortTyped DEF RestTyped
<1>3. CASE Return("INVALID_INPUT") /\ UNCHANGED <<calls, sourceSize, header, heap>>
  <2>1. "INVALID_INPUT" \in ErrorCodes
    BY DEF ErrorCodes
  <2> QED
    BY <1>3, <2>1, ReturnTyped DEF RestTyped
<1> DEFINE I == [op |-> Lexeme(1), args |-> [k \in DOMAIN Accepts |-> OperandOf(k)]]
<1>4. CASE /\ Passes(InstrError)
           /\ Write(I)
           /\ tables' = IF Lexeme(1) = "CALLCORE"
                        THEN [tables EXCEPT !.apis = WithString(@, Lexeme(2))] ELSE tables
           /\ UNCHANGED <<scope, header, streamSize>>
  <2>1. InstrError = "NO_ERR" /\ Passes("NO_ERR") /\ Type(1) = "INSTR" /\ source \in Seq(Lines)
    BY <1>4 DEF Passes, WriteInstr, Reads, PassInv, WorkTyped
  <2>2. Lexeme(1) \in Mnemonics
    BY <2>1, TokenIs DEF Lexeme, Type
  <2>3. DOMAIN Accepts = 1 .. Len(Accepts) /\ Len(Accepts) \in Nat
    BY <2>2, AcceptsAre DEF Accepts
  <2>4. \A k \in 1 .. Len(Accepts) : OperandOf(k) \in Ops
    BY <2>1, <2>2, InstrPasses, OperandTyped, TablesAre
  <2>5. [k \in DOMAIN Accepts |-> OperandOf(k)] \in Seq(Ops)
    BY <2>3, <2>4
  <2>6. I \in Instrs
    BY <2>2, <2>5 DEF Instrs
  <2> HIDE DEF I
  <2>7. stream' \in Seq(Instrs)
    BY <1>4, <2>6 DEF Write, RestTyped
  <2>8. tables' \in Tables
    <3>1. CASE Lexeme(1) = "CALLCORE"
      <4>1. WithString(tables.apis, Lexeme(2)) \in Seq(Texts)
        BY <2>1, <3>1, ApiNamed, WithStringTyped DEF RestTyped, Tables
      <4> QED
        BY <1>4, <3>1, <4>1 DEF RestTyped, Tables
    <3>2. CASE Lexeme(1) # "CALLCORE"
      BY <1>4, <3>2 DEF RestTyped
    <3> QED
      BY <3>1, <3>2
  <2>9. scope' \in Scopes /\ header' \in Headers /\ streamSize' \in Nat /\ phase # "first"
    BY <1>4 DEF RestTyped, WriteInstr, Reads
  <2> QED
    BY <2>1, <2>7, <2>8, <2>9, LineTyped
<1> QED
  BY <1>1, <1>2, <1>3, <1>4 DEF WriteInstr

LEMMA EnterFunctionTyped == RestTyped /\ EnterFunction => RestTyped'
<1> SUFFICES ASSUME RestTyped, EnterFunction  PROVE RestTyped'
  OBVIOUS
<1>1. GetFuncByName(tables, Lexeme(2)) - 1 \in Int
  <2>1. Len(tables.funcs) \in Nat
    BY TablesAre DEF TablesTyped
  <2> QED
    BY <2>1, FuncFound, TablesAre
<1>2. scope' \in Scopes
  BY <1>1 DEF EnterFunction, RestTyped, Scopes
<1>3. phase # "first" /\ Passes("NO_ERR") /\ UNCHANGED <<header, streamSize, stream, tables>>
  BY DEF EnterFunction, Reads
<1> QED
  BY <1>2, <1>3, LineTyped DEF RestTyped

LEMMA LeaveFunctionTyped == RestTyped /\ LeaveFunction => RestTyped'
<1> SUFFICES ASSUME RestTyped, LeaveFunction  PROVE RestTyped'
  OBVIOUS
<1>1. scope' \in Scopes
  BY DEF LeaveFunction, RestTyped, Scopes
<1>2. phase # "first" /\ Passes("NO_ERR") /\ UNCHANGED <<header, streamSize, tables>>
  BY DEF LeaveFunction, Reads
<1>3. "QUIT" \in Mnemonics /\ "RET" \in Mnemonics /\ <<>> \in Seq(Ops)
  BY DEF Mnemonics, InstrTable
<1>4. PICK op \in {"QUIT", "RET"} : stream' = Append(stream, [op |-> op, args |-> <<>>])
  BY DEF LeaveFunction, Write
<1>5. stream' \in Seq(Instrs)
  BY <1>3, <1>4 DEF Instrs, RestTyped
<1> QED
  BY <1>1, <1>2, <1>5, LineTyped DEF RestTyped

LEMMA SecondPassTyped == PassInv /\ RestTyped /\ SecondPass => RestTyped'
<1>1. RestTyped /\ SkipOther => RestTyped'
  BY LineTyped DEF SkipOther, Reads, RestTyped
<1> QED
  BY <1>1, WriteInstrTyped, EnterFunctionTyped, LeaveFunctionTyped DEF SecondPass

LEMMA CallTyped == RestTyped /\ (Exec \/ SourceMissing \/ LookupOverflows \/ LoadOverruns) => RestTyped'
<1> SUFFICES ASSUME RestTyped, Exec \/ SourceMissing \/ LookupOverflows \/ LoadOverruns  PROVE RestTyped'
  OBVIOUS
<1>1. calls' \in 0 .. Len(Files)
  <2>1. Len(Files) \in Nat
    BY FilesAssumption
  <2> QED
    BY <2>1 DEF Exec, SourceMissing, LookupOverflows, LoadOverruns, Called, RestTyped
<1>2. CASE Exec
  <2>1. PICK j \in Junk : scope' = Outside(j)
    BY <1>2 DEF Exec, StartFirstPass
  <2>2. scope' \in Scopes /\ scope'.active = FALSE
    BY <2>1, JunkAssumption DEF Outside, Scopes
  <2>3. header' \in Headers
    <3>1. header' = [header EXCEPT !.stack = 0, !.found = FALSE, !.globals = 0]
      BY <1>2 DEF Exec, StartFirstPass
    <3>2. header \in Headers
      BY DEF RestTyped
    <3>3. header' = [header EXCEPT !.stack = 0, !.found = FALSE, !.globals = 0] =>
            header' = [stack |-> 0, found |-> FALSE, globals |-> 0, main |-> header.main]
      BY <3>2 DEF Headers
    <3>4. header' = [stack |-> 0, found |-> FALSE, globals |-> 0, main |-> header.main]
      BY <3>1, <3>3
    <3>5. header.main \in Int
      BY <3>2 DEF Headers
    <3> QED
      BY <3>4, <3>5 DEF Headers
  <2>4. heap' \in Heaps
    BY <1>2 DEF Exec, LoadSourceFile, RestTyped, Heaps
  <2>5. phase' = "first" /\ UNCHANGED <<result, streamSize, stream, tables>>
    BY <1>2 DEF Exec, StartFirstPass
  <2> QED
    BY <1>1, <2>2, <2>3, <2>4, <2>5 DEF RestTyped
<1>3. CASE SourceMissing
  <2>1. "FILE_NOT_FOUND" \in ErrorCodes
    BY DEF ErrorCodes
  <2> QED
    BY <1>1, <1>3, <2>1, ExitTyped DEF SourceMissing, RestTyped
<1>4. CASE LookupOverflows
  BY <1>1, <1>4, AbortTyped DEF LookupOverflows, RestTyped
<1>5. CASE LoadOverruns
  BY <1>1, <1>5, AbortTyped DEF LoadOverruns, RestTyped
<1> QED
  BY <1>2, <1>3, <1>4, <1>5

LEMMA BuildTyped == RestTyped /\ (BuildFSE \/ BuildFails) => RestTyped'
<1> SUFFICES ASSUME RestTyped, BuildFSE \/ BuildFails  PROVE RestTyped'
  OBVIOUS
<1>1. calls' \in 0 .. Len(Files) /\ header' \in Headers
  BY DEF BuildFSE, BuildFails, RestTyped
<1>2. ShutDown => heap' \in Heaps
  BY DEF ShutDown, Freed, Heaps, RestTyped
<1>3. "NO_ERR" \in ErrorCodes /\ "BUILD_FILE_FAILED" \in ErrorCodes
  BY DEF ErrorCodes
<1> QED
  BY <1>1, <1>2, <1>3, ReturnTyped, AbortTyped, ExitTyped DEF BuildFSE, BuildFails

LEMMA PassesTyped == RestTyped /\ (AllocateStream \/ EndSecondPass) => RestTyped'
<1>1. RestTyped /\ AllocateStream => RestTyped'
  <2> SUFFICES ASSUME RestTyped, AllocateStream  PROVE RestTyped'
    OBVIOUS
  <2>1. stream' \in Seq(Instrs) /\ heap' \in Heaps
    BY DEF AllocateStream, RestTyped, Heaps
  <2> QED
    BY <2>1 DEF AllocateStream, RestTyped
<1>2. RestTyped /\ EndSecondPass => RestTyped'
  BY DEF RestTyped, EndSecondPass, work
<1> QED
  BY <1>1, <1>2

LEMMA RestTypedStart == Init => RestTyped
<1> SUFFICES ASSUME Init  PROVE RestTyped
  OBVIOUS
<1>1. PICK j \in Junk : header = [stack |-> 0, found |-> FALSE, globals |-> 0, main |-> j]
  BY DEF Init
<1>2. header \in Headers /\ heap \in Heaps
  BY <1>1, JunkAssumption DEF Headers, Heaps, Init
<1>3. scope \in Scopes /\ tables \in Tables
  BY EmptyTyped DEF Init, NoWork
<1>4. stream \in Seq(Instrs) /\ streamSize \in Nat
  BY DEF Init, NoWork
<1>5. calls \in 0 .. Len(Files) /\ result \in ErrorCodes
  <2>1. Len(Files) \in Nat
    BY FilesAssumption
  <2> QED
    BY <2>1 DEF Init, ErrorCodes
<1> QED
  BY <1>2, <1>3, <1>4, <1>5 DEF Init, RestTyped

LEMMA RestTypedStep == PassInv /\ RestTyped /\ [Next]_vars => RestTyped'
<1>1. RestTyped /\ UNCHANGED vars => RestTyped'
  BY DEF RestTyped, vars
<1> QED
  BY <1>1, CallTyped, FirstPassTyped, PassesTyped, SecondPassTyped, BuildTyped DEF Next

\* Every variable of the assembler has its type: what is in the tables of nodes and in
\* the stream of instructions, and the places in them, are what the source calls for,
\* whatever is in memory that nobody has set.
THEOREM TypeCorrect == Spec => []TypeOK
<1>1. Init => PassInv /\ RestTyped
  BY PassInvStart, RestTypedStart
<1>2. PassInv /\ RestTyped /\ [Next]_vars => (PassInv /\ RestTyped)'
  BY PassInvStep, RestTypedStep
<1>3. PassInv /\ RestTyped => TypeOK
  BY TypeParts
<1> QED
  BY <1>1, <1>2, <1>3, PTL DEF Spec
=============================================================================
