-------------------------------- MODULE Basic --------------------------------
(***************************************************************************)
(* basicbasic (src/primary/programs/programs/basicbasic/basicbasic.c), the *)
(* BASIC interpreter the boot volume carries: the lines typed, the stored  *)
(* program and its execution, and the screen kept through a cache of what  *)
(* was drawn.                                                              *)
(*                                                                         *)
(* app holds the fields of the source's two structures, state and basic.   *)
(* A text is the sequence of its words; typing a word after another types  *)
(* the space between them, and a backspace takes the last word away.       *)
(* Words are in lower case.  state.input is NULL exactly while             *)
(* ready_for_input_init holds and ready_for_next_input does not.           *)
(* The screen has the 80 columns the program draws for, so that a row of   *)
(* 78 characters stays on its row.                                         *)
(***************************************************************************)
EXTENDS Syscalls, SequencesExt, TLC

CONSTANTS Rows,        \* rows of the history (22)
          InputSize,   \* words that fill the 64 bytes of state.input
          LongNumber,  \* the first line number list has no room for (100000)
          ProgramMax,  \* lines the block of basic.program has room for (50)
          U32,         \* what u32 wraps at (2^32)
          Vars,        \* the variables, named by their words
          NumberOf,    \* numeral -> its number
          Literals,    \* word in quotation marks -> the text print shows for it
          Assignments  \* word "v=exp" -> [to, lhs, op, rhs], op "" when exp is one word

ASSUME BasicAssumption == Rows \in Nat /\ NumberOf \in [DOMAIN NumberOf -> Nat]

VARIABLES app,     \* the fields of state and basic
          screen   \* what the teletype shows of the interpreter's rows
basicVars == <<app, screen>>

NULL == <<"NULL">>
BS == "backspace"
LF == "newline"
Garbage == <<"garbage">>
Blank == << >>
itoa(n) == ToString(n)
atoi(w) == IF w \in DOMAIN NumberOf THEN NumberOf[w] ELSE 0

\* setup: nothing typed, every row to be drawn, no program.
Fresh == [input |-> NULL, ch |-> LF, end |-> FALSE,
          buffer |-> [r \in 1 .. Rows |-> Blank], previous_buffer |-> [r \in 1 .. Rows |-> NULL],
          row_dirty |-> [r \in 1 .. Rows |-> TRUE], input_dirty |-> TRUE,
          last_input |-> Blank, last_running |-> FALSE,
          variables |-> [v \in Vars |-> 0], running |-> FALSE,
          program |-> << >>, program_maxlen |-> ProgramMax,
          current_line_number |-> 0, goto_performed |-> FALSE,
          freed |-> FALSE, fault |-> "no"]

Fault(a, why) == [a EXCEPT !.fault = why]

-----------------------------------------------------------------------------
(* The screen.                                                             *)

\* append_buffer, called for each of the lines.
append_lines(a, lines) ==
  [a EXCEPT !.buffer = [r \in 1 .. Rows |-> IF r + Len(lines) <= Rows THEN a.buffer[r + Len(lines)]
                                            ELSE lines[r + Len(lines) - Rows]],
            !.row_dirty = [r \in 1 .. Rows |-> TRUE]]
append_buffer(a, line) == append_lines(a, <<line>>)

\* render_history: the rows it draws.
Stale(a) == {r \in 1 .. Rows : a.row_dirty[r] \/ a.buffer[r] # a.previous_buffer[r]}

\* mutant: looks for a difference in the characters of the input only
InputChangedInPlace(a) == ~IsPrefix(a.input, a.last_input)
InputChanged(a) == \/ a.input_dirty
                   \/ a.running # a.last_running
                   \/ Len(a.input) # Len(a.last_input)
                   \/ a.input # a.last_input

\* What render_command draws on the command line, as a sequence of at most one text.
Command(a) == IF a.input = NULL THEN << <<"]">> >>
              ELSE IF ~InputChanged(a) THEN << >>
              ELSE IF a.running THEN << Blank >>
              ELSE << <<"]">> \o a.input >>

\* The cache after render_history and render_command.
Rendered(a) ==
  [a EXCEPT !.previous_buffer = [r \in 1 .. Rows |-> IF r \in Stale(a) THEN a.buffer[r] ELSE @[r]],
            !.row_dirty = [r \in 1 .. Rows |-> FALSE],
            !.input_dirty = IF Command(a) = << >> THEN @ ELSE FALSE,
            !.last_input = IF Command(a) = << >> THEN @
                           ELSE IF a.input = NULL \/ a.running THEN Blank ELSE a.input,
            !.last_running = a.running]

\* What the draws leave on the screen when the descriptor takes them.
Drawn(a) ==
  [history |-> [r \in 1 .. Rows |-> IF r \in Stale(a) THEN a.buffer[r] ELSE screen.history[r]],
   command |-> IF Command(a) = << >> THEN screen.command ELSE Head(Command(a))]

-----------------------------------------------------------------------------
(* The commands.  Each gives the fields after it and whether it succeeded. *)

Done(a) == [app |-> a, ok |-> TRUE]
Error(a, message) == [app |-> append_buffer(a, <<message>>), ok |-> FALSE]

Value(a, w) == IF w \in Vars THEN a.variables[w] ELSE atoi(w)

\* eval: a single word is a number, a variable's name too.
eval(a, e) == LET l == Value(a, e.lhs)
                  r == Value(a, e.rhs)
              IN  CASE e.op = "" -> atoi(e.lhs)
                    [] e.op = "+" -> (l + r) % U32
                    [] e.op = "-" -> ((U32 + l) - r) % U32
                    [] e.op = "*" -> (l * r) % U32
                    [] e.op = "/" -> IF r = 0 THEN 0 ELSE l \div r

Assign(a, e) == IF e.op = "/" /\ Value(a, e.rhs) = 0
                  THEN Done(Fault(a, "division by zero"))
                  ELSE Done([a EXCEPT !.variables[e.to] = eval(a, e)])

run(a) ==
  LET b == IF a.running THEN append_buffer(a, <<"?RUNNING ERROR">>) ELSE a
  IN  IF a.current_line_number >= Len(a.program)
        THEN Done(append_buffer([b EXCEPT !.running = FALSE, !.current_line_number = 0],
                                <<"?NO PROGRAM">>))
        ELSE Done([b EXCEPT !.running = TRUE])

end(a) == Done([a EXCEPT !.running = FALSE])

LinesNumbered(a, ln) == {i \in 1 .. Len(a.program) : a.program[i].ln = ln}

goto(a, tokens) ==
  IF Len(tokens) < 2 THEN Error(a, "?SYNTAX ERROR")
  ELSE LET found == LinesNumbered(a, atoi(tokens[2]))
       IN  IF found = {} THEN Error(a, "?LINE ERROR")
           ELSE Done([a EXCEPT !.current_line_number = Min(found) - 1,
                               !.goto_performed = a.running \/ @, !.running = TRUE])

\* print takes its argument without asking whether there is one: a text, whose
\* last character it takes for the closing mark, or a variable.
print(a, tokens) ==
  IF Len(tokens) < 2 THEN Done(Fault(a, "null pointer"))
  ELSE IF tokens[2] \in DOMAIN Literals THEN Done(append_buffer(a, Literals[tokens[2]]))
  ELSE IF tokens[2] \in Vars THEN Done(append_buffer(a, <<itoa(a.variables[tokens[2]])>>))
  ELSE Error(a, "?SYNTAX ERROR")

cls(a) == Done([a EXCEPT !.buffer = [r \in 1 .. Rows |-> Blank],
                         !.row_dirty = [r \in 1 .. Rows |-> TRUE]])

\* list puts each text in the history after it has freed it: the text may be
\* there still, or what the allocator wrote over it.  It copies the number's
\* characters more often than it counted them: from six digits on, past the end.
list(a) ==
  LET Text(i, lost) == IF i \in lost THEN Garbage
                       ELSE <<itoa(a.program[i].ln)>> \o a.program[i].line
      Texts(lost) == [i \in 1 .. Len(a.program) |-> Text(i, lost)]
  IN  IF \E i \in DOMAIN a.program : a.program[i].ln >= LongNumber
        THEN {Done(Fault(a, "past the listed text's block"))}
        ELSE {Done(append_lines(a, Append(Texts(lost), <<itoa(a.current_line_number)>>))) :
                lost \in SUBSET (1 .. Len(a.program))}

quit(a) == Done([a EXCEPT !.freed = TRUE, !.end = TRUE])

\* commit_instruction, in the order of its tests.  line is what is left of the
\* typed or stored text: split_tokens has cut it after its first word.
commit_instruction(a, tokens) ==
  IF tokens = << >> THEN {[app |-> a, ok |-> FALSE]}
  ELSE CASE tokens[1] = "run" -> {run(a)}
         [] tokens[1] = "end" -> {end(a)}
         [] tokens[1] = "goto" -> {goto(a, tokens)}
         [] tokens[1] = "print" -> {print(a, tokens)}
         [] tokens[1] = "cls" -> {cls(a)}
         [] tokens[1] \in DOMAIN Assignments -> {Assign(a, Assignments[tokens[1]])}
         [] tokens[1] = "list" -> list(a)
         [] tokens[1] = "quit" -> {quit(a)}
         [] OTHER -> {Error(a, "?SYNTAX ERROR")}

-----------------------------------------------------------------------------
(* The stored program.                                                     *)

\* strtok cuts the text after its first word.
FirstWord(line) == IF line = << >> THEN << >> ELSE <<Head(line)>>

\* A line goes over the one with its number or behind the last; the block keeps
\* its size when it is "grown".
AppendLine(a, l) ==
  LET maxlen == IF Len(a.program) = a.program_maxlen THEN 2 * a.program_maxlen ELSE a.program_maxlen
  IN  IF Len(a.program) >= ProgramMax
        THEN Fault(a, "past the program's block")
        ELSE [a EXCEPT !.program = Append(@, l), !.program_maxlen = maxlen]

StoreLine(a, l) ==
  LET reached == {i \in 1 .. Len(a.program) : a.program[i].ln >= l.ln}
  IN  IF reached = {} THEN AppendLine(a, l)
      ELSE IF a.program[Min(reached)].ln = l.ln
             THEN [a EXCEPT !.program[Min(reached)] = l]
             ELSE append_buffer(a, <<"?LAZINESS ERROR">>)

\* u32erpret_basic, which sees the typed text and then only its first word.
u32erpret_basic(a) ==
  IF a.input = << >> THEN {a}
  ELSE IF a.input[1] \in DOMAIN NumberOf
         THEN {StoreLine(a, [ln |-> atoi(a.input[1]), line |-> FirstWord(Tail(a.input))])}
         ELSE {r.app : r \in commit_instruction(a, a.input)}

\* mutant: notices the end of the program one line late
NextLineLate(a) == IF a.current_line_number = Len(a.program)
                     THEN [a EXCEPT !.running = FALSE, !.goto_performed = FALSE, !.current_line_number = 0]
                     ELSE [a EXCEPT !.current_line_number = @ + 1]
\* The next line, from the first when that was the last.
NextLine(a) == IF a.current_line_number + 1 = Len(a.program)
                 THEN [a EXCEPT !.running = FALSE, !.goto_performed = FALSE, !.current_line_number = 0]
                 ELSE [a EXCEPT !.current_line_number = @ + 1]

AfterCommit(r) ==
  IF ~r.ok THEN [r.app EXCEPT !.running = FALSE]
  ELSE IF r.app.goto_performed /\ r.app.running THEN [r.app EXCEPT !.goto_performed = FALSE]
  ELSE NextLine([r.app EXCEPT !.goto_performed = FALSE])

continue_program(a) ==
  LET line == a.program[a.current_line_number + 1].line
      cut == [a EXCEPT !.program[a.current_line_number + 1].line = FirstWord(line)]
  IN  {AfterCommit(r) : r \in commit_instruction(cut, line)}

-----------------------------------------------------------------------------
(* Typing.                                                                 *)

\* input_routine up to the read: a block for the input, if there is none.
Prepared(a) == IF a.input = NULL THEN [a EXCEPT !.input = << >>, !.input_dirty = TRUE] ELSE a

\* The rest of it, with the character in ch.  A block that is full has lost the
\* zero at its end, which what reads the line looks for.
Typed(a) ==
  IF a.ch = LF /\ Len(a.input) >= InputSize THEN {Fault(a, "input without an end")}
  ELSE IF a.ch = LF
    THEN {[b EXCEPT !.input = NULL] :
            b \in u32erpret_basic([append_buffer(a, <<"]">> \o a.input) EXCEPT !.input_dirty = TRUE])}
  ELSE IF a.ch = BS
    THEN {IF a.input = << >> THEN a ELSE [a EXCEPT !.input = Front(@), !.input_dirty = TRUE]}
  ELSE IF Len(a.input) >= InputSize THEN {Fault(a, "past the input's block")}
  ELSE {[a EXCEPT !.input = Append(@, a.ch), !.input_dirty = TRUE]}
=============================================================================
