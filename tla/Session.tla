------------------------------- MODULE Session -------------------------------
(***************************************************************************)
(* A session of user programs: a program (as programs/main.c, which ends   *)
(* in a loadnew of basicbasic) makes system calls of any kind, then        *)
(* basicbasic runs from its setup to its quit over the descriptors that    *)
(* program left open, since loadnew gives back pages and no descriptors.   *)
(*                                                                         *)
(* One turn of main's loop is three actions: render, continue_program and  *)
(* keysin.  The keyboard gives a key whenever a read waits for one.        *)
(*                                                                         *)
(* Bounds: MaxReads bytes read from files, MaxLines lines typed, MaxBacks  *)
(* backspaces; Lines are the lines the user types.                         *)
(***************************************************************************)
EXTENDS Basic

CONSTANTS Lines, MaxReads, MaxLines, MaxBacks

VARIABLES pc,       \* where the running program is
          fd,       \* basicbasic's descriptor
          streams,  \* what the first program opened: descriptor, path, bytes read
          typed     \* lines typed and backspaces
sessionVars == <<sysVars, basicVars, pc, fd, streams, typed>>

Init == /\ SyscallsInit
        /\ app = Fresh
        /\ screen = [history |-> [r \in 1 .. Rows |-> Garbage], command |-> Garbage]
        /\ pc = "first"
        /\ fd = -1
        /\ streams = << >>
        /\ typed = [lines |-> 0, backs |-> 0]

-----------------------------------------------------------------------------
(* The first program.                                                      *)

First == pc = "first" /\ halted = "no"
UnchangedBasic == UNCHANGED <<basicVars, pc, fd, typed>>

Opened(path) == IF eax' \in Fds /\ path \in DOMAIN Content
                  THEN Append(streams, [fd |-> eax', path |-> path, data |-> << >>])
                  ELSE streams

UserOpen == /\ First
            /\ \E path \in DOMAIN Content \cup Absent \cup {"teletype", "unknown"}, mode \in 0 .. 1 :
                 open(path, mode) /\ streams' = Opened(path)
            /\ UnchangedBasic

Reads == FoldLeft(LAMBDA n, s : n + Len(s.data), 0, streams)

UserRead == /\ First
            /\ Reads < MaxReads
            /\ \E i \in DOMAIN streams :
                 /\ read_file(streams[i].fd)
                 /\ streams' = [streams EXCEPT ![i].data = @ \o NextBytes(streams[i].fd)]
            /\ UnchangedBasic

UserSetMode == /\ First
               /\ \E f \in {0, NFds - 1, NFds}, mode \in 0 .. 1 : setmode(f, mode)
               /\ UNCHANGED streams /\ UnchangedBasic

UserStops == First /\ (abort \/ CallNothing) /\ UNCHANGED streams /\ UnchangedBasic

\* Bound: the program before basicbasic has only opened files, which is all of
\* it that basicbasic can notice.
OnlyOpened == Reads = 0 /\ \A i \in Fds : open_fds[i].mode = 0

\* loadnew of basicbasic, up to its open: its first key, its setup.
LoadBasic == /\ First
             /\ OnlyOpened
             /\ open("teletype", 0)
             /\ fd' = eax'
             /\ \E key \in {LF, "cls"} : app' = [Fresh EXCEPT !.ch = key]
             /\ pc' = "render"
             /\ streams' = << >>
             /\ UNCHANGED <<screen, typed>>

-----------------------------------------------------------------------------
(* basicbasic's loop.                                                      *)

At(p) == pc = p /\ halted = "no"
AsApp(a, next) == /\ app' = a
                  /\ halted' = IF a.fault = "no" THEN "no" ELSE a.fault
                  /\ pc' = next
UnchangedSystem == UNCHANGED <<open_fds, files, eax, fd, streams>>

Render == /\ At("render")
          /\ AsApp(Rendered(app), "continue")
          /\ screen' = IF Writable(fd) THEN Drawn(app) ELSE screen
          /\ UnchangedSystem /\ UNCHANGED typed

Continue == /\ At("continue")
            /\ \E a \in IF app.running THEN continue_program(app) ELSE {app} : AsApp(a, "keys")
            /\ UnchangedSystem /\ UNCHANGED <<screen, typed>>

\* mutant: leaves only when no program runs
LeftIdle(a) == a.end /\ ~a.running
\* main's test at the end of a turn.
Left(a) == a.end
TurnEnd(a) == IF Left(a) THEN "left" ELSE "render"

\* The user types the words of a line and may take one back.
Wanted(input, key) ==
  \/ key = LF /\ typed.lines < MaxLines /\ input \in Lines
  \/ key = BS /\ typed.backs < MaxBacks /\ input # << >>
  \/ typed.lines < MaxLines /\ \E l \in Lines : IsPrefix(Append(input, key), l)
Keys == {LF, BS} \cup UNION {ToSet(l) : l \in Lines}

\* read waits for a key when the descriptor supports it; else ch stays as it is.
KeysIn ==
  /\ At("keys") /\ ~app.running
  /\ \E key \in IF Readable(fd) THEN Keys ELSE {app.ch} :
       /\ Readable(fd) => Wanted(Prepared(app).input, key)
       /\ \E a \in Typed([Prepared(app) EXCEPT !.ch = key]) : AsApp(a, TurnEnd(a))
       /\ typed' = [lines |-> typed.lines + (IF key = LF THEN 1 ELSE 0),
                    backs |-> typed.backs + (IF key = BS THEN 1 ELSE 0)]
  /\ typed'.lines <= MaxLines
  /\ UnchangedSystem /\ UNCHANGED screen

\* While a program runs no key is read.
NoKeys == /\ At("keys") /\ app.running
          /\ AsApp(app, TurnEnd(app))
          /\ UnchangedSystem /\ UNCHANGED <<screen, typed>>

Next == \/ UserOpen \/ UserRead \/ UserSetMode \/ UserStops \/ LoadBasic
        \/ Render \/ Continue \/ KeysIn \/ NoKeys

Spec == Init /\ [][Next]_sessionVars

-----------------------------------------------------------------------------
(* Properties.                                                             *)

\* What a program reads through a descriptor are the bytes of the file it
\* opened, from the first on and in order, whatever else is open and however
\* the reads through several descriptors are mixed (open.c, fat32_read_struct).
StreamsIndependent ==
  \A i \in DOMAIN streams : IsPrefix(streams[i].data, Content[streams[i].path])

\* Every File block belongs to one descriptor and every file's descriptor has
\* one: an open that fails, at any step, leaves no block behind (open.c).
FilesOwned ==
  LET owners == {i \in Fds : open_fds[i].fops = "fat32_fops"}
  IN  /\ DOMAIN files = {open_fds[i].internal : i \in owners}
      /\ Cardinality(owners) = Cardinality(DOMAIN files)

\* Descriptors that are open do not meet, and none is lost with its block.
DescriptorsApart == StreamsIndependent /\ FilesOwned

\* After render, the screen shows the history and the line being typed, though
\* only what the cache takes for changed is drawn (render, append_buffer).
ScreenShowsState ==
  pc = "continue" /\ Writable(fd) =>
    /\ screen.history = app.buffer
    /\ screen.command = <<"]">> \o (IF app.input = NULL THEN << >> ELSE app.input)

\* The stored lines stand in the order of their numbers, each number once:
\* goto and run depend on it (u32erpret_basic).
ProgramOrdered ==
  \A i, j \in DOMAIN app.program : i < j => app.program[i].ln < app.program[j].ln

\* While a program runs, the line it is at exists, through end, goto, errors
\* and runs that begin where the last one stopped (continue_program).
RunningInRange == app.running => app.current_line_number < Len(app.program)

\* The stored program and the place in it hold together.
ProgramConsistent == ProgramOrdered /\ RunningInRange

\* Once quit has freed the program, no command is carried out and no line is
\* stored or continued: main leaves in the same turn (quit, main).
NothingAfterQuit ==
  [][app.freed => /\ app'.program = app.program
                  /\ app'.variables = app.variables
                  /\ app'.current_line_number = app.current_line_number]_sessionVars
=============================================================================
