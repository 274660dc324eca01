------------------------------ MODULE Syscalls ------------------------------
(***************************************************************************)
(* The system calls of src/primary/kernel/systemcalls: the table of file   *)
(* descriptors and the calls that work on it, behind the dispatcher of     *)
(* interrupt 0x30.  A call runs with no other program between its steps:   *)
(* each is one action.  eax is the register the program finds its result   *)
(* in; read, write and setmode leave the call's number there, since the    *)
(* dispatcher drops what they return.                                      *)
(*                                                                         *)
(* External: the file system (FatFile models it), here a path that exists  *)
(* with its bytes, and a drive that may fail while a file is opened.       *)
(***************************************************************************)
EXTENDS Integers, Sequences, FiniteSets, FiniteSetsExt

CONSTANTS NFds,     \* entries of open_fds (256)
          Content,  \* path on the primary partition -> its bytes
          Absent    \* paths on the primary partition that name no file

\* A path names a file or none, and begins with /primary/.
ASSUME SyscallsAssumption ==
  /\ NFds \in Nat /\ NFds > 3
  /\ \A path \in DOMAIN Content : Content[path] \in Seq({Content[path][i] : i \in DOMAIN Content[path]})
  /\ DOMAIN Content \cap Absent = {} /\ "teletype" \notin DOMAIN Content

VARIABLES open_fds,  \* the descriptor table
          files,     \* the File blocks allocated: address -> path and position
          eax,       \* what the last call left for the program
          halted     \* why the machine stopped: "no" while it runs
sysVars == <<open_fds, files, eax, halted>>

Fds == 0 .. (NFds - 1)
NoFile == 0
Closed == [exists |-> FALSE, mode |-> 0, internal |-> NoFile, fops |-> "null"]

\* The operations each table of operations fills in.
fop == [null |-> {},
        terminal_fops |-> {"read", "write", "setmode"},
        teletype_fops |-> {"read", "write", "open", "setmode"},
        fat32_fops |-> {"read"}]

\* terminal_install: stdin, stdout and stderr.
terminal_install == [i \in Fds |-> IF i \in 0 .. 2
                                     THEN [Closed EXCEPT !.exists = TRUE, !.fops = "terminal_fops"]
                                     ELSE Closed]

SyscallsInit == /\ open_fds = terminal_install
                /\ files = << >>
                /\ eax = 0
                /\ halted = "no"

-----------------------------------------------------------------------------
(* The dispatcher and the descriptors.                                     *)

\* Numbers of the calls whose entry of syscall_handlers is filled in.
syscall_handlers == 0 .. 5

\* handler, for a number within the test's limit (four times the entries) that
\* names no call: the processor goes to a null entry, or past the table.
CallNothing == /\ halted' = "no handler"
               /\ UNCHANGED <<open_fds, files, eax>>

\* Call number 0: a breakpoint, which ends in a panic.
abort == /\ halted' = "aborted"
         /\ UNCHANGED <<open_fds, files, eax>>

\* What read, write and setmode test before they call the descriptor's own.
Supports(fd, op) == fd \in Fds /\ open_fds[fd].exists /\ op \in fop[open_fds[fd].fops]

Readable(fd) == Supports(fd, "read")
Writable(fd) == Supports(fd, "write")

FreeFds == {i \in Fds : ~open_fds[i].exists}
NextFd == Min(FreeFds)

-----------------------------------------------------------------------------
(* open.                                                                   *)

Refuse == eax' = -1 /\ UNCHANGED <<open_fds, files, halted>>

\* teletype_open sets exists and fops and leaves the rest of the entry.
OpenTeletype == /\ FreeFds # {}
                /\ open_fds' = [open_fds EXCEPT ![NextFd].exists = TRUE,
                                                ![NextFd].fops = "teletype_fops"]
                /\ eax' = NextFd
                /\ UNCHANGED <<files, halted>>

\* kmalloc: an address no block has.
NewFile == Min((1 .. (NFds + 1)) \ DOMAIN files)
Allocated(path) == [f \in DOMAIN files \cup {NewFile} |->
                      IF f = NewFile THEN [path |-> path, position |-> 0] ELSE files[f]]

OpenFile(path, mode) ==
  /\ FreeFds # {}
  /\ path \in DOMAIN Content
  /\ files' = Allocated(path)
  /\ open_fds' = [open_fds EXCEPT ![NextFd] =
                    [exists |-> TRUE, mode |-> mode, internal |-> NewFile, fops |-> "fat32_fops"]]
  /\ eax' = NextFd
  /\ UNCHANGED halted

FAT_ERR_IO == -3
FAT_ERR_PATH == -5

\* mutant: the block of a file that did not open is not given back
AfterFailedOpenKept(path) == Allocated(path)
\* fat_file_open fails: the path names nothing or the drive does not answer.
\* The block is given back.
AfterFailedOpen(path) == files

OpenFails(path) == /\ FreeFds # {}
                   /\ files' = AfterFailedOpen(path)
                   /\ eax' = IF path \in Absent THEN FAT_ERR_PATH ELSE FAT_ERR_IO
                   /\ UNCHANGED <<open_fds, halted>>

open(identifier, mode) ==
  \/ identifier = "teletype" /\ OpenTeletype
  \/ identifier \in DOMAIN Content /\ (OpenFile(identifier, mode) \/ OpenFails(identifier))
  \/ identifier \in Absent /\ OpenFails(identifier)
  \/ FreeFds = {} /\ Refuse
  \/ identifier \notin {"teletype"} \cup DOMAIN Content \cup Absent /\ Refuse

-----------------------------------------------------------------------------
(* read and setmode.                                                       *)

\* The next byte of a file's descriptor, as a sequence of at most one byte.
NextBytes(fd) == LET f == files[open_fds[fd].internal]
                 IN  IF f.position = Len(Content[f.path]) THEN << >>
                     ELSE <<Content[f.path][f.position + 1]>>

\* read of one byte through a file's descriptor: its File moves on.
read_file(fd) == /\ Readable(fd) /\ open_fds[fd].fops = "fat32_fops"
                 /\ files' = [files EXCEPT ![open_fds[fd].internal].position = @ + Len(NextBytes(fd))]
                 /\ eax' = 2
                 /\ UNCHANGED <<open_fds, halted>>

\* setmode: the terminal's keeps the mode, the teletype's has none.
setmode(fd, mode) == /\ open_fds' = IF Supports(fd, "setmode") /\ open_fds[fd].fops = "terminal_fops"
                                      THEN [open_fds EXCEPT ![fd].mode = mode] ELSE open_fds
                     /\ eax' = 3
                     /\ UNCHANGED <<files, halted>>
=============================================================================
