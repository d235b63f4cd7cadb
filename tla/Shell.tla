-------------------------------- MODULE Shell -------------------------------
(***************************************************************************)
(* shell/shell.c and the pipes that it sets up (sys_pipe, sys_dup2,        *)
(* sys_close, and what fork() and exit() do to them). A system call is one *)
(* step; a writer can sleep in it on a full pipe, a parent in wait().      *)
(*                                                                         *)
(* procs[p] is a process, or NoProc:                                       *)
(*   at      "prompt", "cmd" before cmd_run() and "next" after it, in the  *)
(*           shell; "child" after fork() in external_run(); "run" after    *)
(*           execv(); "print" before a write(); "full" asleep in it;       *)
(*           "wait"; "hang" after exit(); "dead" spinning in an assert     *)
(*   line, k the commands of cmd_line, and the one that is run             *)
(*   in, out whether descriptors 0 and 1 are the pipe                      *)
(*   q       the slot of file_table that descriptors 3 and 4 lead to, or 0 *)
(*   todo    sizes of the writes to come, then the process is at "then"    *)
(*   up      the parent; 0 is init                                         *)
(* A command is [kind, out]: a "builtin", an "empty" one, a path that is   *)
(* "missing" or leads to "data" that execv() refuses, or a program: a      *)
(* "writer", a "filter" like cat without argument, a "forker" that leaves  *)
(* a child behind like user/pipe.c. out are the sizes of its writes.       *)
(***************************************************************************)
EXTENDS Integers, Sequences, FiniteSets, SequencesExt

CONSTANTS Procs,    \* the processes that memory allows, 1 is the first shell
          Slots,    \* the slots of file_table
          Lines,    \* the lines that are typed; no filter reads the keyboard
          BufSize,  \* bufsize of a pipe
          ReadMax,  \* what a filter reads at most
          Notice,   \* size of "shell recieve ..."
          Message   \* size of "external_run: cannot access ..."

VARIABLES procs, pipes, bad

vars == <<procs, pipes, bad>>

NoProc == [at |-> "none", line |-> <<>>, k |-> 0, in |-> FALSE, out |-> FALSE, q |-> 0,
           todo |-> <<>>, then |-> "", up |-> 0]

\* a slot: bytes in the queue, and fd_pos, the number of descriptors; 0 for a free slot
Free == [len |-> 0, cnt |-> 0]

Init ==
    /\ procs = [p \in Procs |-> IF p = 1 THEN [NoProc EXCEPT !.at = "prompt"] ELSE NoProc]
    /\ pipes = [s \in Slots |-> Free]
    /\ bad = FALSE

At(p, label) == ~bad /\ procs[p].at = label

Unused == {p \in Procs : procs[p].at = "none"}

NewProc == Min(Unused)

Children(p) == {c \in Procs : procs[c].at # "none" /\ procs[c].up = p}

Command(p) == procs[p].line[procs[p].k]

-----------------------------------------------------------------------------
(* Descriptors                                                             *)

\* update_inode_open_cnts() of a child with the descriptors of slot q
Shared(ps, q) == IF q = 0 THEN ps ELSE [ps EXCEPT ![q].cnt = @ + 2]

\* both descriptors are closed; the last one frees the slot
Closed(ps, q) ==
    IF q = 0 THEN ps
    ELSE IF ps[q].cnt = 2 THEN [ps EXCEPT ![q] = Free]
    ELSE [ps EXCEPT ![q].cnt = @ - 2]

FreeSlots == {s \in Slots : pipes[s].cnt = 0}

\* the process prints and goes on
Prints(r, sizes, then) ==
    IF sizes = <<>> THEN [r EXCEPT !.at = then]
    ELSE [r EXCEPT !.at = "print", !.todo = sizes, !.then = then]

Printed(r) == Prints([r EXCEPT !.todo = <<>>, !.then = ""], Tail(r.todo), r.then)

-----------------------------------------------------------------------------
(* The shell                                                               *)

\* pipe() and dup2(fd[1], 1) for a line with a '|'; without a free slot sys_pipe() writes
\* in front of file_table
Enter(p, line) ==
    /\ At(p, "prompt")
    /\ IF Len(line) = 1
       THEN /\ procs' = [procs EXCEPT ![p].at = "cmd", ![p].line = line, ![p].k = 1]
            /\ UNCHANGED <<pipes, bad>>
       ELSE IF FreeSlots = {} THEN bad' = TRUE /\ UNCHANGED <<procs, pipes>>
       ELSE LET s == Min(FreeSlots)
            IN  /\ pipes' = [pipes EXCEPT ![s].cnt = 2]
                /\ procs' = [procs EXCEPT ![p].at = "cmd", ![p].line = line, ![p].k = 1,
                                          ![p].q = s, ![p].out = TRUE]
                /\ UNCHANGED bad

\* cmd_run(): strcmp() asserts that there is a name
Builtin(p) ==
    /\ At(p, "cmd") /\ Command(p).kind \in {"builtin", "empty"}
    /\ procs' = [procs EXCEPT ![p] = IF Command(p).kind = "empty" THEN [@ EXCEPT !.at = "dead"]
                                     ELSE Prints(@, Command(p).out, "next")]
    /\ UNCHANGED <<pipes, bad>>

\* external_run() up to the return of fork() in both processes
Fork(p) ==
    /\ At(p, "cmd") /\ Command(p).kind \notin {"builtin", "empty"}
    /\ Unused # {}
    /\ procs' = [procs EXCEPT ![p].at = "wait", ![NewProc] = [procs[p] EXCEPT !.at = "child", !.up = p]]
    /\ pipes' = Shared(pipes, procs[p].q)
    /\ UNCHANGED bad

\* -1 is not 0: the shell waits all the same
ForkFails(p) ==
    /\ At(p, "cmd") /\ Command(p).kind \notin {"builtin", "empty"}
    /\ procs' = [procs EXCEPT ![p].at = "wait"]
    /\ UNCHANGED <<pipes, bad>>

\* wait() returns with a child that exited, or because there is no child
Wait(p) ==
    /\ At(p, "wait")
    /\ \/ Children(p) = {} /\ procs' = [procs EXCEPT ![p] = Prints(@, <<Notice>>, "next")]
       \/ \E c \in Children(p) :
             /\ procs[c].at = "hang"
             /\ procs' = [procs EXCEPT ![p] = Prints(@, <<Notice>>, "next"), ![c] = NoProc]
    /\ UNCHANGED <<pipes, bad>>

\* Mutant of Done: dup2(0, 0) is left out.
DoneKeepsStdin(p) ==
    /\ At(p, "next") /\ procs[p].k = Len(procs[p].line)
    /\ procs' = [procs EXCEPT ![p] = [NoProc EXCEPT !.at = "prompt", !.up = procs[p].up,
                                                    !.in = procs[p].in]]
    /\ pipes' = Closed(pipes, procs[p].q)
    /\ UNCHANGED bad

\* dup2(fd[0], 0) after the first command, dup2(1, 1) before the last
NextCommand(p) ==
    LET k == procs[p].k + 1
    IN  /\ At(p, "next") /\ k <= Len(procs[p].line)
        /\ procs' = [procs EXCEPT ![p].at = "cmd", ![p].k = k, ![p].in = TRUE,
                                  ![p].out = k < Len(procs[p].line)]
        /\ UNCHANGED <<pipes, bad>>

\* dup2(0, 0), close(fd[0]), close(fd[1])
Done(p) ==
    /\ At(p, "next") /\ procs[p].k = Len(procs[p].line)
    /\ procs' = [procs EXCEPT ![p] = [NoProc EXCEPT !.at = "prompt", !.up = procs[p].up]]
    /\ pipes' = Closed(pipes, procs[p].q)
    /\ UNCHANGED bad

-----------------------------------------------------------------------------
(* The child                                                               *)

\* stat() and execv(); when execv() returns, the child goes on as the shell does
Child(p) ==
    /\ At(p, "child")
    /\ procs' = [procs EXCEPT ![p] =
                    CASE Command(p).kind = "missing" -> Prints(@, <<Message>>, "exit")
                      [] Command(p).kind = "data"    -> [@ EXCEPT !.at = "wait"]
                      [] OTHER                       -> [@ EXCEPT !.at = "run"]]
    /\ UNCHANGED <<pipes, bad>>

RunWriter(p) ==
    /\ At(p, "run") /\ Command(p).kind = "writer"
    /\ procs' = [procs EXCEPT ![p] = Prints(@, Command(p).out, "exit")]
    /\ UNCHANGED <<pipes, bad>>

\* one read() of what is in the pipe, one write() of it
RunFilter(p) ==
    LET q == procs[p].q
        n == IF pipes[q].len < ReadMax THEN pipes[q].len ELSE ReadMax
    IN  /\ At(p, "run") /\ Command(p).kind = "filter" /\ procs[p].in
        /\ pipes' = [pipes EXCEPT ![q].len = @ - n]
        /\ procs' = [procs EXCEPT ![p] = Prints(@, <<n>>, "exit")]
        /\ UNCHANGED bad

RunForker(p) ==
    LET printing == Prints(procs[p], Command(p).out, "exit")
    IN  /\ At(p, "run") /\ Command(p).kind = "forker" /\ Unused # {}
        /\ procs' = [procs EXCEPT ![p] = printing, ![NewProc] = [printing EXCEPT !.up = p]]
        /\ pipes' = Shared(pipes, procs[p].q)
        /\ UNCHANGED bad

RunForkerFails(p) ==
    /\ At(p, "run") /\ Command(p).kind = "forker"
    /\ procs' = [procs EXCEPT ![p] = Prints(@, Command(p).out, "exit")]
    /\ UNCHANGED <<pipes, bad>>

\* Mutant of Room: the size is cut to what the queue holds without the last byte.
RoomOfWhole(q) == BufSize - 2 - pipes[q].len

\* the bytes that the queue takes before it is full
Room(q) == BufSize - 1 - pipes[q].len

\* a write() to the screen, or to a pipe that has room
WriteOut(p) ==
    LET r == procs[p]
        n == Head(r.todo)
    IN  /\ At(p, "print") /\ (r.out => n <= Room(r.q))
        /\ procs' = [procs EXCEPT ![p] = Printed(@)]
        /\ pipes' = IF r.out THEN [pipes EXCEPT ![r.q].len = @ + n] ELSE pipes
        /\ UNCHANGED bad

\* pipe_write() cuts the size to one byte more than there is room for
FillPipe(p) ==
    LET r == procs[p]
    IN  /\ At(p, "print") /\ r.out /\ Head(r.todo) > Room(r.q)
        /\ procs' = [procs EXCEPT ![p].at = "full"]
        /\ pipes' = [pipes EXCEPT ![r.q].len = BufSize - 1]
        /\ UNCHANGED bad

\* somebody read: the last byte goes in
RoomCame(p) ==
    /\ At(p, "full") /\ Room(procs[p].q) > 0
    /\ procs' = [procs EXCEPT ![p] = Printed(@)]
    /\ pipes' = [pipes EXCEPT ![procs[p].q].len = @ + 1]
    /\ UNCHANGED bad

\* sys_exit(): the children go to init, the descriptors are closed
Exit(p) ==
    /\ At(p, "exit")
    /\ procs' = [c \in Procs |->
                    IF c = p THEN [NoProc EXCEPT !.at = "hang", !.up = procs[p].up]
                    ELSE IF c \in Children(p) THEN [procs[c] EXCEPT !.up = 0]
                    ELSE procs[c]]
    /\ pipes' = Closed(pipes, procs[p].q)
    /\ UNCHANGED bad

\* init waits for the children it adopted
InitWait(c) ==
    /\ At(c, "hang") /\ procs[c].up = 0
    /\ procs' = [procs EXCEPT ![c] = NoProc]
    /\ UNCHANGED <<pipes, bad>>

ShellStep(p) ==
    \/ Builtin(p) \/ ForkFails(p) \/ Fork(p)
    \/ Wait(p) \/ NextCommand(p) \/ Done(p)

ChildStep(p) ==
    \/ Child(p) \/ RunWriter(p) \/ RunFilter(p)
    \/ RunForkerFails(p) \/ RunForker(p)
    \/ WriteOut(p) \/ FillPipe(p) \/ Exit(p)

Step(p) == ShellStep(p) \/ ChildStep(p)

Next ==
    \/ \E p \in Procs, line \in Lines : Enter(p, line)
    \/ \E p \in Procs : Step(p) \/ RoomCame(p) \/ InitWait(p)

-----------------------------------------------------------------------------
(* Properties                                                              *)

ShellCode(p) ==
    \/ procs[p].at \in {"prompt", "cmd", "next"}
    \/ procs[p].at \in {"print", "full"} /\ procs[p].then = "next"

\* Types of the state.
TypeOK ==
    /\ \A p \in Procs : procs[p].q \in Slots \cup {0} /\ procs[p].up \in Procs \cup {0}
    /\ \A s \in Slots : pipes[s].len \in 0..(BufSize - 1) /\ pipes[s].cnt \in Nat

\* At most one process runs the code of the shell, so at most one reads lines from the
\* keyboard, also after execv() failed in a child. At the prompt the descriptors 0 and 1 are
\* the console again and the pipe is closed. The count of a pipe is the number of its
\* descriptors, and nobody reads or writes a pipe that was freed.
ShellSound ==
    /\ TypeOK
    /\ \A p, r \in Procs : ShellCode(p) /\ ShellCode(r) => p = r
    /\ \A p \in Procs :
          /\ procs[p].at = "prompt" => ~procs[p].in /\ ~procs[p].out /\ procs[p].q = 0
          /\ procs[p].in \/ procs[p].out => procs[p].q # 0
    /\ \A s \in Slots : pipes[s].cnt = 2 * Cardinality({p \in Procs : procs[p].q = s})

\* what the commands before the last write to the pipe, with the notices of the shell
Written(line) ==
    LET Sum(sizes) == FoldSeq(LAMBDA x, y : x + y, 0, sizes)
        Size(c) == CASE c.kind = "builtin" -> Sum(c.out)
                     [] c.kind = "missing" -> Message + Notice
                     [] c.kind = "forker"  -> 2 * Sum(c.out) + Notice
                     [] c.kind = "writer"  -> Sum(c.out) + Notice
                     [] OTHER              -> Notice
    IN  Sum([k \in 1..(Len(line) - 1) |-> Size(line[k])])

Fits(line) == Written(line) < BufSize /\ \A k \in DOMAIN line : line[k].kind # "empty"

Prompt == \E p \in Procs : procs[p].at = "prompt"

\* A line comes to its end, and a shell prompts for the next, when the pipe can hold all that
\* its commands write before the last one starts (pipe_run).
LineEnds ==
    \A line \in Lines : Fits(line) =>
        ((\E p \in Procs : procs[p].at = "cmd" /\ procs[p].line = line) ~> (Prompt \/ bad))
=============================================================================
