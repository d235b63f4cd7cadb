------------------------------- MODULE MCPipe -------------------------------
(***************************************************************************)
(* Pipe, Shell and Files for TLC, one of them in a behaviour: a writer, a  *)
(* reader and idle on one queue; a shell with lines of up to three         *)
(* commands; two processes with two files and a directory to make.         *)
(***************************************************************************)
EXTENDS Pipe

CONSTANTS reader, writer, idle, byte1, byte2

VARIABLES part,                              \* "queue", "shell" or "files"
          sProcs, sPipes, sBad,              \* the variables of Shell
          fDir, fTable, fK, fFd, fSt, fCalls \* the variables of Files

sVars == <<sProcs, sPipes, sBad>>
fVars == <<fDir, fTable, fK, fFd, fSt, fCalls>>

MCThreads == {reader, writer, idle}
MCPriority == [t \in MCThreads |-> 0]
MCOrder == <<reader, idle>>

Do(kind, sizes) == [kind |-> kind, out |-> sizes]
Write == Do("writer", <<1, 1>>)
Filter == Do("filter", <<>>)

\* with a pipe for four bytes: the second and the third line fill it to the last byte or do
\* not, the fourth leaves an orphan that writes, the fifth becomes a second shell, the
\* seventh does not fit, the last one has no last command
MCLines == {<<Write>>, <<Write, Filter>>, <<Write, Filter, Filter>>,
            <<Do("forker", <<1>>), Filter>>, <<Do("data", <<>>), Filter>>,
            <<Do("missing", <<>>), Do("builtin", <<1>>)>>,
            <<Do("builtin", <<3, 2>>), Filter>>, <<Do("builtin", <<>>), Do("empty", <<>>)>>}

S == INSTANCE Shell WITH
        Procs <- 1..4, Slots <- {1, 2}, Lines <- MCLines, BufSize <- 5, ReadMax <- 3,
        Notice <- 1, Message <- 1,
        procs <- sProcs, pipes <- sPipes, bad <- sBad

MCFiles == {[name |-> "a", i |-> 1, type |-> "file"], [name |-> "b", i |-> 2, type |-> "file"]}

Fl == INSTANCE Files WITH
        Procs <- {1, 2}, Files <- MCFiles, Names <- {"c"}, Numbers <- 1..3, Slots <- 1..3,
        Locals <- {3, 4}, Objects <- 1..4, MaxCalls <- 4,
        dir <- fDir, table <- fTable, k <- fK, fd <- fFd, st <- fSt, calls <- fCalls

MCInit ==
    /\ part \in {"queue", "shell", "files"}
    /\ Init /\ S!Init /\ Fl!Init
    /\ part # "queue" => \A t \in Writers : out[t] = byte1
    /\ part # "files" => \A p \in 1..2 : fSt[p].at = "user"

Queue(A) == part = "queue" /\ A /\ UNCHANGED <<sVars, fVars, part>>

MCNext ==
    \/ Queue(Next)
    \/ part = "shell" /\ S!Next /\ UNCHANGED <<vars, fVars, part>>
    \/ part = "files" /\ Fl!Next /\ UNCHANGED <<vars, sVars, part>>

(***************************************************************************)
(* The fairness of FairSpec for the queue; in the shell, that a process    *)
(* that can run does (property ReadyRuns of module Process).               *)
(***************************************************************************)
MCSpec ==
    /\ MCInit /\ [][MCNext]_<<vars, sVars, fVars, part>>
    /\ SF_vars(Queue(Tick)) /\ SF_vars(Queue(IdleBlock))
    /\ \A t \in Writers : WF_vars(Queue(Writing(t)))
    /\ \A t \in Readers : SF_vars(Queue(Reading(t)))
    /\ \A p \in 1..4 : WF_sVars(part = "shell" /\ S!Step(p) /\ UNCHANGED <<vars, fVars, part>>)

-----------------------------------------------------------------------------
(* The properties of the other modules                                     *)

\* At most one process runs the code of the shell; at the prompt its descriptors are the
\* console; the count of a pipe is that of its descriptors. See module Shell.
ShellSound == S!ShellSound

\* A line whose output fits the pipe ends at a prompt. See module Shell.
LineEnds == S!LineEnds

\* The tables of open files and the directory agree until two calls meet. See module Files.
FilesSound == Fl!FilesSound
=============================================================================
