------------------------------ MODULE MCKeyboard ----------------------------
(***************************************************************************)
(* Keyboard for TLC: two processes, and idle. At most n of the processes   *)
(* read. Modifiers are pressed when none does; else keys repeat, and their *)
(* break codes, which the handler drops, are left out.                     *)
(***************************************************************************)
EXTENDS Keyboard

CONSTANTS reader1, reader2, idle

VARIABLE n  \* the processes that read stdin

MCThreads == {reader1, reader2, idle}
MCPriority == [t \in MCThreads |-> 0]
MCOrder == <<reader2, idle>>

Key(e, c) == [ext |-> e, code |-> c]

\* left shift, right shift, right ctrl, l
ModKeys == {Key(FALSE, \h2A), Key(FALSE, \h36), Key(TRUE, \h1D), Key(FALSE, \h26)}

\* the keys 1 and 2
PlainKeys == {Key(FALSE, 2), Key(FALSE, 3)}

MCKeys == ModKeys \cup PlainKeys
MCChars == ({\h26} \X {"plain", "shift", "ctrl"}) \cup ({2, 3} \X {"plain"})

MCInit == Init /\ n \in 0..2

MCNext ==
    /\ Next
    /\ down' \subseteq IF n = 0 THEN ModKeys ELSE PlainKeys
    /\ n > 0 => down \subseteq down'
    /\ n < 2 => pc'[reader2] = "user"
    /\ n < 1 => pc'[reader1] = "user"
    /\ UNCHANGED n

MCSpec ==
    /\ MCInit /\ [][MCNext]_<<vars, n>>
    /\ SF_vars(Tick) /\ SF_vars(IdleBlock) /\ SF_vars(intr_keyboard_handler)
    /\ \A t \in Readers : WF_vars(sys_read(t))

\* A single reader that sleeps while there is a character gets one.
ReadReturnsAlone == n = 1 => ReadReturns
=============================================================================
