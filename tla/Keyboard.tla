------------------------------ MODULE Keyboard ------------------------------
(***************************************************************************)
(* Typing: the keyboard, the interrupt handler of device/keyboard.c that   *)
(* decodes scancodes into kbd_buf, and the processes that read it with     *)
(* sys_read(stdin_no).                                                     *)
(*                                                                         *)
(* A character is <<index, column>>: its place in keymap, whose columns    *)
(* are "plain" and "shift", or "ctrl" for a converted ctrl-l or ctrl-u.    *)
(*                                                                         *)
(* pc[t]: "user", "read" at the loop test of ioq_getchar(), "lock" asleep  *)
(* in lock_acquire(), "wait" asleep in ioq_wait(); "idle" and "hlt".       *)
(***************************************************************************)
EXTENDS Ioqueue

CONSTANTS Readers,   \* the processes that read stdin
          Keys,      \* the keys that are pressed: [ext, code]
          BootOrder, \* thread_ready_list behind the running thread
          First,     \* the thread that runs first
          MaxBytes   \* bound: scancode bytes on their way

ASSUME KeyboardAssumption ==
    /\ Readers \subseteq Threads \ {Idle} /\ First \in Threads \ {Idle}
    /\ Keys \subseteq [ext : BOOLEAN, code : 1..127]
    /\ BootOrder \in Seq(Threads) /\ NoDup(BootOrder)
    /\ Range(BootOrder) = Threads \ {First}
    /\ MaxBytes \in Nat

VARIABLES sched,   \* the scheduler record of module Thread
          kbd_buf, \* the queue
          mods,    \* ctrl_status, shift_status, alt_status, caps_lock_status,
                   \* ext_scancode
          down,    \* the keys that are held down
          bytes,   \* the scancode bytes not yet read from the port
          pc,      \* where each thread is
          got      \* the last character each reader was given

vars == <<sched, kbd_buf, mods, down, bytes, pc, got>>

Init ==
    /\ sched = [status |-> [t \in Threads |-> IF t = First THEN "RUNNING" ELSE "READY"],
                ready  |-> BootOrder, cur |-> First, ticks |-> Priority, panic |-> FALSE]
    /\ kbd_buf = ioqueue_init
    /\ mods = [ctrl |-> FALSE, shift |-> FALSE, alt |-> FALSE, caps |-> FALSE, ext |-> FALSE]
    /\ down = {} /\ bytes = <<>>
    /\ pc = [t \in Threads |-> IF t = Idle THEN "idle" ELSE "user"]
    /\ got = [r \in Readers |-> NULL]

-----------------------------------------------------------------------------
(* The keyboard controller (external)                                      *)

Send(key, code) ==
    LET s == (IF key.ext THEN <<\hE0>> ELSE <<>>) \o <<code>>
    IN  Len(bytes) + Len(s) <= MaxBytes /\ bytes' = bytes \o s

\* pressing a key, or its repetition while it is held
Press(key) ==
    /\ Send(key, key.code)
    /\ down' = down \cup {key}
    /\ UNCHANGED <<sched, kbd_buf, mods, pc, got>>

LetGo(key) ==
    /\ key \in down
    /\ Send(key, key.code + \h80)
    /\ down' = down \ {key}
    /\ UNCHANGED <<sched, kbd_buf, mods, pc, got>>

-----------------------------------------------------------------------------
(* intr_keyboard_handler()                                                 *)

ctrl_l_make == \h1D
ctrl_r_make == \hE01D
shift_l_make == \h2A
shift_r_make == \h36
alt_l_make == \h38
alt_r_make == \hE038
caps_lock_make == \h3A
maybe_return == \hE01C

\* keymap: the entries that are char_invisible
Invisible == {\h00, \h1D, \h2A, \h36, \h38, \h3A}

\* keys that caps lock leaves alone
NumOrSym == 0..\h0D \cup {\h29, \h1A, \h1B, \h2B, \h27, \h28, \h33, \h34, \h35}

\* Mutant of SetMod: forgets the two-byte code of the right ctrl key.
SetModLeftOnly(m, code, on) ==
    CASE code = ctrl_l_make                    -> [m EXCEPT !.ctrl = on]
      [] code \in {shift_l_make, shift_r_make} -> [m EXCEPT !.shift = on]
      [] code \in {alt_l_make, alt_r_make}     -> [m EXCEPT !.alt = on]
      [] code = caps_lock_make /\ on           -> [m EXCEPT !.caps = ~@]
      [] OTHER -> m

\* the modifier after a make (on) or break code
SetMod(m, code, on) ==
    CASE code \in {ctrl_l_make, ctrl_r_make}   -> [m EXCEPT !.ctrl = on]
      [] code \in {shift_l_make, shift_r_make} -> [m EXCEPT !.shift = on]
      [] code \in {alt_l_make, alt_r_make}     -> [m EXCEPT !.alt = on]
      [] code = caps_lock_make /\ on           -> [m EXCEPT !.caps = ~@]
      [] OTHER -> m

Shifted(m, code) == IF code \in NumOrSym THEN m.shift ELSE m.shift # m.caps

\* 'l' and 'u' of keymap, the characters that ctrl converts
Convert(m, index, shift) ==
    IF shift THEN <<index, "shift">>
    ELSE IF m.ctrl /\ index \in {\h26, \h16} THEN <<index, "ctrl">>
    ELSE <<index, "plain">>

\* the modifiers and the character (or NULL) that one byte leads to
Decode(m, byte) ==
    LET code  == IF m.ext THEN \hE000 + byte ELSE byte
        n     == [m EXCEPT !.ext = FALSE]
        index == code % 256
    IN  CASE byte = \hE0 -> [m |-> [m EXCEPT !.ext = TRUE], c |-> NULL]
          [] byte # \hE0 /\ byte >= \h80 -> [m |-> SetMod(n, code - \h80, FALSE), c |-> NULL]
          [] OTHER ->
               IF code \notin (1..\h3A) \cup {alt_r_make, ctrl_r_make, maybe_return}
               THEN [m |-> n, c |-> NULL]
               ELSE IF index \in Invisible
               THEN [m |-> SetMod(n, index, TRUE), c |-> NULL]
               ELSE [m |-> n, c |-> Convert(n, index, Shifted(n, code))]

IntrOn(t) == pc[t] \in {"user", "idle", "hlt"}

\* an interrupt ends idle()'s hlt unless it came just before it
EndHlt ==
    \/ pc' = pc
    \/ pc[sched.cur] = "hlt" /\ pc' = [pc EXCEPT ![sched.cur] = "idle"]

intr_keyboard_handler ==
    /\ ~sched.panic /\ IntrOn(sched.cur) /\ bytes # <<>>
    /\ LET d == Decode(mods, Head(bytes))
           r == IF d.c = NULL \/ ioq_full(kbd_buf) THEN [k |-> sched, q |-> kbd_buf]
                ELSE StoreChar(sched, kbd_buf, d.c)
       IN  mods' = d.m /\ sched' = r.k /\ kbd_buf' = r.q
    /\ bytes' = Tail(bytes)
    /\ EndHlt
    /\ UNCHANGED <<down, got>>

-----------------------------------------------------------------------------
(* sys_read(stdin_no, buf, count)                                          *)

Running(t, label) == sched.cur = t /\ ~sched.panic /\ pc[t] = label

Read(t) ==
    /\ Running(t, "user")
    /\ pc' = [pc EXCEPT ![t] = "read"]
    /\ UNCHANGED <<sched, kbd_buf, mods, down, bytes, got>>

\* the loop test of ioq_getchar(); a count above 1 goes straight on to the next
GetChar(t) ==
    /\ Running(t, "read") /\ ~ioq_empty(kbd_buf)
    /\ got' = [got EXCEPT ![t] = FirstChar(kbd_buf)]
    /\ LET r == TakeChar(sched, kbd_buf) IN sched' = r.k /\ kbd_buf' = r.q
    /\ \E next \in {"user", "read"} : pc' = [pc EXCEPT ![t] = next]
    /\ UNCHANGED <<mods, down, bytes>>

\* nothing to read: get the lock, then sleep until a character comes
AwaitChar(t) ==
    /\ (Running(t, "read") /\ ioq_empty(kbd_buf)) \/ Running(t, "lock")
    /\ LET r == WaitReady(sched, kbd_buf, "consumer")
       IN  sched' = r.k /\ kbd_buf' = r.q
    /\ pc' = [pc EXCEPT ![t] = IF GetsLock(kbd_buf) THEN "wait" ELSE "lock"]
    /\ UNCHANGED <<mods, down, bytes, got>>

CharCame(t) ==
    /\ Running(t, "wait")
    /\ LET r == EndWait(sched, kbd_buf) IN sched' = r.k /\ kbd_buf' = r.q
    /\ pc' = [pc EXCEPT ![t] = "read"]
    /\ UNCHANGED <<mods, down, bytes, got>>

\* sys_read() as a whole, once entered
sys_read(t) == GetChar(t) \/ AwaitChar(t) \/ CharCame(t)

-----------------------------------------------------------------------------
IdleBlock ==
    /\ Running(Idle, "idle")
    /\ sched' = thread_block(sched, "BLOCKED")
    /\ pc' = [pc EXCEPT ![Idle] = "hlt"]
    /\ UNCHANGED <<kbd_buf, mods, down, bytes, got>>

Tick ==
    /\ ~sched.panic /\ IntrOn(sched.cur)
    /\ sched' = intr_timer_handler(sched)
    /\ EndHlt
    /\ UNCHANGED <<kbd_buf, mods, down, bytes, got>>

Next ==
    \/ \E key \in Keys : Press(key) \/ LetGo(key)
    \/ intr_keyboard_handler \/ Tick \/ IdleBlock
    \/ \E t \in Readers : Read(t) \/ sys_read(t)

Spec == Init /\ [][Next]_vars

(***************************************************************************)
(* Fairness: interrupt requests stay pending, the CPU executes what a      *)
(* system call does next.                                                  *)
(***************************************************************************)
FairSpec ==
    /\ Spec
    /\ SF_vars(Tick) /\ SF_vars(IdleBlock) /\ SF_vars(intr_keyboard_handler)
    /\ \A t \in Readers : WF_vars(sys_read(t))

-----------------------------------------------------------------------------
(* Properties                                                              *)

\* every variable has the shape its C declaration gives it
TypeOK ==
    /\ sched \in SchedType
    /\ kbd_buf \in IoqType
    /\ mods \in [ctrl : BOOLEAN, shift : BOOLEAN, alt : BOOLEAN, caps : BOOLEAN, ext : BOOLEAN]
    /\ down \subseteq Keys
    /\ bytes \in Seq(1..255)
    /\ pc \in [Threads -> {"user", "read", "lock", "wait", "idle", "hlt"}]
    /\ got \in [Readers -> Chars \cup {NULL}]

\* No ASSERT of ioqueue.c, sync.c or thread.c fires: the handler never sleeps, and
\* the waiter it wakes is asleep. Every variable has its type.
SchedulerSound == TypeOK /\ SchedInv(sched)

\* The queue implements a bounded first-in first-out buffer of bufsize - 1
\* characters (ioqueue.h:17), for a handler and readers that interleave.
F == INSTANCE Fifo WITH content <- Content(kbd_buf), seen <- got,
                        Capacity <- BufSize - 1, None <- NULL

ImplementsFifo == F!Spec

\* A reader asleep in ioq_getchar() is asleep because there is nothing to read:
\* no character is stuck in the buffer until the next key.
NoStuckChar ==
    \A t \in Readers :
        pc[t] \in {"lock", "wait"} /\ sched.status[t] = "BLOCKED" =>
            \/ ioq_empty(kbd_buf)
            \/ \E u \in Readers : pc[u] = "wait" /\ sched.status[u] # "BLOCKED"

Among(keys, codes) == {key \in keys : (IF key.ext THEN \hE000 ELSE 0) + key.code \in codes}

\* the flag of the modifier whose left and right keys have these codes
Follows(flag, codes) ==
    /\ flag => Among(down, codes) # {}
    /\ Among(down, codes) = Among(Keys, codes) /\ Among(Keys, codes) # {} => flag

\* Once the handler has read every byte, ctrl_status, shift_status and alt_status are
\* clear when the modifier is up and set when both its keys are held, two-byte
\* scancodes included. (Of two keys held, letting go of one clears the flag.)
ModsFollowKeys ==
    bytes = <<>> =>
        /\ ~mods.ext
        /\ Follows(mods.ctrl, {ctrl_l_make, ctrl_r_make})
        /\ Follows(mods.shift, {shift_l_make, shift_r_make})
        /\ Follows(mods.alt, {alt_l_make, alt_r_make})

\* A reader that sleeps while there is a character gets one.
ReadReturns ==
    \A t \in Readers :
        (pc[t] \in {"lock", "wait"} /\ ~ioq_empty(kbd_buf)) ~> (pc[t] \notin {"lock", "wait"})
=============================================================================
