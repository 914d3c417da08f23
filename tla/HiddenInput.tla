---------------------------- MODULE HiddenInput ----------------------------
(***************************************************************************)
(* prompt_hidden_input (src/common/hidden_input.cpp) at a terminal where   *)
(* the user may type at any time, whatever is reading there: a program     *)
(* that prompts once or twice, another such program, or the shell when no  *)
(* program is running.                                                     *)
(*                                                                         *)
(* The terminal hands out complete lines only.  A key is recorded with     *)
(* whether the terminal echoed it; which letter it is does not matter.     *)
(* Enter stands for every end of a line: '\n', '\r', and the end of file   *)
(* at the beginning of a line.                                             *)
(***************************************************************************)
EXTENDS Naturals, Sequences

CONSTANTS
    Programs,       \* programs that prompt
    Rounds,         \* how many prompts each has (with confirmation, two)
    Limit,          \* maximum_size
    LineMax,        \* the longest line the terminal keeps
    MaxQueue        \* bound: keys the terminal holds

ASSUME HiddenInputAssumption ==
    /\ Rounds \in [Programs -> {1, 2}]
    /\ Limit \in Nat \ {0} /\ LineMax \in Nat /\ MaxQueue \in Nat

VARIABLES
    echo,       \* ECHO of the terminal
    queue,      \* what has been typed and not yet read
    pc,         \* where each program is
    left,       \* prompts it still has
    saved,      \* original_ of its terminal_guard
    value,      \* the secret_input it fills
    shellSaw,   \* ghost: the shell has read a key that was not echoed
    disturbed   \* ghost: a program was killed in the middle of its prompt,
                \* two prompts overlapped, or the terminal refused to be
                \* restored

terminal == <<echo, queue>>
program  == <<pc, left, saved, value>>
ghost    == <<shellSaw, disturbed>>
vars     == <<terminal, program, ghost>>

(* A terminal_guard is alive. *)
Hidden == {"read", "restore", "unwind"}
Running == Hidden \cup {"save", "hide", "newline"}

Letter == [key |-> "letter", shown |-> echo]
EndOfLine == [key |-> "enter", shown |-> echo]

Init == /\ echo = TRUE /\ queue = <<>>
        /\ pc = [p \in Programs |-> "start"]
        /\ left = Rounds
        /\ saved = [p \in Programs |-> TRUE]
        /\ value = [p \in Programs |-> <<>>]
        /\ shellSaw = FALSE
        /\ disturbed = FALSE

Goto(p, place) == pc' = [pc EXCEPT ![p] = place]

-----------------------------------------------------------------------------
(* The terminal                                                            *)

IsEnter(k) == k.key = "enter"
HasLine == \E n \in DOMAIN queue : IsEnter(queue[n])

(* The keys after the last Enter. *)
LineLength == Len(SelectSeq(queue, LAMBDA k : ~IsEnter(k)))

(* A key, or Enter.  Keys beyond the longest line are dropped. *)
Type == /\ Len(queue) < MaxQueue
        /\ HasLine \/ LineLength < LineMax
        /\ queue' = Append(queue, Letter)
        /\ UNCHANGED <<echo, program, ghost>>

Enter == /\ Len(queue) < MaxQueue
         /\ queue' = Append(queue, EndOfLine)
         /\ UNCHANGED <<echo, program, ghost>>

(* tcsetattr with TCSAFLUSH: what has not been read is gone. *)
SetEcho(on) == echo' = on /\ queue' = <<>>

(* The shell reads when no program does. *)
Shell == /\ \A p \in Programs : pc[p] \notin Running
         /\ HasLine
         /\ shellSaw' = (shellSaw \/ ~Head(queue).shown)
         /\ queue' = Tail(queue)
         /\ UNCHANGED <<echo, program, disturbed>>

-----------------------------------------------------------------------------
(* prompt_hidden_input                                                     *)

(* open of the terminal, and the prompt; the last value is in the caller's *)
(* hands.                                                                  *)
Prompt(p) == /\ pc[p] \in {"start", "newline"}
             /\ left[p] > 0
             /\ left' = [left EXCEPT ![p] = @ - 1]
             /\ value' = [value EXCEPT ![p] = <<>>]
             /\ Goto(p, "save")
             /\ UNCHANGED <<terminal, saved, ghost>>

(* tcgetattr of the terminal_guard. *)
Save(p) == /\ pc[p] = "save"
           /\ saved' = [saved EXCEPT ![p] = echo]
           /\ Goto(p, "hide")
           /\ disturbed' = (disturbed \/ \E q \in Programs \ {p} :
                                            pc[q] \in Hidden \cup {"hide"})
           /\ UNCHANGED <<terminal, left, value, shellSaw>>

(* Here and below, an operator with a suffix is a plausible wrong version  *)
(* of the one after it; Next does not use it.                              *)
HideNow(p) == /\ pc[p] = "hide"
              /\ echo' = FALSE
              /\ Goto(p, "read")
              /\ UNCHANGED <<queue, left, saved, value, ghost>>

(* tcsetattr without ECHO; from here on the guard restores the terminal. *)
Hide(p) == /\ pc[p] = "hide"
           /\ SetEcho(FALSE)
           /\ Goto(p, "read")
           /\ UNCHANGED <<left, saved, value, ghost>>

(* One key of the line.  The limit is tested before a letter is stored. *)
TakeKey(p, tooLong) ==
    /\ pc[p] = "read"
    /\ HasLine
    /\ queue' = Tail(queue)
    /\ IF IsEnter(Head(queue))
       THEN Goto(p, "restore") /\ UNCHANGED value
       ELSE IF Len(value[p]) >= Limit
       THEN Goto(p, tooLong) /\ UNCHANGED value
       ELSE value' = [value EXCEPT ![p] = Append(@, Head(queue))]
            /\ UNCHANGED pc
    /\ UNCHANGED <<echo, left, saved, ghost>>

ReadNoGuard(p) == TakeKey(p, "failed")

(* The exception leaves through the guard. *)
Read(p) == TakeKey(p, "unwind")

ReadFails(p) == /\ pc[p] = "read"
                /\ Goto(p, "unwind")
                /\ UNCHANGED <<terminal, left, saved, value, ghost>>

RestoreNow(p) == /\ pc[p] \in {"restore", "unwind"}
                 /\ echo' = saved[p]
                 /\ Goto(p, IF pc[p] = "restore" THEN "newline" ELSE "failed")
                 /\ UNCHANGED <<queue, left, saved, value, ghost>>

(* The destructor of the guard, after the line or an exception. *)
Restore(p) == /\ pc[p] \in {"restore", "unwind"}
              /\ SetEcho(saved[p])
              /\ Goto(p, IF pc[p] = "restore" THEN "newline" ELSE "failed")
              /\ UNCHANGED <<left, saved, value, ghost>>

(* A destructor cannot report that tcsetattr has failed.                   *)
RestoreFails(p) == /\ pc[p] \in {"restore", "unwind"}
                   /\ Goto(p, IF pc[p] = "restore" THEN "newline" ELSE "failed")
                   /\ disturbed' = TRUE
                   /\ UNCHANGED <<terminal, left, saved, value, shellSaw>>

Return(p) == /\ pc[p] = "newline"
             /\ left[p] = 0
             /\ Goto(p, "done")
             /\ UNCHANGED <<terminal, left, saved, value, ghost>>

(* A call on the terminal fails while no guard is alive. *)
Fail(p) == /\ pc[p] \in {"save", "hide", "newline"}
           /\ Goto(p, "failed")
           /\ UNCHANGED <<terminal, left, saved, value, ghost>>

(* A signal: no handler is installed while a program prompts, and no       *)
(* destructor runs.  Typed at the terminal it also empties the queue.      *)
Kill(p) == /\ pc[p] \in Running
           /\ Goto(p, "killed")
           /\ queue' \in {queue, <<>>}
           /\ disturbed' = (disturbed \/ pc[p] \in Hidden)
           /\ UNCHANGED <<echo, left, saved, value, shellSaw>>

ProgramNext(p) == \/ Prompt(p) \/ Save(p) \/ Hide(p) \/ Read(p) \/ ReadFails(p)
                  \/ Restore(p) \/ RestoreFails(p)
                  \/ Return(p) \/ Fail(p) \/ Kill(p)

Next == Type \/ Enter \/ Shell \/ \E p \in Programs : ProgramNext(p)

Spec == Init /\ [][Next]_vars

-----------------------------------------------------------------------------
Keys == [key : {"letter", "enter"}, shown : BOOLEAN]

(* The state has its type, and no value exceeds its limit. *)
TypeOK == /\ echo \in BOOLEAN
          /\ queue \in Seq(Keys) /\ Len(queue) <= MaxQueue
          /\ pc \in [Programs -> Running \cup {"start", "done", "failed",
                                               "killed"}]
          /\ left \in [Programs -> 0 .. 2]
          /\ saved \in [Programs -> BOOLEAN]
          /\ value \in [Programs -> Seq(Keys)]
          /\ \A p \in Programs : Len(value[p]) <= Limit
          /\ shellSaw \in BOOLEAN /\ disturbed \in BOOLEAN

(* "Reads one bounded line from /dev/tty with terminal echo disabled":     *)
(* nothing that was on the screen becomes part of a value, not even what   *)
(* was typed before the prompt or between two prompts.                     *)
ValueNeverShown ==
    ~disturbed => \A p \in Programs : \A n \in DOMAIN value[p] :
                      ~value[p][n].shown

(* What was typed in the dark is not taken for a command: the rest of a    *)
(* line that was too long, or was typed while the prompt failed.           *)
HiddenStaysPrivate == ~disturbed => ~shellSaw

(* The terminal echoes again whenever nobody reads a hidden value, however *)
(* the prompts before have ended.                                          *)
EchoRestored == ~disturbed /\ (\A p \in Programs : pc[p] \notin Hidden) => echo

-----------------------------------------------------------------------------
(* Why they hold: prompts that do not overlap find the echo on and leave   *)
(* it so, and whoever changes it empties the queue.                        *)
Alone == \A p, q \in Programs :
             {pc[p], pc[q]} \subseteq Hidden \cup {"hide"} => p = q
EchoSaved == \A p \in Programs : pc[p] \in Hidden \cup {"hide"} => saved[p]
EchoOff == echo <=> \A p \in Programs : pc[p] \notin Hidden
QueueAsEchoed == \A n \in DOMAIN queue : queue[n].shown = echo

IInv == /\ TypeOK
        /\ ~disturbed => Alone /\ EchoSaved /\ EchoOff /\ QueueAsEchoed
        /\ ValueNeverShown
        /\ HiddenStaysPrivate
=============================================================================
