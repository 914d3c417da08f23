------------------------- MODULE HiddenInputProofs -------------------------
(***************************************************************************)
(* Proofs about HiddenInput for any number of programs, any limits and any *)
(* length of what is typed.                                                *)
(***************************************************************************)
EXTENDS HiddenInput, TLAPS

(* A line takes no more than there is: what is left of a queue are keys of *)
(* the queue.                                                              *)
LEMMA TailKeys ==
    ASSUME NEW s \in Seq(Keys), s # <<>>
    PROVE  /\ Head(s) \in Keys /\ Head(s) = s[1] /\ 1 \in DOMAIN s
           /\ Tail(s) \in Seq(Keys) /\ Len(Tail(s)) = Len(s) - 1
           /\ \A n \in DOMAIN Tail(s) : n + 1 \in DOMAIN s /\ Tail(s)[n] = s[n + 1]
OBVIOUS

LEMMA AppendKey ==
    ASSUME NEW s \in Seq(Keys), NEW k \in Keys
    PROVE  /\ Append(s, k) \in Seq(Keys) /\ Len(Append(s, k)) = Len(s) + 1
           /\ \A n \in DOMAIN Append(s, k) :
                 \/ n \in DOMAIN s /\ Append(s, k)[n] = s[n]
                 \/ Append(s, k)[n] = k
OBVIOUS

LEMMA HasLineNotEmpty == ASSUME queue \in Seq(Keys), HasLine PROVE queue # <<>>
BY DEF HasLine

LEMMA InitIInv == Init => IInv
<1> SUFFICES ASSUME Init PROVE IInv
  OBVIOUS
<1>1. Rounds \in [Programs -> 0 .. 2]
  BY HiddenInputAssumption
<1>2. value \in [Programs -> Seq(Keys)] /\ \A p \in Programs : Len(value[p]) <= Limit
  BY HiddenInputAssumption DEF Init
<1>3. TypeOK
  <2>1. queue \in Seq(Keys) /\ Len(queue) <= MaxQueue
    BY HiddenInputAssumption DEF Init
  <2>2. pc \in [Programs -> Running \cup {"start", "done", "failed", "killed"}]
    BY DEF Init
  <2>3. saved \in [Programs -> BOOLEAN]
    BY DEF Init
  <2> QED BY <1>1, <1>2, <2>1, <2>2, <2>3 DEF Init, TypeOK
<1> QED
  BY <1>3 DEF Init, IInv, Alone, EchoSaved, EchoOff, QueueAsEchoed, Hidden,
              ValueNeverShown, HiddenStaysPrivate

(* What the user types is shown as long as the terminal echoes.            *)
LEMMA TypingIInv == ASSUME IInv, Type \/ Enter PROVE IInv'
<1>1. PICK x \in Keys : queue' = Append(queue, x) /\ x.shown = echo
  BY DEF IInv, TypeOK, Type, Enter, Letter, EndOfLine, Keys
<1>2. Len(queue) < MaxQueue /\ UNCHANGED <<echo, program, ghost>>
  BY DEF Type, Enter
<1>3. TypeOK'
  BY <1>1, <1>2, AppendKey, HiddenInputAssumption
  DEF IInv, TypeOK, program, ghost
<1>4. ~disturbed => QueueAsEchoed'
  BY <1>1, <1>2, AppendKey DEF IInv, TypeOK, QueueAsEchoed, program, ghost
<1> QED
  BY <1>2, <1>3, <1>4
  DEF IInv, Alone, EchoSaved, EchoOff, ValueNeverShown, HiddenStaysPrivate,
      program, ghost

(* The shell reads while no prompt is hidden: the echo is on.              *)
LEMMA ShellIInv == ASSUME IInv, Shell PROVE IInv'
<1>1. queue # <<>>
  BY HasLineNotEmpty DEF IInv, TypeOK, Shell
<1>2. /\ queue' = Tail(queue) /\ UNCHANGED <<echo, program, disturbed>>
      /\ shellSaw' = (shellSaw \/ ~Head(queue).shown)
  BY DEF Shell
<1>3. TypeOK'
  BY <1>1, <1>2, TailKeys, HiddenInputAssumption
  DEF IInv, TypeOK, Keys, program
<1>4. ~disturbed => QueueAsEchoed'
  BY <1>1, <1>2, TailKeys DEF IInv, TypeOK, QueueAsEchoed
<1>5. ~disturbed => ~shellSaw'
  <2>1. ~disturbed => echo
    BY DEF IInv, EchoOff, Shell, Running
  <2> QED BY <1>1, <1>2, <2>1, TailKeys
          DEF IInv, TypeOK, QueueAsEchoed, HiddenStaysPrivate
<1> QED
  BY <1>2, <1>3, <1>4, <1>5
  DEF IInv, Alone, EchoSaved, EchoOff, ValueNeverShown, HiddenStaysPrivate,
      program

(* A key that a program takes was typed while the echo was off.            *)
LEMMA ReadIInv == ASSUME IInv, NEW p \in Programs, Read(p) PROVE IInv'
<1>1. queue # <<>>
  BY HasLineNotEmpty DEF IInv, TypeOK, Read, TakeKey
<1>2. /\ pc[p] = "read" /\ queue' = Tail(queue)
      /\ UNCHANGED <<echo, left, saved, ghost>>
  BY DEF Read, TakeKey
<1>3. /\ \A q \in Programs \ {p} : pc'[q] = pc[q]
      /\ pc'[p] \in Hidden
      /\ pc' \in [Programs -> Running \cup {"start", "done", "failed", "killed"}]
  BY DEF Read, TakeKey, Goto, IInv, TypeOK, Hidden, Running
<1>4. /\ \A q \in Programs \ {p} : value'[q] = value[q]
      /\ \/ value'[p] = value[p]
         \/ value'[p] = Append(value[p], Head(queue)) /\ Len(value[p]) < Limit
  BY HiddenInputAssumption DEF Read, TakeKey, IInv, TypeOK
<1>5. /\ value' \in [Programs -> Seq(Keys)]
      /\ \A q \in Programs : Len(value'[q]) <= Limit
  <2>1. Append(value[p], Head(queue)) \in Seq(Keys)
        /\ Len(Append(value[p], Head(queue))) = Len(value[p]) + 1
    BY <1>1, TailKeys, AppendKey DEF IInv, TypeOK
  <2>2. value' = value
        \/ value' = [value EXCEPT ![p] = Append(value[p], Head(queue))]
    BY DEF Read, TakeKey
  <2>3. value' \in [Programs -> Seq(Keys)]
    BY <2>1, <2>2 DEF IInv, TypeOK
  <2>4. Len(value'[p]) <= Limit
    BY <1>4, <2>1, HiddenInputAssumption DEF IInv, TypeOK
  <2> QED BY <1>4, <2>3, <2>4 DEF IInv, TypeOK
<1>6. TypeOK'
  <2>1. queue' \in Seq(Keys) /\ Len(queue') <= MaxQueue
    BY <1>1, <1>2, TailKeys, HiddenInputAssumption DEF IInv, TypeOK
  <2> QED BY <1>2, <1>3, <1>5, <2>1 DEF IInv, TypeOK, ghost
<1>7. ASSUME ~disturbed PROVE /\ Alone' /\ EchoSaved' /\ EchoOff'
                              /\ QueueAsEchoed' /\ ValueNeverShown'
  <2>1. ~echo /\ Alone /\ EchoSaved
    BY <1>2, <1>7 DEF IInv, EchoOff, Hidden
  <2>2. Alone' /\ EchoSaved' /\ EchoOff'
    BY <1>2, <1>3, <2>1 DEF Alone, EchoSaved, EchoOff, Hidden
  <2>3. QueueAsEchoed' /\ ~Head(queue).shown
    BY <1>1, <1>2, <1>7, <2>1, TailKeys DEF IInv, TypeOK, QueueAsEchoed
  <2>4. ASSUME NEW q \in Programs, NEW n \in DOMAIN value'[q]
        PROVE  ~value'[q][n].shown
    <3>1. CASE q # p \/ value'[p] = value[p]
      BY <1>4, <1>7, <3>1 DEF IInv, ValueNeverShown
    <3>2. CASE q = p /\ value'[p] = Append(value[p], Head(queue))
      BY <1>1, <1>7, <2>3, <3>2, TailKeys, AppendKey
      DEF IInv, TypeOK, ValueNeverShown
    <3> QED BY <1>4, <3>1, <3>2
  <2> QED BY <2>2, <2>3, <2>4 DEF ValueNeverShown
<1> QED
  BY <1>2, <1>6, <1>7 DEF IInv, ValueNeverShown, HiddenStaysPrivate, ghost

(* A prompt begins with an empty value.                                    *)
LEMMA PromptIInv == ASSUME IInv, NEW p \in Programs, Prompt(p) PROVE IInv'
<1>1. /\ value' = [value EXCEPT ![p] = <<>>] /\ pc' = [pc EXCEPT ![p] = "save"]
      /\ left' = [left EXCEPT ![p] = @ - 1] /\ left[p] > 0
      /\ UNCHANGED <<echo, queue, saved, shellSaw, disturbed>>
  BY DEF Prompt, Goto, terminal, ghost
<1>2. /\ value' \in [Programs -> Seq(Keys)] /\ value'[p] = <<>>
      /\ \A q \in Programs \ {p} : value'[q] = value[q]
  BY <1>1 DEF IInv, TypeOK
<1>3. \A q \in Programs : Len(value'[q]) <= Limit
  <2>1. Len(value'[p]) <= Limit
    BY <1>2, HiddenInputAssumption
  <2> QED BY <1>2, <2>1 DEF IInv, TypeOK
<1>4. left' \in [Programs -> 0 .. 2]
  BY <1>1 DEF IInv, TypeOK
<1>5. pc' \in [Programs -> Running \cup {"start", "done", "failed", "killed"}]
  BY <1>1 DEF IInv, TypeOK, Running
<1>6. TypeOK'
  BY <1>1, <1>2, <1>3, <1>4, <1>5 DEF IInv, TypeOK
<1>7. ~disturbed => Alone' /\ EchoSaved' /\ EchoOff' /\ QueueAsEchoed'
  BY <1>1 DEF IInv, TypeOK, Alone, EchoSaved, EchoOff, QueueAsEchoed, Prompt,
              Hidden
<1>8. ValueNeverShown'
  BY <1>1, <1>2 DEF IInv, ValueNeverShown
<1> QED
  BY <1>1, <1>6, <1>7, <1>8 DEF IInv, HiddenStaysPrivate

(* The prompt goes on without a key, or ends.                              *)
LEMMA GoOnIInv ==
    ASSUME IInv, NEW p \in Programs, ReadFails(p) \/ Return(p) \/ Fail(p)
    PROVE  IInv'
<1> USE DEF IInv, TypeOK, Alone, EchoSaved, EchoOff, QueueAsEchoed,
            ValueNeverShown, HiddenStaysPrivate, Hidden, Running, Goto,
            terminal, ghost
<1>1. CASE ReadFails(p)
  BY <1>1 DEF ReadFails
<1>2. CASE Return(p)
  BY <1>2 DEF Return
<1>3. CASE Fail(p)
  BY <1>3 DEF Fail
<1> QED BY <1>1, <1>2, <1>3

(* The guard finds the echo on, unless another prompt is under way.        *)
LEMMA SaveIInv == ASSUME IInv, NEW p \in Programs, Save(p) PROVE IInv'
BY DEF Save, IInv, TypeOK, Alone, EchoSaved, EchoOff, QueueAsEchoed,
       ValueNeverShown, HiddenStaysPrivate, Hidden, Running, Goto, terminal

(* The echo goes off with an empty queue; from here on p is hidden.        *)
LEMMA HideIInv == ASSUME IInv, NEW p \in Programs, Hide(p) PROVE IInv'
<1>1. /\ pc[p] = "hide" /\ pc' = [pc EXCEPT ![p] = "read"]
      /\ echo' = FALSE /\ queue' = <<>>
      /\ UNCHANGED <<left, saved, value, shellSaw, disturbed>>
  BY DEF Hide, SetEcho, Goto, ghost
<1>2. queue' \in Seq(Keys) /\ Len(queue') <= MaxQueue /\ DOMAIN queue' = {}
  BY <1>1, HiddenInputAssumption
<1>3. pc' \in [Programs -> Running \cup {"start", "done", "failed", "killed"}]
  BY <1>1 DEF IInv, TypeOK, Running, Hidden
<1>4. TypeOK'
  BY <1>1, <1>2, <1>3 DEF IInv, TypeOK
<1>5. ~disturbed => Alone' /\ EchoSaved' /\ EchoOff'
  BY <1>1 DEF IInv, TypeOK, Alone, EchoSaved, EchoOff, Hidden
<1> QED
  BY <1>1, <1>2, <1>4, <1>5
  DEF IInv, QueueAsEchoed, ValueNeverShown, HiddenStaysPrivate

(* The only program that was hidden puts the echo back as it was.          *)
LEMMA RestoreIInv == ASSUME IInv, NEW p \in Programs, Restore(p) PROVE IInv'
<1>1. /\ pc[p] \in {"restore", "unwind"} /\ echo' = saved[p] /\ queue' = <<>>
      /\ \E place \in {"newline", "failed"} : pc' = [pc EXCEPT ![p] = place]
      /\ UNCHANGED <<left, saved, value, shellSaw, disturbed>>
  BY DEF Restore, SetEcho, Goto, ghost
<1>2. queue' \in Seq(Keys) /\ Len(queue') <= MaxQueue /\ DOMAIN queue' = {}
  BY <1>1, HiddenInputAssumption
<1>3. pc' \in [Programs -> Running \cup {"start", "done", "failed", "killed"}]
  BY <1>1 DEF IInv, TypeOK, Running, Hidden
<1>4. echo' \in BOOLEAN
  BY <1>1 DEF IInv, TypeOK
<1>5. TypeOK'
  BY <1>1, <1>2, <1>3, <1>4 DEF IInv, TypeOK
<1>6. ~disturbed => Alone' /\ EchoSaved' /\ EchoOff'
  BY <1>1 DEF IInv, TypeOK, Alone, EchoSaved, EchoOff, Hidden
<1> QED
  BY <1>1, <1>2, <1>5, <1>6
  DEF IInv, QueueAsEchoed, ValueNeverShown, HiddenStaysPrivate

(* A terminal that is not restored is a case that is excepted.             *)
LEMMA RestoreFailsIInv ==
    ASSUME IInv, NEW p \in Programs, RestoreFails(p) PROVE IInv'
<1>1. /\ \E place \in {"newline", "failed"} : pc' = [pc EXCEPT ![p] = place]
      /\ disturbed' = TRUE
      /\ UNCHANGED <<echo, queue, left, saved, value, shellSaw>>
  BY DEF RestoreFails, Goto, terminal
<1>2. pc' \in [Programs -> Running \cup {"start", "done", "failed", "killed"}]
  BY <1>1 DEF IInv, TypeOK, Running, Hidden
<1>3. TypeOK'
  BY <1>1, <1>2 DEF IInv, TypeOK
<1> QED
  BY <1>1, <1>3 DEF IInv, ValueNeverShown, HiddenStaysPrivate

(* So is a kill during the prompt.                                         *)
LEMMA KillIInv == ASSUME IInv, NEW p \in Programs, Kill(p) PROVE IInv'
<1>1. /\ pc' = [pc EXCEPT ![p] = "killed"] /\ queue' \in {queue, <<>>}
      /\ disturbed' = (disturbed \/ pc[p] \in Hidden)
      /\ UNCHANGED <<echo, left, saved, value, shellSaw>>
  BY DEF Kill, Goto
<1>2. queue' \in Seq(Keys) /\ Len(queue') <= MaxQueue
      /\ \A n \in DOMAIN queue' : n \in DOMAIN queue /\ queue'[n] = queue[n]
  <2>1. CASE queue' = queue
    BY <2>1 DEF IInv, TypeOK
  <2>2. CASE queue' = <<>>
    BY <2>2, HiddenInputAssumption
  <2> QED BY <1>1, <2>1, <2>2
<1>3. pc' \in [Programs -> Running \cup {"start", "done", "failed", "killed"}]
  BY <1>1 DEF IInv, TypeOK
<1>4. disturbed' \in BOOLEAN
  BY <1>1 DEF IInv, TypeOK
<1>5. TypeOK'
  BY <1>1, <1>2, <1>3, <1>4 DEF IInv, TypeOK
<1>6. ~disturbed' => Alone' /\ EchoSaved' /\ EchoOff'
  BY <1>1 DEF IInv, TypeOK, Alone, EchoSaved, EchoOff, Hidden
<1>7. ~disturbed' => QueueAsEchoed'
  BY <1>1, <1>2 DEF IInv, QueueAsEchoed
<1> QED
  BY <1>1, <1>5, <1>6, <1>7 DEF IInv, ValueNeverShown, HiddenStaysPrivate

LEMMA StepIInv == IInv /\ [Next]_vars => IInv'
<1> SUFFICES ASSUME IInv, [Next]_vars PROVE IInv'
  OBVIOUS
<1>1. CASE UNCHANGED vars
  BY <1>1 DEF vars, terminal, program, ghost, IInv, TypeOK, Alone, EchoSaved,
              EchoOff, QueueAsEchoed, ValueNeverShown, HiddenStaysPrivate
<1>2. CASE Type \/ Enter
  BY <1>2, TypingIInv
<1>3. CASE Shell
  BY <1>3, ShellIInv
<1>4. ASSUME NEW p \in Programs, ProgramNext(p) PROVE IInv'
  BY <1>4, PromptIInv, GoOnIInv, SaveIInv, HideIInv, ReadIInv, RestoreIInv,
     RestoreFailsIInv, KillIInv
  DEF ProgramNext
<1> QED BY <1>1, <1>2, <1>3, <1>4 DEF Next

LEMMA Invariance == Spec => []IInv
BY InitIInv, StepIInv, PTL DEF Spec

(* Types, and no value is longer than maximum_size, whatever is typed.     *)
THEOREM TypeCorrect == Spec => []TypeOK
<1>1. IInv => TypeOK
  BY DEF IInv
<1> QED BY <1>1, Invariance, PTL

(* No key that was echoed enters a password, for any number of programs    *)
(* that prompt one after the other on one terminal, which they restore.    *)
THEOREM NoShownKey == Spec => []ValueNeverShown
<1>1. IInv => ValueNeverShown
  BY DEF IInv
<1> QED BY <1>1, Invariance, PTL

(* No key that was typed in the dark reaches the shell, as long as no      *)
(* program is killed at its prompt, no two prompts overlap, and the        *)
(* terminal lets itself be restored.                                       *)
THEOREM NoHiddenCommand == Spec => []HiddenStaysPrivate
<1>1. IInv => HiddenStaysPrivate
  BY DEF IInv
<1> QED BY <1>1, Invariance, PTL

(* Every way out of prompt_hidden_input but a kill restores the echo, if   *)
(* no two prompts overlap and the terminal lets itself be restored.        *)
THEOREM EchoComesBack == Spec => []EchoRestored
<1>1. IInv => EchoRestored
  BY DEF IInv, EchoOff, EchoRestored
<1> QED BY <1>1, Invariance, PTL
=============================================================================
