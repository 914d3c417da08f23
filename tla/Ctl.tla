-------------------------------- MODULE Ctl --------------------------------
(***************************************************************************)
(* The commands of zeta_vault_ctl that touch data of the user: execute     *)
(* (src/ctl/ctl.cpp) runs one of them, against what other programs do to   *)
(* the file it reads (SecretInput) or writes (SecretOutput), or on the     *)
(* bytes it has got (Utf8).  What belongs to another command rests.        *)
(***************************************************************************)
EXTENDS SecretInput, SecretOutput, Utf8

VARIABLE command

allVars == <<command, inputVars, outputVars, utf8Vars>>

TextCommands == {"put-utf8", "show-utf8"}

(* What belongs to a command that is not run. *)
InputRests == /\ path = Missing
              /\ content = [f \in Files |-> <<>>]
              /\ mode = CHOOSE m \in Modes : TRUE
OutputRests == target = NoFile
TextRests == text = CHOOSE t \in Texts : TRUE

Init == /\ command \in {"put", "get"} \cup TextCommands
        /\ command # "put" => InputRests
        /\ command # "get" => OutputRests
        /\ command \notin TextCommands => TextRests
        /\ purpose = IF command = "show-utf8" THEN "show" ELSE "put"
        /\ InputInit /\ OutputInit /\ Utf8Init

Put == /\ command = "put"
       /\ InputNext
       /\ UNCHANGED <<command, outputVars, utf8Vars>>

Get == /\ command = "get"
       /\ OutputNext
       /\ UNCHANGED <<command, inputVars, utf8Vars>>

Text == /\ command \in TextCommands
        /\ Utf8Next
        /\ UNCHANGED <<command, inputVars, outputVars>>

Next == Put \/ Get \/ Text

Spec == Init /\ [][Next]_allVars
=============================================================================
