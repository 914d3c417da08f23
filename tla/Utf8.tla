-------------------------------- MODULE Utf8 --------------------------------
(***************************************************************************)
(* What zeta_vault_ctl put-utf8 stores and show-utf8 shows on a terminal:  *)
(* is_valid_single_line_utf8 walks over the bytes of the value, and for    *)
(* show-utf8 is_display_safe_single_line_utf8 walks over them once more,   *)
(* without looking at the length of the value again (src/ctl/ctl.cpp).     *)
(***************************************************************************)
EXTENDS Naturals, Sequences

CONSTANT Texts      \* values: what the user typed, what the vault returned

Byte == 0 .. 255

ASSUME TextsAssumption == Texts \subseteq Seq(Byte)

VARIABLES
    text,       \* the value
    purpose,    \* "put" or "show"
    phase,      \* "validate", "display", or the outcome
    index,      \* where the walk is
    starts      \* ghost: where the first walk has found a character

utf8Vars == <<text, purpose, phase, index, starts>>

Utf8Init == /\ text \in Texts
            /\ purpose \in {"put", "show"}
            /\ phase = "validate" /\ index = 0 /\ starts = {}

-----------------------------------------------------------------------------
Continuation(b) == 128 <= b /\ b <= 191

(* Here and below, an operator with a suffix is a plausible wrong version  *)
(* of the one after it; Utf8Next does not use it.                          *)
WellFormedOverlong(c) ==
    \/ Len(c) = 1 /\ c[1] <= 127 /\ c[1] \notin {0, 10, 13}
    \/ Len(c) = 2 /\ 192 <= c[1] /\ c[1] <= 223 /\ Continuation(c[2])
    \/ Len(c) = 3 /\ 224 <= c[1] /\ c[1] <= 239
                  /\ Continuation(c[2]) /\ Continuation(c[3])
    \/ Len(c) = 4 /\ 240 <= c[1] /\ c[1] <= 244
                  /\ Continuation(c[2]) /\ Continuation(c[3])
                  /\ Continuation(c[4])

(* The bytes that the first walk takes for one character. *)
WellFormed(c) ==
    \/ Len(c) = 1 /\ c[1] <= 127 /\ c[1] \notin {0, 10, 13}
    \/ Len(c) = 2 /\ 194 <= c[1] /\ c[1] <= 223 /\ Continuation(c[2])
    \/ /\ Len(c) = 3
       /\ \/ c[1] = 224 /\ 160 <= c[2] /\ c[2] <= 191
          \/ c[1] = 237 /\ 128 <= c[2] /\ c[2] <= 159
          \/ /\ 225 <= c[1] /\ c[1] <= 239 /\ c[1] # 237
             /\ Continuation(c[2])
       /\ Continuation(c[3])
    \/ /\ Len(c) = 4
       /\ \/ c[1] = 240 /\ 144 <= c[2] /\ c[2] <= 191
          \/ 241 <= c[1] /\ c[1] <= 243 /\ Continuation(c[2])
          \/ c[1] = 244 /\ 128 <= c[2] /\ c[2] <= 143
       /\ Continuation(c[3]) /\ Continuation(c[4])

(* How many bytes the second walk takes for a character, and the code      *)
(* point it puts together from them.                                       *)
Width(first) == IF first <= 127 THEN 1
                ELSE IF first <= 223 THEN 2
                ELSE IF first <= 239 THEN 3 ELSE 4

CodePoint(c) ==
    IF c[1] <= 127 THEN c[1]
    ELSE IF c[1] <= 223 THEN (c[1] % 32) * 64 + (c[2] % 64)
    ELSE IF c[1] <= 239
         THEN (c[1] % 16) * 4096 + (c[2] % 64) * 64 + (c[3] % 64)
         ELSE (c[1] % 8) * 262144 + (c[2] % 64) * 4096
              + (c[3] % 64) * 64 + (c[4] % 64)

TerminalSafeC0(p) == p > 31 /\ p # 127

TerminalSafe(p) == p > 31 /\ (p < 127 \/ p > 159)

-----------------------------------------------------------------------------
Rest == Len(text) - index
Part(n) == SubSeq(text, index + 1, index + n)
FirstByte == text[index + 1]

(* "UTF-8 secret must not be empty", and the same for a stored value. *)
Empty == /\ phase = "validate"
         /\ text = <<>>
         /\ phase' = "refused"
         /\ UNCHANGED <<text, purpose, index, starts>>

AcceptTruncated ==
    /\ phase = "validate"
    /\ index < Len(text)
    /\ \E n \in 1 .. 4 :
          /\ n <= Rest + 1
          /\ WellFormed(SubSeq(text \o <<128>>, index + 1, index + n))
          /\ index' = index + n
    /\ starts' = starts \cup {index}
    /\ UNCHANGED <<text, purpose, phase>>

(* One round of the loop of is_valid_single_line_utf8. *)
Accept == /\ phase = "validate"
          /\ \E n \in 1 .. 4 :
                /\ n <= Rest
                /\ WellFormed(Part(n))
                /\ index' = index + n
          /\ starts' = starts \cup {index}
          /\ UNCHANGED <<text, purpose, phase>>

Reject == /\ phase = "validate"
          /\ index < Len(text)
          /\ \A n \in 1 .. 4 : n <= Rest => ~WellFormed(Part(n))
          /\ phase' = "refused"
          /\ UNCHANGED <<text, purpose, index, starts>>

(* The first walk is through: the value is stored, or walked over again. *)
Valid == /\ phase = "validate"
         /\ text # <<>> /\ index >= Len(text)
         /\ IF purpose = "put" THEN phase' = "stored" /\ UNCHANGED index
                               ELSE phase' = "display" /\ index' = 0
         /\ UNCHANGED <<text, purpose, starts>>

(* One round of the loop of is_display_safe_single_line_utf8. *)
Display == /\ phase = "display"
           /\ index < Len(text)
           /\ index' = index + Width(FirstByte)
           /\ phase' = IF TerminalSafe(CodePoint(Part(Width(FirstByte))))
                       THEN phase ELSE "unsafe"
           /\ UNCHANGED <<text, purpose, starts>>

Show == /\ phase = "display"
        /\ index >= Len(text)
        /\ phase' = "shown"
        /\ UNCHANGED <<text, purpose, index, starts>>

Utf8Next == Empty \/ Accept \/ Reject \/ Valid \/ Display \/ Show

Utf8Spec == Utf8Init /\ [][Utf8Next]_utf8Vars

-----------------------------------------------------------------------------
(* What UTF-8 is: the code points that are characters, and their bytes.    *)
Scalar(p) == p <= 55295 \/ (57344 <= p /\ p <= 1114111)
LineEnds == {0, 10, 13}
Control(p) == p < 32 \/ (127 <= p /\ p < 160)

Encoded(p) ==
    IF p < 128 THEN <<p>>
    ELSE IF p < 2048 THEN <<192 + (p \div 64), 128 + (p % 64)>>
    ELSE IF p < 65536
         THEN <<224 + (p \div 4096), 128 + ((p \div 64) % 64), 128 + (p % 64)>>
         ELSE <<240 + (p \div 262144), 128 + ((p \div 4096) % 64),
                128 + ((p \div 64) % 64), 128 + (p % 64)>>

(* c is Encoded(p) of some scalar p that does not end a line               *)
(* (CtlProofs, CharacterIsEncoded).                                        *)
IsCharacter(c) == /\ Len(c) = Width(c[1])
                  /\ Scalar(CodePoint(c)) /\ CodePoint(c) \notin LineEnds
                  /\ Encoded(CodePoint(c)) = c

Walked == IF phase \in {"validate", "refused"} THEN index ELSE Len(text)

CharacterAt(i, n) ==
    /\ i + n <= Len(text)
    /\ IsCharacter(SubSeq(text, i + 1, i + n))

(* The state has its type.                                                 *)
Utf8TypeOK == /\ text \in Seq(Byte)
              /\ purpose \in {"put", "show"}
              /\ phase \in {"validate", "display", "stored", "shown",
                            "refused", "unsafe"}
              /\ index \in Nat
              /\ starts \subseteq 0 .. Len(text) - 1

(* What the first walk has accepted is UTF-8: it begins with a character,  *)
(* each ends where the next one begins, none is too long for its code      *)
(* point, a surrogate or beyond the last one, and none ends the line.      *)
(* Where it refuses the rest, no character begins.                         *)
SingleLineUtf8 ==
    /\ Walked = 0 \/ 0 \in starts
    /\ \A i \in starts : \E n \in 1 .. 4 :
          /\ CharacterAt(i, n)
          /\ i + n \in starts \cup {Walked}
    /\ phase = "refused" => \A n \in 1 .. 4 : ~CharacterAt(index, n)

(* The second walk, which never looks at the length of the value, reads    *)
(* no byte beyond its end.                                                 *)
ReadsInside == phase = "display" /\ index < Len(text) =>
                   index + Width(FirstByte) <= Len(text)

(* What is written to the terminal has no control character: none below    *)
(* space, not DEL, and none of the second set in two bytes.  What is held  *)
(* back has one.                                                           *)
ShownIsSafe ==
    LET Unsafe == \E i \in starts, n \in 1 .. 4 :
                     /\ CharacterAt(i, n)
                     /\ Control(CodePoint(SubSeq(text, i + 1, i + n)))
    IN /\ phase = "shown" => ~Unsafe
       /\ phase = "unsafe" => Unsafe

-----------------------------------------------------------------------------
(* What the first walk leaves for the second one: the characters follow    *)
(* one another without overlap, and the second walk visits their starts.   *)
WidthAt(i) == Width(text[i + 1])
SafeAt(i) == ~Control(CodePoint(SubSeq(text, i + 1, i + WidthAt(i))))

Apart == /\ index <= Len(text) /\ Walked <= Len(text)
         /\ \A i \in starts : /\ CharacterAt(i, WidthAt(i))
                              /\ i + WidthAt(i) \in starts \cup {Walked}
                              /\ i + WidthAt(i) <= Walked
                              /\ \A j \in starts : i < j => i + WidthAt(i) <= j
         /\ phase \notin {"validate", "refused"} => Len(text) > 0
         /\ Walked = 0 \/ 0 \in starts

SecondWalk ==
    /\ phase = "display" => /\ index \in starts \cup {Len(text)}
                            /\ \A i \in starts : i < index => SafeAt(i)
    /\ phase = "shown" => \A i \in starts : SafeAt(i)
    /\ phase = "unsafe" => \E i \in starts : ~SafeAt(i)

Refusal == phase = "refused" => \A n \in 1 .. 4 : ~CharacterAt(index, n)

Utf8Inv == Utf8TypeOK /\ Apart /\ SecondWalk /\ Refusal
=============================================================================
