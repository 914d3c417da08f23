------------------------------- MODULE MCCtl -------------------------------
(* put: two private files, one that others may read and a symbolic link;   *)
(* files of up to three bytes of which two are allowed.  get: three that   *)
(* are alike.  put-utf8 and show-utf8: all values of up to three bytes at  *)
(* the boundaries of what the code compares with, and four-byte forms.     *)
EXTENDS Ctl

CONSTANTS f1, f2, f3, f4

MCKinds == [f \in Files |-> IF f = f3 THEN "shared"
                            ELSE IF f = f4 THEN "symlink" ELSE "private"]
MCModes == {{"append"}, {"truncate"}, {"append", "truncate", "overwrite"}}

Edges == {0, 9, 10, 13, 31, 32, 126, 127, 128, 143, 144, 159, 160, 191, 192,
          193, 194, 223, 224, 225, 236, 237, 238, 239, 240, 244, 255}
Tails == {127, 128, 143, 144, 159, 160, 191, 192}
MCTexts == {<<>>} \cup [1 .. 1 -> Edges] \cup [1 .. 2 -> Edges]
           \cup [1 .. 3 -> Edges]
           \cup {<<a>> \o t : a \in {10, 65, 239, 240, 241, 243, 244, 245},
                              t \in [1 .. 3 -> Tails]}
=============================================================================
