---------------------------- MODULE MCUtilsString ----------------------------
(***************************************************************************)
(* Instances of UtilsString for TLC.  The bytes are a NUL, a tab, a line  *)
(* feed, a blank and one that is all ones; the letters, in both cases, are *)
(* those of base64 images.                                                 *)
(***************************************************************************)
EXTENDS UtilsString

MCChars == {0, 9, 10, 32, 255}

MCNeedles == UNION {[1 .. n -> {32, 65, 97}] : n \in 0 .. 2}

MCDelimiters == {{10}, {10, 32}}

=============================================================================
