--------------------------- MODULE MCArrayParser ---------------------------
(***************************************************************************)
(* ArrayParser as ParseUint32Array: numbers below, in and above the range  *)
(* of a two-bit uint32_t, a limit of 3 (the one of the validation code) and*)
(* a two-bit size prefix, arrays longer than the prefix can say.           *)
(***************************************************************************)
EXTENDS ArrayParser, Numbers

MCRaw == {0 - 1, 0, 3, 5}

=============================================================================
