------------------------------ MODULE Numbers ------------------------------
(***************************************************************************)
(* How RemoteControlImplementation turns the numbers of control manager's  *)
(* JSON into uint32_t.  The array parser clamps; every other field is cast *)
(* and wraps.  The width is a constant: UintMax is UINT32_MAX in the code. *)
(***************************************************************************)
EXTENDS Integers

CONSTANT UintMax

ASSUME UintMaxAssumption == UintMax \in Nat

Uint == 0 .. UintMax

\* ParseUint32Array: out of range becomes the nearest end of the range.
Clamp(n) ==
    IF n >= 0 /\ n <= UintMax THEN n
    ELSE IF n > 0 THEN UintMax ELSE 0

\* static_cast<uint32_t> of a 64-bit number.
Wrap(n) == n % (UintMax + 1)

=============================================================================
