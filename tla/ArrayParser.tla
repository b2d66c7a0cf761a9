---------------------------- MODULE ArrayParser ----------------------------
(***************************************************************************)
(* The loop by which an array of control manager's JSON becomes a vector of*)
(* a COM-RPC structure: ParseUint32Array, and the same loop again in       *)
(* ParseRemoteDataArray and StartFirmwareUpdate.  One step is one turn of  *)
(* the loop.  The COM-RPC stubs send a vector with its size in a small     *)
(* unsigned prefix, which is why the loops stop at a limit.                *)
(***************************************************************************)
EXTENDS Naturals, Sequences

CONSTANTS
    Raw,          \* the elements an array may hold
    Convert(_),   \* what a turn of the loop makes of one
    Limit,        \* the element count the loop stops keeping at
    PrefixSize,   \* the values of the size prefix of the stubs: 2^8
    MaxLen        \* bound: the length of an array

ASSUME LimitAssumption == Limit \in Nat /\ PrefixSize \in Nat /\ Limit < PrefixSize

ASSUME MaxLenAssumption == MaxLen \in Nat

VARIABLES
    array,      \* the JSON array
    seen,       \* elements looked at
    result,     \* the vector so far
    sent,       \* the vector has gone through the stub
    received    \* what came out at the other side

vars == <<array, seen, result, sent, received>>

Arrays == UNION {[1 .. n -> Raw] : n \in 0 .. MaxLen}

TypeOK ==
    /\ array \in Seq(Raw)
    /\ seen \in 0 .. Len(array)
    /\ Len(result) \in Nat
    /\ sent \in BOOLEAN

Init ==
    /\ array \in Arrays
    /\ seen = 0
    /\ result = <<>>
    /\ sent = FALSE
    /\ received = <<>>

\* Faulty variant of Turn: one element more than the limit is kept.
TurnOneMore ==
    /\ seen < Len(array)
    /\ seen' = seen + 1
    /\ result' = IF Len(result) > Limit THEN result
                 ELSE Append(result, Convert(array[seen + 1]))
    /\ UNCHANGED <<array, sent, received>>

\* elements.Next(): the element is counted, and kept if there is room.
Turn ==
    /\ seen < Len(array)
    /\ seen' = seen + 1
    /\ result' = IF Len(result) >= Limit THEN result
                 ELSE Append(result, Convert(array[seen + 1]))
    /\ UNCHANGED <<array, sent, received>>

\* The stub writes the size modulo its prefix, and the other side reads that
\* many elements.
Transfer ==
    /\ seen = Len(array)
    /\ ~sent
    /\ sent' = TRUE
    /\ received' = SubSeq(result, 1, Len(result) % PrefixSize)
    /\ UNCHANGED <<array, seen, result>>

Next == Turn \/ Transfer

Spec == Init /\ [][Next]_vars

-----------------------------------------------------------------------------
\* The loop keeps the converted elements it has seen, in order, up to the limit.
LoopInv ==
    /\ Len(result) = IF seen < Limit THEN seen ELSE Limit
    /\ \A i \in 1 .. Len(result) : result[i] = Convert(array[i])

\* What arrives: the first elements of the array, converted, no more than the
\* limit and no fewer than there are.
Expected ==
    [i \in 1 .. (IF Len(array) < Limit THEN Len(array) ELSE Limit)
        |-> Convert(array[i])]

\* "so the generated proxy stub's uint8_t size prefix never silently wraps"
\* (RemoteControlImplementation.cpp:148-150): an array of any length arrives as
\* its beginning, never as a remainder of its length.
NeverWraps == sent => received = Expected

=============================================================================
