------------------------- MODULE ArrayParserProofs -------------------------
(***************************************************************************)
(* ArrayParser for every array, element type, conversion, limit and size   *)
(* prefix: what the loop computes, and that the stubs' prefix never wraps. *)
(***************************************************************************)
EXTENDS ArrayParser, SequenceTheorems, TLAPS

\* The conversions' results, as a set; every result of the loop is over it.
Converted == {Convert(x) : x \in Raw}

IInv ==
    /\ array \in Seq(Raw)
    /\ seen \in 0 .. Len(array)
    /\ result \in Seq(Converted)
    /\ sent \in BOOLEAN
    /\ LoopInv
    /\ sent => seen = Len(array) /\ received = Expected

\* Every array the parser may be called with is a sequence of raw elements.
LEMMA ArraysAreSequences == Arrays \subseteq Seq(Raw)
<1> SUFFICES ASSUME NEW n \in 0 .. MaxLen, NEW a \in [1 .. n -> Raw]
             PROVE  a \in Seq(Raw)
    BY DEF Arrays
<1>1. n \in Nat
    BY MaxLenAssumption
<1> QED
    BY <1>1, IsASeq

\* The array, the elements seen and the vector have the types the code gives
\* them, and the vector is the converted beginning of what has been seen.
LEMMA LoopInduction == Spec => []IInv
<1>1. Init => IInv
  <2> SUFFICES ASSUME Init PROVE IInv
      OBVIOUS
  <2>1. array \in Seq(Raw) /\ Len(array) \in Nat
      BY ArraysAreSequences, LenProperties DEF Init
  <2>2. result = <<>> /\ result \in Seq(Converted) /\ Len(result) = 0
      BY EmptySeq DEF Init
  <2>3. LoopInv
      BY <2>2, LimitAssumption DEF Init, LoopInv
  <2>4. seen \in 0 .. Len(array)
      BY <2>1 DEF Init
  <2>5. sent = FALSE
      BY DEF Init
  <2> QED
      BY <2>1, <2>2, <2>3, <2>4, <2>5 DEF IInv
<1>2. IInv /\ [Next]_vars => IInv'
  <2> SUFFICES ASSUME IInv, [Next]_vars PROVE IInv'
      OBVIOUS
  <2> USE LimitAssumption
  <2>1. CASE Turn
    <3>1. /\ seen + 1 \in 1 .. Len(array)
          /\ array[seen + 1] \in Raw
          /\ Convert(array[seen + 1]) \in Converted
        BY <2>1, ElementOfSeq DEF Turn, IInv, Converted
    <3>2. ~sent
        BY <2>1 DEF Turn, IInv
    <3>3. array' = array /\ seen' = seen + 1 /\ sent' = sent
        BY <2>1 DEF Turn
    <3>4. CASE seen >= Limit
      <4>1. result' = result
          BY <2>1, <3>4 DEF Turn, IInv, LoopInv
      <4> QED
          BY <3>1, <3>2, <3>3, <3>4, <4>1 DEF IInv, LoopInv
    <3>5. CASE ~(seen >= Limit)
      <4>1. Len(result) = seen
          BY <3>5 DEF IInv, LoopInv
      <4>2. result' = Append(result, Convert(array[seen + 1]))
          BY <2>1, <3>5, <4>1 DEF Turn, IInv
      <4>3. /\ result' \in Seq(Converted)
            /\ Len(result') = seen + 1
            /\ \A i \in 1 .. Len(result) : result'[i] = result[i]
            /\ result'[seen + 1] = Convert(array[seen + 1])
          BY <3>1, <4>1, <4>2, AppendProperties DEF IInv
      <4>4. \A i \in 1 .. Len(result') : result'[i] = Convert(array[i])
        <5> SUFFICES ASSUME NEW i \in 1 .. Len(result')
                     PROVE  result'[i] = Convert(array[i])
            OBVIOUS
        <5>1. CASE i = seen + 1
            BY <4>3, <5>1
        <5>2. CASE i # seen + 1
          <6>1. i \in 1 .. Len(result)
              BY <3>1, <4>1, <4>3, <5>2 DEF IInv
          <6> QED
              BY <4>3, <6>1 DEF IInv, LoopInv
        <5> QED
            BY <5>1, <5>2
      <4>5. Len(result') = IF seen' < Limit THEN seen' ELSE Limit
          BY <3>1, <3>3, <3>5, <4>3 DEF IInv
      <4> QED
          BY <3>1, <3>2, <3>3, <4>3, <4>4, <4>5 DEF IInv, LoopInv
    <3> QED
        BY <3>4, <3>5
  <2>2. CASE Transfer
    <3>1. Len(result) = IF Len(array) < Limit THEN Len(array) ELSE Limit
        BY <2>2 DEF Transfer, IInv, LoopInv
    <3>2. Len(result) % PrefixSize = Len(result)
      <4>1. Len(result) \in Nat /\ Len(result) < PrefixSize
          BY <3>1 DEF IInv
      <4> QED
          BY <4>1
    <3>3. received' = result
        BY <2>2, <3>2, SubSeqFull DEF Transfer, IInv
    <3>4. result = Expected
      <4>1. DOMAIN result = 1 .. Len(result)
          BY LenProperties DEF IInv
      <4>2. result = [i \in 1 .. Len(result) |-> result[i]]
          BY <4>1, LenProperties DEF IInv
      <4> QED
          BY <3>1, <4>2 DEF Expected, IInv, LoopInv
    <3> QED
        BY <2>2, <3>3, <3>4 DEF Transfer, IInv, LoopInv, Expected
  <2>3. CASE UNCHANGED vars
      BY <2>3 DEF vars, IInv, LoopInv, Expected
  <2> QED
      BY <2>1, <2>2, <2>3 DEF Next
<1> QED
    BY <1>1, <1>2, PTL DEF Spec

\* The loop's vector is at every turn the converted beginning of the array, as
\* long as what has been seen and never longer than the limit.
THEOREM LoopCorrect == Spec => [](TypeOK /\ LoopInv)
<1>1. IInv => TypeOK /\ LoopInv
    BY LenProperties DEF IInv, TypeOK
<1> QED
    BY <1>1, LoopInduction, PTL

\* The size prefix never wraps: whatever the length of control manager's array,
\* the other side receives its beginning, converted, up to the limit.
THEOREM PrefixNeverWraps == Spec => []NeverWraps
<1>1. IInv => NeverWraps
    BY DEF IInv, NeverWraps
<1> QED
    BY <1>1, LoopInduction, PTL

=============================================================================
