----------------------------- MODULE UtilsString -----------------------------
(***************************************************************************)
(* The text helpers of UtilsString.h, a header that is kept beside the     *)
(* plugin and that no source file of it includes.  A string is the sequence*)
(* of its bytes.  A caller has a text, s, and goes with it through the     *)
(* helpers in any order, from the result of one to the next.               *)
(*                                                                         *)
(* A helper that leaves its work to an algorithm of the library is an      *)
(* operator.  The three that have a loop are a call, a step for each turn  *)
(* of the loop, and a return; the variables are their locals and results.  *)
(***************************************************************************)
EXTENDS Integers, Sequences, SequencesExt, FiniteSetsExt

CONSTANTS Chars,       \* the bytes a caller's first text is made of
          MaxLen,      \* bound: the length of a first text and of an image
          Needles,     \* texts looked for and compared with
          Delimiters   \* sets of delimiters given to split

Bytes == 0 .. 255

ASSUME CharsAssumption == Chars \subseteq Bytes

ASSUME MaxLenAssumption == MaxLen \in Nat

ASSUME NeedlesAssumption == Needles \subseteq Seq(Bytes)

VARIABLES
    s,           \* the caller's text
    call,        \* the helper that is at work on it
    returned,    \* it is done, and the caller has not gone on yet
    delimiters,  \* parameter of split
    padding,     \* parameter of imageEncoder
    current,     \* the loops' place in s: current, idx and index
    fields,      \* stringList of split
    out,         \* out_str of removeExtraWhitespaces, result of imageEncoder
    state,       \* locals of imageEncoder: symbols of its group of four that
    lastStuff    \* are there, and bits for the next one

frame == <<s, call, delimiters, padding>>

vars == <<frame, returned, current, fields, out, state, lastStuff>>

-----------------------------------------------------------------------------
\* In the C locale.  A byte from 128 on is neither a space nor a letter.
IsSpace(c) == c \in 9 .. 13 \cup {32}

toupper(c) == IF c \in 97 .. 122 THEN c - 32 ELSE c

tolower(c) == IF c \in 65 .. 90 THEN c + 32 ELSE c

toUpper(str) == [i \in DOMAIN str |-> toupper(str[i])]

toLower(str) == [i \in DOMAIN str |-> tolower(str[i])]

\* std::search, which ignores case and returns end() if there is no match.
Search(str, sub) ==
    Min({Len(str)} \cup
        {p \in 0 .. Len(str) - Len(sub) :
            toUpper(SubSeq(str, p + 1, p + Len(sub))) = toUpper(sub)})

find_substr_ci(str, sub) ==
    LET p == Search(str, sub) IN IF p # Len(str) THEN p ELSE -1

contains(str, sub) == find_substr_ci(str, sub) # -1

stringContains(s1, s2) == Search(s1, s2) # Len(s1)

\* Faulty variant of equal: a beginning that is equal is enough.
EqualBeginning(str, str2) == find_substr_ci(str, str2) = 0

equal(str, str2) == find_substr_ci(str, str2) = 0 /\ Len(str) = Len(str2)

\* Positions of the bytes that std::find_if looks for.
Solid(str) == {i \in DOMAIN str : ~IsSpace(str[i])}

ltrim(str) == SubSeq(str, Min(Solid(str) \cup {Len(str) + 1}), Len(str))

\* Faulty variant of rtrim: the last byte that is not a space goes too.
RtrimOneMore(str) == SubSeq(str, 1, Max(Solid(str) \cup {1}) - 1)

rtrim(str) == SubSeq(str, 1, Max(Solid(str) \cup {0}))

trim(str) == rtrim(ltrim(str))

-----------------------------------------------------------------------------
Texts == UNION {[1 .. n -> Chars] : n \in 0 .. MaxLen}

Init ==
    /\ s \in Texts
    /\ call = "none" /\ returned = FALSE
    /\ delimiters = {} /\ padding = FALSE
    /\ current = 0 /\ fields = <<>> /\ out = <<>>
    /\ state = 0 /\ lastStuff = 0

\* A helper without a loop of its own changes the text at once.
Change ==
    /\ call = "none"
    /\ s' \in {ltrim(s), rtrim(s), trim(s), toUpper(s), toLower(s)}
    /\ UNCHANGED <<call, returned, delimiters, padding, current, fields, out,
                   state, lastStuff>>

Call(helper) ==
    /\ call = "none"
    /\ call' = helper
    /\ UNCHANGED <<s, returned, current, fields, out, state, lastStuff>>

In(helper) == call = helper /\ ~returned

Return ==
    /\ returned' = TRUE
    /\ UNCHANGED <<frame, current, state, lastStuff>>

\* The caller goes on with what it was given.
GoOn ==
    /\ returned
    /\ s' \in IF call = "split" THEN ToSet(fields) ELSE {out}
    /\ call' = "none" /\ returned' = FALSE
    /\ delimiters' = {} /\ padding' = FALSE
    /\ current' = 0 /\ fields' = <<>> /\ out' = <<>>
    /\ state' = 0 /\ lastStuff' = 0

-----------------------------------------------------------------------------
CallSplit(d) ==
    /\ Call("split")
    /\ delimiters' = d
    /\ UNCHANGED padding

\* Faulty variant of FieldEnds: a field has one byte at least.
FieldEndsLate == {p \in current + 1 .. Len(s) - 1 : s[p + 1] \in delimiters}

\* Where find_first_of finds a delimiter from `current` on.
FieldEnds == {p \in current .. Len(s) - 1 : s[p + 1] \in delimiters}

\* A field up to the first delimiter, and on behind it.
SplitTurn ==
    /\ In("split")
    /\ \E next \in FieldEnds :
          /\ \A p \in FieldEnds : next <= p
          /\ fields' = Append(fields, SubSeq(s, current + 1, next))
          /\ current' = next + 1
    /\ UNCHANGED <<frame, returned, out, state, lastStuff>>

\* next is npos: the last field is the rest of the text.
SplitEnd ==
    /\ In("split")
    /\ FieldEnds = {}
    /\ fields' = Append(fields, SubSeq(s, current + 1, Len(s)))
    /\ Return
    /\ UNCHANGED out

-----------------------------------------------------------------------------
CallSpaces ==
    /\ Call("removeExtraWhitespaces")
    /\ UNCHANGED <<delimiters, padding>>

\* in_str[idx] is neither a NUL of the text nor the one behind it.
Goes == current + 1 \in {i \in DOMAIN s : s[i] # 0}

\* A byte is kept; behind a blank, the inner loop passes over all that follow.
SpacesTurn ==
    /\ In("removeExtraWhitespaces")
    /\ Goes
    /\ out' = Append(out, s[current + 1])
    /\ IF s[current + 1] = 32
       THEN \E idx \in current + 1 .. Len(s) :
               /\ \A i \in current + 2 .. idx : s[i] = 32
               /\ idx < Len(s) => s[idx + 1] # 32
               /\ current' = idx
       ELSE current' = current + 1
    /\ UNCHANGED <<frame, returned, fields, state, lastStuff>>

SpacesEnd ==
    /\ In("removeExtraWhitespaces")
    /\ ~Goes
    /\ Return
    /\ UNCHANGED <<fields, out>>

-----------------------------------------------------------------------------
\* base64_chars[bits]
Base64(bits) ==
    CASE bits \in 0 .. 25  -> 65 + bits
      [] bits \in 26 .. 51 -> 71 + bits
      [] bits \in 52 .. 61 -> bits - 4
      [] bits = 62         -> 43
      [] bits = 63         -> 47

CallEncoder(pad) ==
    /\ Len(s) <= MaxLen
    /\ Call("imageEncoder")
    /\ padding' = pad
    /\ UNCHANGED delimiters

\* The bits of one byte; those it leaves are in lastStuff.  `|` joins bits that
\* are apart, and is a sum here.
EncodeTurn ==
    LET byte == s[current + 1]
    IN  /\ In("imageEncoder")
        /\ current < Len(s)
        /\ \/ /\ state = 0 /\ state' = 1
              /\ out' = Append(out, Base64(byte \div 4))
              /\ lastStuff' = (byte % 4) * 16
           \/ /\ state = 1 /\ state' = 2
              /\ out' = Append(out, Base64(byte \div 16 + lastStuff))
              /\ lastStuff' = (byte % 16) * 4
           \/ /\ state = 2 /\ state' = 0
              /\ out' = out \o <<Base64(byte \div 64 + lastStuff),
                                 Base64(byte % 64)>>
              /\ UNCHANGED lastStuff
        /\ current' = current + 1
        /\ UNCHANGED <<frame, returned, fields>>

EndsWith(text) ==
    /\ In("imageEncoder")
    /\ current = Len(s)
    /\ out' = out \o text
    /\ Return
    /\ UNCHANGED fields

Equals(n) == [i \in 1 .. n |-> 61]

\* Faulty variant of EncodeEnd: the bits of the last byte are forgotten.
EncodeEndCuts == EndsWith(Equals(IF padding THEN (3 - state) % 3 ELSE 0))

EncodeEnd ==
    IF state = 0 THEN EndsWith(<<>>)
    ELSE EndsWith(<<Base64(lastStuff)>> \o Equals(IF padding THEN 3 - state ELSE 0))

-----------------------------------------------------------------------------
Split == (\E d \in Delimiters : CallSplit(d)) \/ SplitTurn \/ SplitEnd

Spaces == CallSpaces \/ SpacesTurn \/ SpacesEnd

Encode == (\E pad \in BOOLEAN : CallEncoder(pad)) \/ EncodeTurn \/ EncodeEnd

Next == Change \/ Split \/ Spaces \/ Encode \/ GoOn

Spec == Init /\ [][Next]_vars

Result(helper) == call = helper /\ returned

-----------------------------------------------------------------------------
\* What is looked for is found wherever it is, in any case of letters, and two
\* texts are equal if they differ in case only, where at least one of the two is
\* not empty.  (The case that is left: nothing is found in an empty string, so two
\* empty ones are not equal, although "returns true if the strings are equal",
\* UtilsString.h:74.)
SearchExact ==
    \A n \in Needles : s # <<>> \/ n # <<>> =>
        /\ contains(s, n) <=>
              \E i \in 1 .. Len(s) + 1, j \in 0 .. Len(s) :
                  toUpper(SubSeq(s, i, j)) = toUpper(n)
        /\ stringContains(s, n) <=> contains(s, n)
        /\ equal(s, n) <=> toUpper(s) = toUpper(n)

\* The place of i in S, in ascending order, or the one it would have.
Rank(S, i) == Cardinality({k \in S : k < i}) + 1

\* The positions of the delimiters in the text.
Marks == {i \in DOMAIN s : s[i] \in delimiters}

\* Nothing of S is between i and j.
Adjacent(S, i, j) == i < j /\ \A k \in S : ~(i < k /\ k < j)

\* split gives one field more than there are delimiters, empty ones and the last
\* one included: the bytes between each delimiter and the next, in their order.
SplitJoins ==
    Result("split") =>
        /\ Len(fields) = Cardinality(Marks) + 1
        /\ \A i \in Marks \cup {0}, j \in Marks \cup {Len(s) + 1} :
              Adjacent(Marks, i, j) =>
                  fields[Rank(Marks, j)] = SubSeq(s, i + 1, j - 1)

\* ' ', '\n', '\v', '\f' and '\r', which the comments at ltrim, rtrim and trim list.
Listed == {10, 11, 12, 13, 32}

\* s is t with bytes of C at both ends.
Enclosed(t, C) ==
    \E i \in 0 .. Len(s) :
        /\ SubSeq(s, i + 1, i + Len(t)) = t
        /\ \A k \in DOMAIN s \ (i + 1 .. i + Len(t)) : s[k] \in C

\* The positions of all bytes but the blanks that follow a blank.
NotExtra == {i \in DOMAIN s : s[i] = 32 /\ i > 1 => s[i - 1] # 32}

\* trim takes off the bytes that its comment lists, at both ends and nothing else,
\* of a text without a tab; and removeExtraWhitespaces returns a text without a
\* NUL with one blank for each run of them, in its order.  (The texts that are left
\* do not fare as the comments say: std::isspace takes the tab for a space too,
\* :96, 104 and 113, and a text is cut off at its first NUL, :201.)
BlanksExact ==
    /\ 9 \notin ToSet(s) =>
          /\ Enclosed(trim(s), Listed)
          /\ trim(s) # <<>> =>
                trim(s)[1] \notin Listed /\ Last(trim(s)) \notin Listed
    /\ Result("removeExtraWhitespaces") /\ 0 \notin ToSet(s) =>
          /\ Len(out) = Cardinality(NotExtra)
          /\ \A i \in NotExtra : out[Rank(NotExtra, i)] = s[i]

\* The bytes that a base64 text stands for: four symbols of six bits are three
\* bytes of eight.
Decoded(text) ==
    LET symbols == {i \in DOMAIN text : text[i] # 61}
        value(i) == CHOOSE v \in 0 .. 63 : Base64(v) = text[i]
        byte(i, r) ==
            CASE r = 0 -> value(i + 1) * 4 + value(i + 2) \div 16
              [] r = 1 -> (value(i + 2) % 16) * 16 + value(i + 3) \div 4
              [] r = 2 -> (value(i + 3) % 4) * 64 + value(i + 4)
    IN  [k \in 1 .. (6 * Cardinality(symbols)) \div 8 |->
            byte(4 * ((k - 1) \div 3), (k - 1) % 3)]

\* imageEncoder loses nothing, at every length modulo three, and padding fills the
\* last group of four.
ImageDecodes ==
    Result("imageEncoder") =>
        /\ Decoded(out) = s
        /\ padding => Len(out) % 4 = 0

=============================================================================
