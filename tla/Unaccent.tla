------------------------------ MODULE Unaccent ------------------------------
(***************************************************************************)
(* cc_util_normalize_casefold_and_unaccent (cc-util.c), the sort key of a  *)
(* language: the combining marks are taken out of a decomposed string in   *)
(* place, one step of the machine for one round of the loop.  A character  *)
(* is its length in bytes and what the loop tells of it; a byte of the     *)
(* buffer is the character it is of, by position, and its place in that.   *)
(***************************************************************************)
EXTENDS Integers, SequencesExt, FiniteSetsExt

CONSTANT MaxChars   \* bound: characters of the string

\* What the proofs need to know of it.
CharsAssumption == MaxChars \in Nat

VARIABLES
    str,    \* the characters of the decomposed string
    tmp,    \* the buffer
    i, j,   \* the offsets that are read and written
    end     \* the length of the result, -1 while the loop runs

vars == <<str, tmp, i, j, end>>

\* A character takes one to four bytes, a combining mark two or three; a byte that
\* is no UTF-8 is one by itself.
Chars ==
    {[len |-> n, kind |-> "plain"] : n \in 1..4}
        \union {[len |-> n, kind |-> "mark"] : n \in 2..3}
        \union {[len |-> 1, kind |-> "invalid"]}

BytesOf(k, n) == [b \in 1..n |-> <<k, b>>]

\* The bytes of a string before the loop.
Bytes(s) == FlattenSeq([k \in DOMAIN s |-> BytesOf(k, s[k].len)])

Init ==
    /\ str \in SeqOf(Chars, MaxChars)
    /\ tmp = Bytes(str)
    /\ i = 0 /\ j = 0 /\ end = -1

\* The character whose first byte is at offset i.  What is there was not yet
\* written over, because j never passes i.
Here == str[tmp[i + 1][1]]

memmove(to, from, n) ==
    [b \in DOMAIN tmp |->
        IF b \in (to + 1)..(to + n) THEN tmp[from + b - to] ELSE tmp[b]]

Stop ==
    /\ end = -1
    /\ i < Len(tmp) => Here.kind = "invalid"
    /\ end' = j
    /\ UNCHANGED <<str, tmp, i, j>>

SkipMark ==
    /\ end = -1 /\ i < Len(tmp) /\ Here.kind = "mark"
    /\ i' = i + Here.len
    /\ UNCHANGED <<str, tmp, j, end>>

Keep_FirstByte ==
    /\ end = -1 /\ i < Len(tmp) /\ Here.kind = "plain"
    /\ tmp' = IF i # j THEN memmove(j, i, 1) ELSE tmp
    /\ i' = i + Here.len /\ j' = j + Here.len
    /\ UNCHANGED <<str, end>>

Keep ==
    /\ end = -1 /\ i < Len(tmp) /\ Here.kind = "plain"
    /\ tmp' = IF i # j THEN memmove(j, i, Here.len) ELSE tmp
    /\ i' = i + Here.len /\ j' = j + Here.len
    /\ UNCHANGED <<str, end>>

Next == Stop \/ SkipMark \/ Keep

Spec == Init /\ [][Next]_vars

-----------------------------------------------------------------------------
(* Properties.                                                             *)

\* The characters before the first that is no UTF-8.
Valid ==
    LET bad == {k \in DOMAIN str : str[k].kind = "invalid"}
    IN  1..(IF bad = {} THEN Len(str) ELSE Min(bad) - 1)

\* The result is the valid part of the string without its marks, byte by byte.
IsUnaccented ==
    end >= 0 =>
        SubSeq(tmp, 1, end) =
            FlattenSeq([k \in DOMAIN str |->
                IF k \in Valid /\ str[k].kind = "plain"
                THEN BytesOf(k, str[k].len)
                ELSE <<>>])
=============================================================================
