--------------------------------- MODULE Cobs ---------------------------------
(***************************************************************************)
(* COBS framing (src/util/cobs.hpp), mirrored by app/test/cobs.js.          *)
(*                                                                          *)
(* The input is cut into groups: a group ends before a delimiter byte, or   *)
(* when it is full.  A group is written as its code, the number of its      *)
(* bytes plus one, and its bytes; the delimiter itself is left out and put  *)
(* back by the decoder.  The keying decides which byte is the delimiter and *)
(* which code means "full": 0x00 and 0xFF in encode()/decode(), 0xFF and    *)
(* 0xFE in ffEncode()/ffDecode().                                           *)
(***************************************************************************)
EXTENDS Integers, Sequences

Group(bytes) == <<Len(bytes) + 1>> \o bytes

\* Mutated form: a group one byte longer before it counts as full.
FullGroupLate(length, key) == length = key.full

FullGroup(length, key) == length + 1 = key.full

\* The first position behind the group that starts at i.
GroupEnd(s, i, key) ==
  CHOOSE j \in i .. Len(s) + 1 :
    /\ j > Len(s) \/ s[j] = key.delim \/ FullGroup(j - i, key)
    /\ \A k \in i .. j - 1 : s[k] # key.delim /\ ~FullGroup(k - i, key)

\* encode(), ffEncode(): from[i] encodes what starts with a new group at i.
Encode(s, key) ==
  LET from[i \in 1 .. Len(s) + 1] ==
        LET j == GroupEnd(s, i, key) IN
        Group(SubSeq(s, i, j - 1)) \o (IF FullGroup(j - i, key) THEN from[j]
                                       ELSE IF j <= Len(s) THEN from[j + 1] ELSE <<>>)
  IN from[1]

\* The decoder puts a delimiter after every group that is not full, but the last.
DelimiterAfter(code, more, key) == code # key.full /\ more

\* decode(), ffDecode(): what s stands for, or nothing when it is malformed.
\* from[i] decodes what starts at the code at i.
Decode(s, key) ==
  LET from[i \in 1 .. Len(s) + 1] ==
        IF i > Len(s) THEN {<<>>}
        ELSE IF s[i] \in {0, key.delim} \/ i + s[i] > Len(s) + 1 THEN {}
        ELSE LET next == i + s[i]
                 delim == IF DelimiterAfter(s[i], next <= Len(s), key) THEN <<key.delim>> ELSE <<>>
             IN {SubSeq(s, i + 1, next - 1) \o delim \o tail : tail \in from[next]}
  IN from[1]

\* maxEncoded(), ffMaxEncoded()
MaxEncoded(n, key) == n + n \div (key.full - 1) + 1
==============================================================================
