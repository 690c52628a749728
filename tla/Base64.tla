------------------------------- MODULE Base64 -------------------------------
(***************************************************************************)
(* The encoding of packets in the bodies of messages (base64.c).  Data is a*)
(* sequence of bytes.  Text is a sequence of indices of cb64, 0..63, or Pad*)
(* for '='.  As bodies are C strings, strchr() never looks for a NUL.      *)
(***************************************************************************)
EXTENDS Integers, Sequences

Bytes == 0..255
Alphabet == 0..63
Pad == 64
Invalid == <<-1>>       \* what decoding returns for -EINVAL

(* How many '=' stand for the bytes that the last group of three lacks.    *)
Lacking(n) == (3 - (n % 3)) % 3

EncLen(n) == ((n + 2) \div 3) * 4

(* The bits of bytes first..first+2; what the last group lacks counts as 0.*)
Sextet(data, k) ==
    LET byte(i) == IF 3 * ((k - 1) \div 4) + i \in DOMAIN data
                   THEN data[3 * ((k - 1) \div 4) + i] ELSE 0
    IN CASE k % 4 = 1 -> byte(1) \div 4
         [] k % 4 = 2 -> (byte(2) \div 16) + ((byte(1) * 16) % 64)
         [] k % 4 = 3 -> (byte(3) \div 64) + ((byte(2) * 4) % 64)
         [] k % 4 = 0 -> byte(3) % 64

Enc(data) ==
    LET n == EncLen(Len(data)) IN
    [k \in 1..n |-> IF k > n - Lacking(Len(data)) THEN Pad ELSE Sextet(data, k)]

-----------------------------------------------------------------------------
(* The length must be a multiple of 4, or an assertion fails.              *)
DecLen(text) ==
    LET n == Len(text) IN
    3 * (n \div 4) - (IF n > 0 /\ text[n] = Pad THEN 1 ELSE 0)
                 - (IF n > 1 /\ text[n - 1] = Pad THEN 1 ELSE 0)

(* How many symbols are looked at until this many bytes are complete.      *)
Used(n) == (4 * n + 2) \div 3

UnshiftedByte(text, j) ==               \* mutant: forgets to shift the second symbol
    LET t(i) == text[4 * ((j - 1) \div 3) + i] IN
    CASE j % 3 = 1 -> ((t(1) * 4) % 256) + (t(2) \div 16)
      [] j % 3 = 2 -> t(2) + (t(3) \div 4)
      [] j % 3 = 0 -> ((t(3) * 64) % 256) + t(4)

Byte(text, j) ==
    LET t(i) == text[4 * ((j - 1) \div 3) + i] IN
    CASE j % 3 = 1 -> ((t(1) * 4) % 256) + (t(2) \div 16)
      [] j % 3 = 2 -> ((t(2) * 16) % 256) + (t(3) \div 4)
      [] j % 3 = 0 -> ((t(3) * 64) % 256) + t(4)

Dec(text) ==
    IF \A i \in 1..Used(DecLen(text)) : text[i] \in Alphabet
    THEN [j \in 1..DecLen(text) |-> Byte(text, j)]
    ELSE Invalid

(* Up to two '=' at the end, everything before them is in the alphabet.    *)
IsValid(text) ==
    LET strip(n) == IF n > 0 /\ text[n] = Pad THEN n - 1 ELSE n IN
    /\ Len(text) % 4 = 0
    /\ \A i \in 1..strip(strip(Len(text))) : text[i] \in Alphabet

-----------------------------------------------------------------------------
(* A body that was cut is not valid, or decodes to a beginning of the data.*)
SurvivesCuts(data) ==
    \A n \in 0..EncLen(Len(data)) :
        LET body == SubSeq(Enc(data), 1, n) IN
        /\ IsValid(body) <=> n % 4 = 0
        /\ IsValid(body) =>
              Dec(body) = IF n = EncLen(Len(data)) THEN data
                          ELSE SubSeq(data, 1, 3 * (n \div 4))
=============================================================================
