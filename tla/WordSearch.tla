----------------------------- MODULE WordSearch -----------------------------
(***************************************************************************)
(* The search for several words at once in mgrep.cpp, which finds out for  *)
(* writeSMStoStorage whether a message contains a bad word.                *)
(*                                                                         *)
(* Bytes are numbers, a file of words is the sequence of its lines.  A     *)
(* text is the first num bytes of what is in memory there.                 *)
(***************************************************************************)
EXTENDS Integers, Sequences

CONSTANT LONGFILE   \* 400 bytes: longer files are looked up by three bytes

MAXPAT == 256

(* A line with a byte 0 would be a shorter pattern, and pat_len is a byte. *)
(* prepf takes up to 199 lines, but with 192 or more pat_len reaches into  *)
(* what is read as hashtable[-1] (see OrPatternZero): those files are not  *)
(* modelled.                                                               *)
MAXLINES == 192
Bytes == 0..255
LineBytes == (1..255) \ {10}
WordFile(file) ==
  /\ file \in Seq(Seq(LineBytes))
  /\ Len(file) < MAXLINES
  /\ \A k \in DOMAIN file : Len(file[k]) < MAXPAT

Lines(file) == {file[k] : k \in DOMAIN file}
OneByte(file) == \E line \in Lines(file) : Len(line) = 1

(* tr, with NOUPPER; tr1, and what f_prep takes of a byte, are the low four*)
(* bits.                                                                   *)
tr(c) == IF c \in 65..90 THEN c + 32 ELSE c
Low(c) == tr(c) % 16

-----------------------------------------------------------------------------
(* prepf *)

(* pat_spool after the first k lines, each with a 0 behind it.             *)
PatSpool(file) ==
  LET spool[k \in 0..Len(file)] ==
        IF k = 0 THEN <<>> ELSE spool[k - 1] \o Append(file[k], 0)
  IN  spool

(* p_size: the length of the shortest line that is not empty.              *)
Size(file) ==
  LET lengths == {Len(file[k]) : k \in DOMAIN file} \ {0}
  IN  CHOOSE n \in lengths \cup {MAXPAT} : \A l \in lengths \cup {MAXPAT} : n <= l

(* *pat_ptr = i is executed twenty times, after the last line.  patt[k] is *)
(* where the k-th pattern begins; nobody sets patt[0].                     *)
Image(file) ==
  LET lines  == PatSpool(file)
      length == Len(lines[Len(file)])
      m      == Size(file)
  IN  [ file |-> file, spool |-> lines[Len(file)] \o <<19>>, p_size |-> m,
        patt |-> [k \in 0..Len(file) |-> IF k = 0 THEN 0 ELSE Len(lines[k - 1])],
        pat_len |-> [k \in 0..Len(file) |-> IF k = 0 THEN 0 ELSE Len(file[k])],
        LONG |-> length > LONGFILE /\ m > 2,
        SHORT |-> m = 1 ]

(* The k-th pattern, and what follows it. *)
Pattern(im, k) ==
  [i \in 1..MAXPAT |->
     LET at == im.patt[k] + i IN IF at <= Len(im.spool) THEN im.spool[at] ELSE 0]

-----------------------------------------------------------------------------
(* f_prep *)

(* Two or three bytes that end at i, as SHIFT1 is indexed with them. *)
Gram(im, bytes, i) == [j \in 0..(IF im.LONG THEN 2 ELSE 1) |-> Low(bytes[i - j + 1])]

(* Mutant: the last pattern decides. *)
ShiftOfLast(im, gram) ==
  LET m     == im.p_size
      found == {i \in (IF im.LONG THEN 2 ELSE 1)..(m - 1) :
                  gram = Gram(im, Pattern(im, Len(im.file)), i)}
  IN  CHOOSE s \in {m - 1 - i : i \in found} \cup {m - 2} :
        \A i \in found : s <= m - 1 - i

(* SHIFT1: how far the window may move if it ends with these bytes: to the *)
(* last place of them in a pattern.                                        *)
Shift(im, gram) ==
  LET m     == im.p_size
      found == {i \in (IF im.LONG THEN 2 ELSE 1)..(m - 1) : \E k \in DOMAIN im.file :
                  gram = Gram(im, Pattern(im, k), i)}
  IN  CHOOSE s \in {m - 1 - i : i \in found} \cup {m - 2} :
        \A i \in found : s <= m - 1 - i

(* The bucket of HASH: nine bits of the three bytes from t. *)
Bucket(im, bytes, t) ==
  [j \in 0..(IF im.p_size > 2 THEN 2 ELSE im.p_size - 1) |->
     IF j = 2 THEN Low(bytes[t + j + 1]) % 2 ELSE Low(bytes[t + j + 1])]

(* The list of an empty bucket is hashtable[-1], the last eight bytes of   *)
(* pat_len.  With fewer than 192 lines nobody has written them, and they   *)
(* say pattern 0: it begins where the first does and has length 0.         *)
OrPatternZero(patterns) == IF patterns = {} THEN {0} ELSE patterns

-----------------------------------------------------------------------------
(* mgrep_str *)

(* The bytes of memory from place t agree with n bytes of the k-th pattern.*)
Agrees(im, memory, k, t, n) ==
  \A j \in 0..(n - 1) :
    t + j < Len(memory) /\ tr(memory[t + j + 1]) = tr(Pattern(im, k)[j + 1])

(* The first p_size bytes agree, and all of the pattern. *)
FoundAt(im, memory, t) ==
  LET m     == im.p_size
      found == {k \in DOMAIN im.file :
                  Bucket(im, Pattern(im, k), 0) = Bucket(im, memory, t)}
  IN  \E k \in OrPatternZero(found) :
        Agrees(im, memory, k, t, IF im.pat_len[k] < m THEN m ELSE im.pat_len[k])

(* The window ends at t. *)
monkey1(im, memory, num) ==
  LET m == im.p_size
      found[t \in 0..(num + m)] ==
        IF t >= num THEN FALSE
        ELSE LET shift == Shift(im, Gram(im, memory, t)) IN
             IF shift > 0 THEN found[t + shift]
             ELSE FoundAt(im, memory, t - (m - 1)) \/ found[t + 1]
  IN  found[m - 1]

(* The bucket is that of the byte as it is, and the last byte is never     *)
(* looked at.                                                              *)
m_short(im, memory, num) ==
  \E t \in 0..(num - 2) :
    LET found == {k \in DOMAIN im.file : tr(Pattern(im, k)[1]) = memory[t + 1]}
    IN  \E k \in OrPatternZero(found) : Agrees(im, memory, k, t, im.pat_len[k])

mgrep_str(memory, num, im) ==
  IF im.SHORT THEN m_short(im, memory, num) ELSE monkey1(im, memory, num)

-----------------------------------------------------------------------------
(* What the search is for: one of the words is in the text, in whatever    *)
(* case.                                                                   *)
HasWord(file, text) ==
  \E k \in DOMAIN file : \E t \in 0..Len(text) :
    /\ file[k] # <<>>
    /\ t + Len(file[k]) <= Len(text)
    /\ \A j \in 1..Len(file[k]) : tr(text[t + j]) = tr(file[k][j])
=============================================================================
