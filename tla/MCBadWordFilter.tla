-------------------------- MODULE MCBadWordFilter --------------------------
(* Instances of BadWordFilter for TLC. *)
EXTENDS BadWordFilter

(* The bytes are a, b and, in texts, 0, B and r, which has the low bits of b. *)
Strings(bytes, n) == UNION {[1..k -> bytes] : k \in 0..n}
Pairs(lines) == {<<l, k>> : l \in lines, k \in lines}

MCContents ==
  {<<>>} \cup {<<l>> : l \in Strings({97, 98}, 3)}
  \cup Pairs(Strings({97, 98}, 2) \cup {<<97, 97, 98>>, <<97, 98, 97>>, <<98, 98, 97>>,
                                        <<97, 98, 97, 98>>, <<98, 98, 97, 97>>})
MCEdited == {<<<<98, 97>>>>, Missing, TooLarge}
MCTexts == (Strings({0, 97, 66, 114}, 4) \ {<<>>}) \cup [1..5 -> {97, 66, 114}]

(* aBab; ra, behind which a b lies; and a. *)
MCMessages == {[memory |-> <<97, 66, 97, 98>>, num |-> 4],
               [memory |-> <<114, 97, 98>>, num |-> 2], [memory |-> <<97>>, num |-> 1]}
=============================================================================
