----------------------------- MODULE MCTokenStream -----------------------------
(***************************************************************************)
(* Sources for TLC: all short texts over characters that can be combined   *)
(* in surprising ways, and every keyword with one letter changed, added    *)
(* or left out.                                                            *)
(***************************************************************************)
EXTENDS TokenStream, SequencesExt

MCDigits  == {"1"}
MCLetters == {"a", "c", "d", "e", "f", "h", "i", "l", "n", "o", "p", "r", "s", "t",
              "u", "v", "w", "x"}

Texts(characters, n) == UNION {[1..m -> characters] : m \in 0..n}

\* Tokens of one and two characters, names, numbers and errors next to each other.
Mixed == Texts({"a", "1", ".", "_", "=", "!", "(", " ", "@"}, 4)

\* Comments, lines and string literals inside each other.
Lines == Texts({"/", "\n", "\"", "a", "@"}, 5)

\* Every operator and white space, followed by anything.
Pairs == [1..2 -> {"(", ")", "{", "}", ",", ".", "-", "+", ";", "/", "*", "!", "=", "<",
                   ">", "\"", "a", "1", " ", "\t", "\r", "\n", "@"}]

Words ==
  UNION {{k.word, Front(k.word), Append(k.word, "x"), Append(k.word, "1")}
           \cup {[k.word EXCEPT ![i] = "x"] : i \in DOMAIN k.word} : k \in Keywords}

MCSources == Mixed \cup Lines \cup Pairs \cup Words
================================================================================
