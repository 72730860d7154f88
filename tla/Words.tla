------------------------------- MODULE Words -------------------------------
(***************************************************************************)
(* getParameter() of common.cpp: a line of a command file is taken apart   *)
(* into words, in place.  A text is a sequence of symbols; a symbol is a   *)
(* character that matters here, or a run of those that do not.             *)
(***************************************************************************)
EXTENDS Integers, SequencesExt

Blank     == {" ", "\t"}
Quote     == "\""
Backslash == "\\"

(* Over whitespace.                                                        *)
Skip(text, from) ==
    Min({i \in from..Len(text) : text[i] \notin Blank} \cup {Len(text) + 1})

UnescapedKeeps(c) == c                       \* mutant: \r, \n and \t have no meaning
Unescaped(c) ==
    CASE c = "r" -> "\r" [] c = "n" -> "\n" [] c = "t" -> "\t" [] OTHER -> c

(* What is put out from p up to the closing character, and its position.  *)
(* A backslash at the end of the line is dropped.                          *)
Scan(text, p, closing) ==
    LET scan[i \in p..(Len(text) + 1)] ==
            IF i > Len(text) \/ text[i] = closing THEN [out |-> <<>>, stop |-> i]
            ELSE IF text[i] # Backslash THEN [scan[i + 1] EXCEPT !.out = <<text[i]>> \o @]
            ELSE IF i = Len(text) THEN scan[i + 1]
            ELSE [scan[i + 2] EXCEPT !.out = <<Unescaped(text[i + 1])>> \o @]
    IN  scan[p]

(* A word that the line's end closes is not terminated anew: behind it     *)
(* stay the characters that were there before the escapes were removed.    *)
GetParameter(text, from) ==
    LET start    == Skip(text, from)
        isstring == start <= Len(text) /\ text[start] = Quote
        p        == IF isstring THEN start + 1 ELSE start
        scanned  == Scan(text, p, IF isstring THEN Quote ELSE " ")
    IN  IF scanned.stop > Len(text)
        THEN [word |-> scanned.out \o SubSeq(text, p + Len(scanned.out), Len(text)),
              next |-> Len(text) + 1]
        ELSE [word |-> scanned.out, next |-> Skip(text, scanned.stop + 1)]

(* config() calls it until it gets an empty word.                          *)
WordsOf(text) ==
    LET words[i \in 1..(Len(text) + 1)] ==
            LET p == GetParameter(text, i)
            IN  IF p.word = <<>> THEN <<>>
                ELSE <<p.word>> \o IF p.next > Len(text) THEN <<>> ELSE words[p.next]
    IN  words[1]

-----------------------------------------------------------------------------
(* How a user writes a word into a file: in quotes, or bare.               *)
Escaped(c, quoted) ==
    CASE c = "\n" -> <<Backslash, "n">>
      [] c \in {Quote, Backslash} -> <<Backslash, c>>
      [] c = " " /\ ~quoted -> <<Backslash, c>>
      [] OTHER -> <<c>>

Written(word, quoted) ==
    LET text == FlattenSeq([i \in DOMAIN word |-> Escaped(word[i], quoted)])
    IN  IF quoted THEN <<Quote>> \o text \o <<Quote>> ELSE text
=============================================================================
