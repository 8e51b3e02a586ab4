-------------------------- MODULE TextNormalization --------------------------
(***************************************************************************)
(* The normal form in which keywords and transcripts are compared, with    *)
(* the way back to the original characters (services/text_normalization.py *)
(* and the repetition test of services/transcription.py).                  *)
(*                                                                         *)
(* A text is a sequence of symbols, one per kind of character the code     *)
(* tells apart: "a" a Latin letter, "w" one that NFKC spells as two, "k" a *)
(* letter of a script whose marks are significant, "^" a combining mark,   *)
(* "~" an invisible character, "-" a separator.  Scripts without word      *)
(* boundaries are left out.                                                *)
(***************************************************************************)
EXTENDS Integers, Sequences, SequencesExt

Letters == {"a", "w", "k"}
Glyphs == Letters \cup {"^", "~", "-"}

\* dominant_script(): the script of most letters, of the first one in a tie.
Count(text, script) == Len(SelectSeq(text, LAMBDA c : c \in script))
Latin == {"a", "w"}
MarksAreSignificant(text) ==
    LET letters == SelectSeq(text, LAMBDA c : c \in Letters)
        indic == Count(text, {"k"})
    IN  \/ indic > Count(text, Latin)
        \/ indic > 0 /\ indic = Count(text, Latin) /\ letters[1] = "k"

\* What a character becomes: NFKC, case folding and, if marks are folded, NFD
\* without its marks.
Pieces(c) == IF c = "w" THEN <<"a", "a">> ELSE <<c>>

\* normalize(): each symbol of the result with the position it comes from.
\* Separators collapse, and none is left at either end.
NormalStep(text, fold, done, i) ==
    LET blank == done = << >> \/ Last(done).symbol = " "
        at(c) == [symbol |-> c, at |-> i]
    IN  CASE text[i] = "~" -> done
          [] text[i] = "^" -> (IF fold THEN done ELSE Append(done, at("^")))
          [] text[i] = "-" -> (IF blank THEN done ELSE Append(done, at(" ")))
          [] OTHER -> done \o [j \in DOMAIN Pieces(text[i]) |-> at(Pieces(text[i])[j])]

Trimmed(done) == IF done # << >> /\ Last(done).symbol = " " THEN Front(done) ELSE done

NormalizeWith(text, fold) ==
    LET done[i \in 0 .. Len(text)] ==
            IF i = 0 THEN << >> ELSE NormalStep(text, fold, done[i - 1], i)
    IN  Trimmed(done[Len(text)])

Normalize(text) == NormalizeWith(text, ~MarksAreSignificant(text))

Symbols(normal) == [i \in DOMAIN normal |-> normal[i].symbol]

\* original_span() of the symbols from .. to of a normal form.
OriginalSpan(normal, from, to) == <<normal[from].at, normal[to].at>>

\* is_word_boundary() between a symbol and the one before; a mark is not
\* alphanumeric.
Alphanumeric == {"a", "k"}
WordStarts(symbols, i) ==
    i <= 1 \/ i > Len(symbols) \/ symbols[i - 1] \notin Alphanumeric \/ symbols[i] \notin Alphanumeric

SpansWords(symbols, from, to) == WordStarts(symbols, from) /\ WordStarts(symbols, to + 1)

\* variant_keys(): a value with its marks folded and without.
VariantKeys(text) == {Symbols(NormalizeWith(text, fold)) : fold \in BOOLEAN} \ {<< >>}
=============================================================================
