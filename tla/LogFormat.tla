----------------------------- MODULE LogFormat -----------------------------
(***************************************************************************)
(* The formats of log sinks: how SetFormat cuts a format into constant     *)
(* parts and attribute keys, and what StoreRecord writes for it.  A format *)
(* is a sequence of tokens: the two braces, words (whole runs of the       *)
(* characters that a key is made of) and other text.                       *)
(***************************************************************************)
EXTENDS Naturals, Sequences, SequencesExt

CONSTANTS
    Word,         \* some strings that match [_[:alnum:]]+
    Other,        \* other text without braces
    MaxFormat,    \* bound: the number of tokens of a format
    Attributes    \* Attributes[key]: the attributes of a record

Token == Word \cup Other \cup {"{", "}"}

ASSUME FormatAssumption ==
    /\ MaxFormat \in Nat
    /\ (Word \cup Other) \cap {"{", "}"} = {}
    /\ Word \cap Other = {}
    /\ Attributes \in [DOMAIN Attributes -> Seq(Token)]

\* A word is a whole run: two of them never stand side by side.
Formats ==
    {f \in BoundedSeq(Token, MaxFormat) :
        \A i \in 1..(Len(f) - 1) : ~({f[i], f[i + 1]} \subseteq Word)}

\* Where the matches of "\{([_[:alnum:]]+?)\}" in a format start.
Matches(format) ==
    {i \in 1..(Len(format) - 2) :
        format[i] = "{" /\ format[i + 1] \in Word /\ format[i + 2] = "}"}

\* A part of a compiled format: constant text or a key.
Part(text, isConstant) == [text |-> text, isConstant |-> isConstant]

Constant(text) == IF text = << >> THEN << >> ELSE << Part(text, TRUE) >>

\* A search without its loop: only the first match is replaced.
SetFormat_Once(format) ==
    IF Matches(format) = {} THEN Constant(format)
    ELSE LET i == CHOOSE i \in Matches(format) : \A j \in Matches(format) : i <= j IN
         Constant(SubSeq(format, 1, i - 1))
             \o << Part(format[i + 1], FALSE) >>
             \o Constant(SubSeq(format, i + 3, Len(format)))

\* The loop over the matches; start is last_end.
SetFormat(format) ==
    LET from[start \in 1..(Len(format) + 1)] ==
            LET later == {i \in Matches(format) : i >= start} IN
            IF later = {} THEN Constant(SubSeq(format, start, Len(format)))
            ELSE LET i == CHOOSE i \in later : \A j \in later : i <= j IN
                 Constant(SubSeq(format, start, i - 1))
                     \o << Part(format[i + 1], FALSE) >>
                     \o from[i + 3]
    IN  from[1]

GetStringFromMap(part) ==
    IF part.isConstant THEN part.text
    ELSE IF part.text \in DOMAIN Attributes THEN Attributes[part.text]
    ELSE << >>

StoreRecord(compiled) ==
    FlattenSeq([i \in DOMAIN compiled |-> GetStringFromMap(compiled[i])])

-----------------------------------------------------------------------------
(* Properties *)

\* What stands at position i of a format in the text that is written for it:
\* the value of the key where a pattern has its key, nothing for the braces
\* of a pattern, and the token itself everywhere else.
Written(format, i) ==
    IF i - 1 \in Matches(format)
    THEN IF format[i] \in DOMAIN Attributes THEN Attributes[format[i]] ELSE << >>
    ELSE IF {i, i - 2} \cap Matches(format) # {} THEN << >>
    ELSE << format[i] >>

\* "Patterns like {attr_name} in the format will be replaced with the
\* attribute values of key attr_name ... If a required attribute is missing
\* in the record, an empty string will be used": for every format, with
\* several patterns, side by side or with text before, between and after
\* them, and with unbalanced, empty and nested braces.
PatternsReplaced ==
    \A format \in Formats :
        StoreRecord(SetFormat(format))
            = FlattenSeq([i \in DOMAIN format |-> Written(format, i)])
=============================================================================
