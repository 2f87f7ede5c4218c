----------------------------- MODULE MacroMask -----------------------------
(***************************************************************************)
(* Masking of macro names before a C-family file is parsed                  *)
(* (big-code-analysis-ast/src/c_macro.rs, `replace`): a byte scanner that   *)
(* knows enough of the language to find the names the preprocessor would    *)
(* expand, and writes `$` over each so that every position stays where it   *)
(* was.                                                                     *)
(*                                                                          *)
(* A byte is a string of length one.  The texts are all concatenations of   *)
(* a few fragments; R stands for the five raw-string prefixes.              *)
(***************************************************************************)
EXTENDS Naturals, Sequences, SequencesExt

CONSTANTS Fragments,     \* what texts are made of
          MaxFragments,  \* bound on the length of a text, in fragments
          Macros,        \* names of visible or predefined macros
          DelimiterMax   \* CPP_RAW_STRING_DELIM_MAX, MAX_DELIMITER_LENGTH

VARIABLES code,
          i,           \* the cursor
          lex,         \* LexState
          k_start,     \* start of the current identifier, 0 if there is none
          in_number,
          code_start,  \* how much of `code` is in `new_code`
          new_code,
          output,      \* what the parser is given, <<>> until then
          raw_strings  \* witness: where the scanner saw a raw string, and its end

mask == <<k_start, in_number, code_start, new_code>>
maskVars == <<code, i, lex, mask, output, raw_strings>>

Quote == "\""
Backslash == "\\"
Newline == "\n"
Digits == {"1"}
HexDigits == {"1", "D", "a"}
Starters == {"D", "R", "a"}
Parts == Starters \cup Digits
RawPrefix == <<"R">>

At(s, p) == IF p \in 1..Len(s) THEN s[p] ELSE "end of input"

\* The first of the positions from..to of s that satisfies Test, 0 if none does.
First(s, from, to, Test(_)) == SelectInSubSeq(s, from, to, Test)

Normal == [kind |-> "Normal"]
Literal(kind) == [kind |-> kind]
RawString(start, delimiter) ==
    [kind |-> "RawString", start |-> start, delimiter |-> delimiter]

MaskInit ==
    /\ code \in {FlattenSeq(fs) : fs \in BoundedSeq(Fragments, MaxFragments)} \ {<<>>}
    /\ i = 1 /\ lex = Normal
    /\ k_start = 0 /\ in_number = FALSE
    /\ code_start = 1 /\ new_code = <<>>
    /\ output = <<>>
    /\ raw_strings = {}

Scanning(kind) == output = <<>> /\ i <= Len(code) /\ lex.kind = kind

\* Mutant: a quote between digits opens a character literal.
is_digit_separator_never == FALSE

is_digit_separator ==
    /\ code[i] = "'"
    /\ in_number
    /\ At(code, i - 1) \in HexDigits
    /\ At(code, i + 1) \in HexDigits

NumberAfter ==
    IF in_number THEN code[i] \in Parts \cup {"."}
                 ELSE k_start = 0 /\ code[i] \in Digits

\* The identifier that ends before the cursor.
NameEnds == k_start # 0 /\ At(code, i) \notin Parts
Name == SubSeq(code, k_start, i - 1)

MaskName ==
    IF NameEnds /\ Name \in Macros
    THEN /\ new_code' = new_code \o SubSeq(code, code_start, k_start - 1)
                          \o [p \in 1..(i - k_start) |-> "$"]
         /\ code_start' = i
    ELSE UNCHANGED <<new_code, code_start>>

DigitSeparator ==
    /\ Scanning("Normal")
    /\ is_digit_separator
    /\ i' = i + 1
    /\ UNCHANGED <<code, lex, mask, output, raw_strings>>

\* `enter_raw_string`: without a parenthesis in time, an ordinary string.
EnterRawString ==
    /\ Scanning("Normal")
    /\ NameEnds /\ code[i] = Quote /\ Name = RawPrefix
    /\ LET open == First(code, i + 1, Len(code), LAMBDA c : c = "(")
       IN  IF open # 0 /\ open - (i + 1) <= DelimiterMax
           THEN /\ lex' = RawString(k_start, SubSeq(code, i + 1, open - 1))
                /\ i' = open + 1
           ELSE /\ lex' = Literal("String")
                /\ i' = i + 1
    /\ k_start' = 0
    /\ in_number' = FALSE
    /\ UNCHANGED <<code, code_start, new_code, output, raw_strings>>

\* The rest of `step_normal`: a name ends, then a comment, a literal or a name
\* may begin.
StepNormal ==
    /\ Scanning("Normal")
    /\ ~is_digit_separator
    /\ ~(NameEnds /\ code[i] = Quote /\ Name = RawPrefix)
    /\ in_number' = NumberAfter
    /\ MaskName
    /\ k_start' = IF NameEnds THEN 0
                  ELSE IF k_start = 0 /\ code[i] \in Starters THEN i ELSE k_start
    /\ LET pair == <<code[i], At(code, i + 1)>>
       IN  IF pair \in {<<"/", "/">>, <<"/", "*">>}
           THEN /\ lex' = Literal(IF pair[2] = "/" THEN "LineComment" ELSE "BlockComment")
                /\ i' = i + 2
           ELSE /\ lex' = CASE code[i] = Quote -> Literal("String")
                            [] code[i] = "'"   -> Literal("Char")
                            [] OTHER           -> lex
                /\ i' = i + 1
    /\ UNCHANGED <<code, output, raw_strings>>

\* One step inside a literal or comment: `skip` bytes, after which it ended or
\* goes on.
Inside(skip, ended) ==
    /\ i' = i + skip
    /\ lex' = IF ended THEN Normal ELSE lex
    /\ UNCHANGED <<code, mask, output>>

StepQuoted ==
    /\ Scanning("String") \/ Scanning("Char")
    /\ IF code[i] = Backslash /\ i < Len(code)
       THEN Inside(2, FALSE)
       ELSE Inside(1, code[i] = (IF lex.kind = "Char" THEN "'" ELSE Quote))
    /\ UNCHANGED raw_strings

StepLineComment ==
    /\ Scanning("LineComment")
    /\ IF code[i] = Backslash /\ At(code, i + 1) = Newline
       THEN Inside(2, FALSE)
       ELSE Inside(1, code[i] = Newline)
    /\ UNCHANGED raw_strings

StepBlockComment ==
    /\ Scanning("BlockComment")
    /\ IF code[i] = "*" /\ At(code, i + 1) = "/" THEN Inside(2, TRUE) ELSE Inside(1, FALSE)
    /\ UNCHANGED raw_strings

\* Does w stand at p?
Stands(s, p, w) == \A k \in DOMAIN w : At(s, p + k - 1) = w[k]
Closes(s, p, delimiter) == Stands(s, p, <<")">> \o delimiter \o <<Quote>>)

\* Mutant: the delimiter is not compared.
StepRawString_any_delimiter ==
    /\ Scanning("RawString")
    /\ LET last == i + Len(lex.delimiter) + 1
       IN  IF code[i] = ")" /\ At(code, last) = Quote
           THEN /\ Inside(last - i + 1, TRUE)
                /\ raw_strings' = raw_strings \cup {<<lex.start, last>>}
           ELSE Inside(1, FALSE) /\ UNCHANGED raw_strings

StepRawString ==
    /\ Scanning("RawString")
    /\ LET last == i + Len(lex.delimiter) + 1
       IN  IF Closes(code, i, lex.delimiter)
           THEN /\ Inside(last - i + 1, TRUE)
                /\ raw_strings' = raw_strings \cup {<<lex.start, last>>}
           ELSE Inside(1, FALSE) /\ UNCHANGED raw_strings

\* The end of `replace`: a name may end the text; the rest is copied.
Finish ==
    /\ output = <<>> /\ i > Len(code)
    /\ IF lex = Normal THEN MaskName ELSE UNCHANGED <<new_code, code_start>>
    /\ output' = IF code_start' = 1 THEN code
                 ELSE new_code' \o SubSeq(code, code_start', Len(code))
    /\ UNCHANGED <<code, i, lex, k_start, in_number, raw_strings>>

MaskNext ==
    \/ DigitSeparator \/ EnterRawString \/ StepNormal \/ StepQuoted
    \/ StepLineComment \/ StepBlockComment \/ StepRawString \/ Finish

-----------------------------------------------------------------------------
(***************************************************************************)
(* Properties.  The reference cuts a text into tokens, each of which ends   *)
(* where the language says: TokenEnd(s, p) is the last position of the      *)
(* token that begins at p.                                                  *)
(***************************************************************************)
\* How many backslashes stand right before position p, none of them before b.
Backslashes(s, b, p) ==
    p - 1 - (LET others == {q \in b..(p - 1) : s[q] # Backslash}
             IN  IF others = {} THEN b - 1 ELSE CHOOSE q \in others : \A r \in others : r <= q)

OrEnd(s, p) == IF p = 0 THEN Len(s) ELSE p

\* The least position from p on for which P holds, or the end of the text.
Until(s, p, P(_)) ==
    LET found == {q \in p..Len(s) : P(q)}
    IN  IF found = {} THEN Len(s) ELSE CHOOSE q \in found : \A r \in found : q <= r

QuotedEnd(s, p) ==
    Until(s, p + 1, LAMBDA q : s[q] = s[p] /\ Backslashes(s, p + 1, q) % 2 = 0)

NameEnd(s, p) == Until(s, p, LAMBDA q : At(s, q + 1) \notin Parts)

NumberEnd(s, p) ==
    Until(s, p, LAMBDA q :
        /\ At(s, q + 1) \notin Parts \cup {"."}
        /\ ~(At(s, q + 1) = "'" /\ s[q] \in HexDigits /\ At(s, q + 2) \in HexDigits))

IsRaw(s, p) == SubSeq(s, p, NameEnd(s, p)) = RawPrefix /\ At(s, p + 1) = Quote

\* A raw string that begins at p: its delimiter, and where it ends (0: nowhere).
Opening(s, p) ==
    LET open == First(s, p + 2, Len(s), LAMBDA c : c = "(")
    IN  IF open = 0 \/ open - (p + 2) > DelimiterMax THEN 0 ELSE open
Delimiter(s, p) == SubSeq(s, p + 2, Opening(s, p) - 1)
RawEnd(s, p) ==
    LET ends == {q \in Opening(s, p)..Len(s) : Closes(s, q, Delimiter(s, p))}
    IN  IF Opening(s, p) = 0 \/ ends = {} THEN 0
        ELSE (CHOOSE q \in ends : \A r \in ends : q <= r) + Len(Delimiter(s, p)) + 1

TokenEnd(s, p) ==
    CASE s[p] = "/" /\ At(s, p + 1) = "/" ->
           Until(s, p + 2, LAMBDA q : s[q] = Newline /\ (q = p + 2 \/ s[q - 1] # Backslash))
      [] s[p] = "/" /\ At(s, p + 1) = "*" ->
           Until(s, p + 3, LAMBDA q : s[q] = "/" /\ s[q - 1] = "*")
      [] s[p] \in {Quote, "'"} -> QuotedEnd(s, p)
      [] s[p] \in Digits -> NumberEnd(s, p)
      [] s[p] \in Starters ->
           IF ~IsRaw(s, p) THEN NameEnd(s, p)
           ELSE IF Opening(s, p) = 0 THEN QuotedEnd(s, p + 1)
           ELSE OrEnd(s, RawEnd(s, p))
      [] OTHER -> p

\* Where the tokens of s begin.
Begins(s) ==
    LET from[p \in 1..(Len(s) + 1)] ==
          IF p > Len(s) THEN {} ELSE {p} \cup from[TokenEnd(s, p) + 1]
    IN  from[1]

\* Is a part of the number that begins at p a name the scanner looks for?
NamesIn(s, p) ==
    \E q \in p..NumberEnd(s, p) : \E r \in q..NumberEnd(s, p) :
      SubSeq(s, q, r) \in Macros \cup {RawPrefix}

Expanded(s) ==
    UNION {p..NameEnd(s, p) :
             p \in {p \in Begins(s) : /\ s[p] \in Starters
                                      /\ SubSeq(s, p, NameEnd(s, p)) \in Macros
                                      /\ ~IsRaw(s, p)}}

\* The parser is given the source with exactly those bytes overwritten that
\* belong to a macro name the preprocessor would expand: none in a literal or
\* a comment, none missed behind one, none moved.  A number that runs into a
\* macro name is left aside: the scanner masks the name, the preprocessor does not.
MaskIsExpansion ==
    output # <<>> =>
      \/ \E p \in Begins(code) : code[p] \in Digits /\ NamesIn(code, p)
      \/ output = [p \in DOMAIN code |-> IF p \in Expanded(code) THEN "$" ELSE code[p]]
=============================================================================
