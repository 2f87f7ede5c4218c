----------------------------- MODULE RawString -----------------------------
(***************************************************************************)
(* Raw string literals as the parser sees them, after macro masking.        *)
(*                                                                          *)
(* Mozcpp's external scanner (tree-sitter-mozcpp/src/scanner.c) is called   *)
(* once for each of delimiter, content and delimiter; what it must remember *)
(* between calls is written to and read from a buffer that tree-sitter      *)
(* keeps with the last external token.  The ccomment and preproc scanners   *)
(* (scanner.cc) scan the whole literal in one call.                         *)
(*                                                                          *)
(* Tree-sitter is external: it restores the scanner before every call, asks *)
(* for the tokens in the order of the grammar, and after a literal it could *)
(* not complete it tries again at some later place.                         *)
(***************************************************************************)
EXTENDS MacroMask, Integers

VARIABLES scanner,     \* the delimiter in the C struct
          serialized,  \* the delimiter in the buffer
          pc,          \* "idle", "opening", "content" or "closing"
          start, at,   \* where the literal began, where the lexer stands
          delimited,   \* did the grammar see an opening delimiter?
          tried        \* start of a literal -> its end, 0 if it has none

parser == <<scanner, serialized, pc, start, at, delimited, tried>>
vars == <<maskVars, parser>>

Init ==
    /\ MaskInit
    /\ scanner = <<>> /\ serialized = <<>>
    /\ pc = "idle" /\ start = 0 /\ at = 1 /\ delimited = FALSE
    /\ tried = <<>>

NoDelimiterChar == {"(", Backslash, " ", Newline, "end of input"}

\* `scan_raw_string_delimiter` on an empty scanner: what it has recorded when
\* it stops, and whether that is a delimiter.
Opened(s, p) ==
    LET stop == CHOOSE q \in p..(p + DelimiterMax) :
                  /\ q = p + DelimiterMax \/ At(s, q) \in NoDelimiterChar
                  /\ \A r \in p..(q - 1) : At(s, r) \notin NoDelimiterChar
    IN  [ok   |-> p < stop /\ stop < p + DelimiterMax /\ At(s, stop) = "(",
         seen |-> SubSeq(s, p, stop - 1)]

\* Mutant: after a mismatch inside the delimiter its byte is not looked at again.
scan_raw_string_content_skips(s, from, delimiter) ==
    LET scan[p \in from..(Len(s) + 1), index \in -1..Len(delimiter),
             end \in from..(Len(s) + 1)] ==
          IF p > Len(s) THEN p
          ELSE IF index = Len(delimiter) /\ s[p] = Quote THEN end
          ELSE IF index >= 0
               THEN IF index < Len(delimiter) /\ s[p] = delimiter[index + 1]
                    THEN scan[p + 1, index + 1, end]
                    ELSE scan[p + 1, -1, end]
          ELSE IF s[p] = ")" THEN scan[p + 1, 0, p]
          ELSE scan[p + 1, -1, end]
    IN  scan[from, -1, from]

\* `scan_raw_string_content`: where the content ends, which is past the text
\* if it is never closed.  `index` is `delimiter_index`, `end` the mark.
scan_raw_string_content(s, from, delimiter) ==
    LET scan[p \in from..(Len(s) + 1), index \in -1..Len(delimiter),
             end \in from..(Len(s) + 1)] ==
          IF p > Len(s) THEN p
          ELSE IF index = Len(delimiter) /\ s[p] = Quote THEN end
          ELSE IF 0 <= index /\ index < Len(delimiter) /\ s[p] = delimiter[index + 1]
               THEN scan[p + 1, index + 1, end]
          ELSE IF s[p] = ")" THEN scan[p + 1, 0, p]
          ELSE scan[p + 1, -1, end]
    IN  scan[from, -1, from]

\* The end of the literal in one call of the ccomment scanner, 0 if it fails.
scan(s, p) ==
    LET stops == NoDelimiterChar \cup {"("}
        open  == CHOOSE q \in (p + 2)..(Len(s) + 1) :
                   At(s, q) \in stops /\ \A r \in (p + 2)..(q - 1) : At(s, r) \notin stops
        delimiter == SubSeq(s, p + 2, open - 1)
        content[q \in open..(Len(s) + 1), index \in -1..Len(delimiter)] ==
          IF q > Len(s) THEN 0
          ELSE IF index = Len(delimiter) /\ s[q] = Quote THEN q
          ELSE IF 0 <= index /\ index < Len(delimiter) /\ s[q] = delimiter[index + 1]
               THEN content[q + 1, index + 1]
          ELSE content[q + 1, IF s[q] = ")" THEN 0 ELSE -1]
    IN  IF At(s, open) = "(" THEN content[open + 1, -1] ELSE 0

-----------------------------------------------------------------------------
Prefixed(s, p) ==
    /\ At(s, p) = "R" /\ At(s, p + 1) = Quote
    /\ At(s, p - 1) \notin Parts

\* The grammar takes `R"` for the beginning of a literal.
Introduce ==
    /\ output # <<>> /\ pc = "idle"
    /\ \E p \in at..Len(output) : Prefixed(output, p) /\ start' = p /\ at' = p + 2
    /\ pc' = "opening"
    /\ UNCHANGED <<maskVars, scanner, serialized, delimited, tried>>

Give(end) ==
    /\ tried' = [p \in DOMAIN tried \cup {start} |-> IF p = start THEN end ELSE tried[p]]
    /\ pc' = "idle"

\* Mutant: an empty buffer leaves the delimiter of the last call in place.
deserialize_nonempty == IF serialized # <<>> THEN serialized ELSE scanner

\* What every call finds in the scanner.
deserialize == serialized

\* Only a call that recognised its token has its state saved.
ScanOpening ==
    /\ pc = "opening"
    /\ LET held   == deserialize
           opened == Opened(output, at)
           ok     == IF held # <<>> THEN Stands(output, at, held) ELSE opened.ok
           next   == at + Len(IF held # <<>> THEN held ELSE opened.seen)
       IN  /\ scanner' = IF held = <<>> THEN opened.seen ELSE IF ok THEN <<>> ELSE held
           /\ serialized' = IF ok THEN scanner' ELSE serialized
           /\ delimited' = ok
           /\ LET paren == IF ok THEN next ELSE at
              IN  IF At(output, paren) = "("
                  THEN pc' = "content" /\ at' = paren + 1 /\ UNCHANGED tried
                  ELSE Give(0) /\ UNCHANGED at
    /\ UNCHANGED <<maskVars, start>>

\* Content without its parenthesis (the text ends) is an incomplete literal.
ScanContent ==
    /\ pc = "content"
    /\ scanner' = deserialize
    /\ serialized' = scanner'
    /\ at' = scan_raw_string_content(output, at, deserialize) + 1
    /\ IF at' > Len(output) THEN Give(0) ELSE pc' = "closing" /\ UNCHANGED tried
    /\ UNCHANGED <<maskVars, start, delimited>>

\* The closing delimiter, if there was an opening one, and the quote.
ScanClosing ==
    /\ pc = "closing"
    /\ LET held == deserialize
           ok   == Stands(output, at, held)
           last == IF delimited THEN at + Len(held) ELSE at
       IN  /\ IF delimited
              THEN /\ scanner' = IF ok THEN <<>> ELSE held
                   /\ serialized' = IF ok THEN <<>> ELSE serialized
              ELSE UNCHANGED <<scanner, serialized>>
           /\ Give(IF (delimited => ok) /\ At(output, last) = Quote THEN last ELSE 0)
           /\ at' = last + 1
    /\ UNCHANGED <<maskVars, start, delimited>>

GiveUp ==
    /\ output # <<>> /\ pc = "idle"
    /\ \A p \in at..Len(output) : ~Prefixed(output, p)
    /\ UNCHANGED vars

Next ==
    \/ MaskNext /\ UNCHANGED parser
    \/ Introduce \/ ScanOpening \/ ScanContent \/ ScanClosing \/ GiveUp

Spec == Init /\ [][Next]_vars

-----------------------------------------------------------------------------
(***************************************************************************)
(* Properties.                                                              *)
(***************************************************************************)
\* A delimiter the language allows, and its length.
Allowed(s, p) ==
    /\ Opening(s, p) # 0
    /\ \A q \in DOMAIN Delimiter(s, p) : Delimiter(s, p)[q] \notin NoDelimiterChar \cup {")"}
Short(s, p) == Len(Delimiter(s, p)) < DelimiterMax

\* A literal ends at the first `)delimiter"` of its own delimiter, whatever
\* the scanner was left with by the literals before it, the ones it had to
\* give up included; without one it has no end.
LiteralEndsAtItsDelimiter ==
    \A p \in DOMAIN tried :
      Allowed(output, p) /\ Short(output, p) => tried[p] = RawEnd(output, p)

\* The three calls of one scanner and the one call of the other find the same
\* literals.
ScannersAgree ==
    \A p \in DOMAIN tried :
      Allowed(output, p) /\ Short(output, p) => tried[p] = scan(output, p)

\* What the mask passed over as a raw string is a raw string of what is parsed:
\* nothing that was masked before or behind it moved or opened a literal.
MaskAgreesWithParser ==
    \A r \in raw_strings :
      Allowed(code, r[1]) /\ Short(code, r[1]) /\ r[1] \in DOMAIN tried
        => tried[r[1]] = r[2]
=============================================================================
