----------------------------- MODULE NmeaTokens -----------------------------
(***************************************************************************)
(* How parseSentence takes a line that NmeaLine reported apart: the         *)
(* Tokenizer and str2int of NmeaParser.cpp, against the definition of a    *)
(* sentence as its fields with commas between them.  A character is its    *)
(* ASCII code; a pointer is an index into the line, and `end` the index    *)
(* behind the last character.                                              *)
(***************************************************************************)
EXTENDS NmeaLine, Sequences

CONSTANTS
    kMaxTokens,
    FieldTexts,     \* texts of fields
    MaxFields       \* bound on the fields of a sentence

Dollar == 36    Star == 42    Comma == 44    CR == 13    LF == 10
Digits == 48 .. 57

ASSUME TokensAssumption ==
    /\ kMaxTokens \in Nat \ {0} /\ MaxFields \in Nat \ {0}
    /\ FieldTexts \subseteq Seq((0 .. 127) \ {Dollar, Star, Comma, CR, LF})

\* The first token's begin, and the last one's end, as the constructor finds
\* them: behind '$', before "*XX" and CR LF.
Begin(line) == IF line # <<>> /\ line[1] = Dollar THEN 2 ELSE 1

End(line) ==
    LET p  == Begin(line)
        e1 == Len(line) + 1
        e2 == IF e1 > p /\ line[e1 - 1] = LF THEN e1 - 1 ELSE e1
        e3 == IF e2 < e1 /\ e2 > p /\ line[e2 - 1] = CR THEN e2 - 1 ELSE e2
    IN  IF e3 >= p + 3 /\ line[e3 - 3] = Star THEN e3 - 3 ELSE e3

\* memchr: the next comma from p on, or the end.
NextComma(line, p, end) ==
    CHOOSE i \in p .. end : (i = end \/ line[i] = Comma) /\ \A j \in p .. i - 1 : line[j] # Comma

\* Mutant: like strtok, commas in a row separate once.
TokenizerMergesCommas(line) ==
    LET end == End(line)
        skip(i) == CHOOSE j \in i .. end : (j = end \/ line[j] # Comma)
                                           /\ \A k \in i .. j - 1 : line[k] = Comma
        p[count \in 0 .. kMaxTokens] ==
            IF count = 0 THEN skip(Begin(line)) ELSE skip(NextComma(line, p[count - 1], end))
    IN  [i \in {n \in 1 .. kMaxTokens : p[n - 1] < end} |->
            SubSeq(line, p[i - 1], NextComma(line, p[i - 1], end) - 1)]

\* The loop: p[count] is where it stands when it has found count tokens; a token
\* ends at the next comma, the loop at the end of the line or of the array.
Tokenizer(line) ==
    LET end == End(line)
        p[count \in 0 .. kMaxTokens] ==
            IF count = 0 THEN Begin(line)
            ELSE LET q == NextComma(line, p[count - 1], end) IN IF q < end THEN q + 1 ELSE q
    IN  [i \in {n \in 1 .. kMaxTokens : p[n - 1] < end} |->
            SubSeq(line, p[i - 1], NextComma(line, p[i - 1], end) - 1)]

\* tzer.get(index); Token{} is empty.
Get(line, index) ==
    LET tokens == Tokenizer(line)
    IN  IF index + 1 \in DOMAIN tokens THEN tokens[index + 1] ELSE <<>>

\* -1 at the first character that is no digit; 0 for an empty token.  Beyond nine
\* digits the int may overflow, which is undefined; nothing is said of these.
str2int(token) ==
    LET result[i \in 0 .. Len(token)] ==
            IF i = 0 THEN 0
            ELSE IF result[i - 1] < 0 \/ token[i] \notin Digits THEN -1
            ELSE result[i - 1] * 10 + (token[i] - 48)
    IN  result[Len(token)]

-----------------------------------------------------------------------------
(* What a sentence is                                                      *)

Join(fields) ==
    LET joined[i \in 0 .. Len(fields) - 1] ==
            IF i = 0 THEN fields[1] ELSE joined[i - 1] \o <<Comma>> \o fields[i + 1]
    IN  joined[Len(fields) - 1]

Sentence(fields, start, checksum, newline) == start \o Join(fields) \o checksum \o newline

\* The value of a text of digits, by their weights.
Value(text) ==
    LET weight[n \in 0 .. Len(text)] == IF n = 0 THEN 1 ELSE 10 * weight[n - 1]
        sum[i \in 0 .. Len(text)] ==
            IF i = 0 THEN 0 ELSE sum[i - 1] + (text[i] - 48) * weight[Len(text) - i]
    IN  sum[Len(text)]

-----------------------------------------------------------------------------
(* Property                                                                *)

\* Sentences with any of some fields, beginnings and ends.
SentencesOf(F, starts, checksums, newlines) ==
    {[fields |-> f, line |-> Sentence(f, start, checksum, newline)] :
        f \in F, start \in starts, checksum \in checksums, newline \in newlines}

\* The sentences of up to MaxFields fields.
Sentences ==
    SentencesOf(UNION {[1 .. n -> FieldTexts] : n \in 1 .. MaxFields},
                {<<>>, <<Dollar>>}, {<<>>, <<Star, 55, 65>>}, {<<LF>>, <<CR, LF>>})

\* Every token is its field, up to the array's capacity, and none is beyond the
\* last one; if an int holds it, it is read as a number if it is one, else as -1.
ReadRight(s) ==
    \A i \in 0 .. Len(s.fields) :
        LET field == IF i < Len(s.fields) /\ i < kMaxTokens THEN s.fields[i + 1] ELSE <<>>
        IN  /\ Get(s.line, i) = field
            /\ Len(field) < 10 =>
                 str2int(Get(s.line, i)) =
                    IF \A j \in 1 .. Len(field) : field[j] \in Digits THEN Value(field) ELSE -1

MisreadLengths == {Len(s.line) : s \in {x \in Sentences : ~ReadRight(x)}}

\* No sentence of the length of a reported line is misread, whatever fields it
\* has, empty ones included, with or without '$', checksum and CR
\* (NmeaParser.cpp:54-89).
FieldsRead == emitted = "line" => wire.len \notin MisreadLengths
=============================================================================
