---------------------------- MODULE CookieParse ----------------------------
(***************************************************************************)
(* ParseCookie: a Cookie header becomes the text of a JSON object, which   *)
(* check_coockie reads the token from.  The first loop counts how long the *)
(* text will be, the second one copies name by name and value by value     *)
(* into a buffer of that size.                                             *)
(*                                                                         *)
(* A header is any sequence of characters: no loop checks that it is made  *)
(* of cookies, and for one that is not, the two loops need not agree.  Of  *)
(* a plain name or value, as in the cookies that this server sets (a token *)
(* is dots and base64url without padding), it matters only that it has no  *)
(* '=', ';', blank or quote.                                               *)
(***************************************************************************)
EXTENDS Integers, Sequences, FiniteSets, SequencesExt

CONSTANTS
  Chars,           \* of names and values
  Names, Values,   \* of cookies
  Separators,      \* what comes between two cookies: a ';' and blanks
  MaxPairs,        \* bound: cookies in a header
  Headers          \* further headers, of whatever form

\* The characters that the loops, or JSON, give a meaning.
Equal     == "="
Semicolon == ";"
Blank     == " "
Quote     == "\""
Colon     == ":"
Comma     == ","
Brace     == "{"
EndBrace  == "}"
Marks == {Equal, Semicolon, Blank, Quote, Colon, Comma, Brace, EndBrace}
Text  == Seq(Chars \cup Marks)

ASSUME TextsAssumption ==
  /\ Chars \cap Marks = {}
  /\ Names \subseteq Seq(Chars) \ {<<>>} /\ Values \subseteq Seq(Chars)
ASSUME SeparatorsAssumption ==
  \A sep \in Separators :
    /\ sep \in Text /\ sep # <<>>
    /\ sep[1] = Semicolon /\ \A k \in 2 .. Len(sep) : sep[k] = Blank
ASSUME MaxPairsAssumption == MaxPairs \in Nat
ASSUME HeadersAssumption == Headers \subseteq Text

VARIABLES
  plain,               \* history: that the header is made of plain cookies, and
  pairs,               \* these, each <<name, value>>
  cookie,              \* the header
  loop,                \* the loop that runs: "count", "copy", or "returned"; "dead"
                       \* where writing past the buffer ended the process
  i, mark,             \* of both loops: the index, and that a ';' was passed and
                       \* no character of a name since
  count_element_pars, element_not_parse, size_parse,   \* what the first one counts
  parse,               \* the text written so far; parse.size() is size_parse
  index_last_record    \* where the present name or value starts

counts == <<count_element_pars, element_not_parse, size_parse>>
request == <<plain, pairs, cookie>>
parseVars == <<request, loop, i, mark, counts, parse, index_last_record>>

\* The header of plain cookies ps, as a browser writes it.
Joined(strings, sep) ==
  FlattenSeq([k \in DOMAIN strings |-> IF k = 1 THEN strings[k] ELSE sep \o strings[k]])
Header(ps, sep) == Joined([k \in DOMAIN ps |-> ps[k][1] \o <<Equal>> \o ps[k][2]], sep)

ParseInit ==
  /\ \/ /\ plain = TRUE
        /\ \E m \in 0 .. MaxPairs : pairs \in [1 .. m -> Names \X Values]
        /\ \E sep \in Separators : cookie = Header(pairs, sep)
     \/ plain = FALSE /\ pairs = <<>> /\ cookie \in Headers
  /\ loop = "count" /\ i = 1 /\ mark = FALSE
  /\ count_element_pars = 0 /\ element_not_parse = 0 /\ size_parse = 2
  /\ parse = <<>> /\ index_last_record = 1

-----------------------------------------------------------------------------
(* The first loop.                                                         *)

\* One turn: every cookie will take five characters more than its name and value
\* (the '=' is one of them), and the blanks after a ';' will go.
CountTurn ==
  /\ loop = "count" /\ i <= Len(cookie) /\ i' = i + 1
  /\ mark' = (cookie[i] = Semicolon \/ (mark /\ cookie[i] \in {Equal, Blank}))
  /\ count_element_pars' = count_element_pars + (IF cookie[i] = Equal THEN 1 ELSE 0)
  /\ element_not_parse' = element_not_parse + (IF cookie[i] = Blank /\ mark THEN 1 ELSE 0)
  /\ UNCHANGED <<request, loop, size_parse, parse, index_last_record>>

\* parse.resize(size_parse); parse[0] = '{'.
Resize ==
  /\ loop = "count" /\ i = Len(cookie) + 1
  /\ size_parse' = size_parse + Len(cookie) + 4 * count_element_pars - element_not_parse
  /\ parse' = <<Brace>>
  /\ loop' = "copy" /\ i' = 1 /\ mark' = FALSE /\ index_last_record' = 1
  /\ UNCHANGED <<request, count_element_pars, element_not_parse>>

-----------------------------------------------------------------------------
(* The second loop.                                                        *)

AtEnd == i = Len(cookie)

\* Mutant: the last character always belongs to the record.
RecordWhole == SubSeq(cookie, index_last_record, IF AtEnd THEN i ELSE i - 1)

\* The name or value that ends here: before a delimiter, or with the header.
Record == SubSeq(cookie, index_last_record, IF AtEnd /\ cookie[i] # Equal THEN i ELSE i - 1)

\* '=', ';' and the last character end a name or a value; a header that ends with
\* '=' has an empty value.
EndRecord ==
  /\ cookie[i] \in {Equal, Semicolon} \/ AtEnd
  /\ parse' = parse \o <<Quote>> \o Record \o <<Quote>> \o
       (CASE ~AtEnd /\ cookie[i] = Equal -> <<Colon>>
          [] ~AtEnd /\ cookie[i] # Equal -> <<Comma>>
          [] AtEnd /\ cookie[i] = Equal  -> <<Colon, Quote, Quote>>
          [] OTHER                    -> <<>>)
  /\ index_last_record' = i + 1
  /\ mark' = (mark \/ (~AtEnd /\ cookie[i] # Equal))

\* Blanks after a ';' are skipped.
WithinRecord ==
  /\ cookie[i] \notin {Equal, Semicolon} /\ ~AtEnd
  /\ IF mark /\ cookie[i] # Blank THEN index_last_record' = i /\ mark' = FALSE
     ELSE UNCHANGED <<index_last_record, mark>>
  /\ UNCHANGED parse

CopyTurn ==
  /\ loop = "copy" /\ i <= Len(cookie) /\ i' = i + 1
  /\ EndRecord \/ WithinRecord
  /\ UNCHANGED <<request, loop, counts>>

\* parse[index_parse] = '}'.
Close ==
  /\ loop = "copy" /\ i = Len(cookie) + 1 /\ loop' = "returned"
  /\ parse' = Append(parse, EndBrace)
  /\ UNCHANGED <<request, i, mark, counts, index_last_record>>

Fits == Len(parse) <= size_parse

\* What is written past the buffer (parse[index_parse] and memcpy check no bound)
\* may go unnoticed, or end the process.
Die ==
  /\ loop \in {"copy", "returned"} /\ ~Fits /\ loop' = "dead"
  /\ UNCHANGED <<request, i, mark, counts, parse, index_last_record>>

\* The next request, with the same header, after a restart where there was one.
Again ==
  /\ loop \in {"returned", "dead"} /\ loop' = "count" /\ i' = 1 /\ mark' = FALSE
  /\ count_element_pars' = 0 /\ element_not_parse' = 0 /\ size_parse' = 2
  /\ parse' = <<>> /\ index_last_record' = 1
  /\ UNCHANGED request

ParseNext == CountTurn \/ Resize \/ CopyTurn \/ Close \/ Die \/ Again

ParseSpec == ParseInit /\ [][ParseNext]_parseVars

-----------------------------------------------------------------------------
(* Properties.                                                             *)

Quoted(s) == <<Quote>> \o s \o <<Quote>>

\* The JSON object of the cookies.
Members(ps) ==
  Joined([k \in DOMAIN ps |-> Quoted(ps[k][1]) \o <<Colon>> \o Quoted(ps[k][2])], <<Comma>>)
Object(ps) == <<Brace>> \o Members(ps) \o <<EndBrace>>

\* Where a part of a header ends: with each ';' and with the header.
PartEnds(h) == {k \in DOMAIN h : h[k] = Semicolon \/ k = Len(h)}
EqualsIn(h) == {k \in DOMAIN h : h[k] = Equal}

\* The blanks that the first loop takes off the size: those with only '=' and
\* blanks between them and a ';' before.
AfterSemicolon(h, k) == \E j \in 1 .. k - 1 :
  h[j] = Semicolon /\ \A l \in j + 1 .. k - 1 : h[l] \in {Equal, Blank}
CountedOff(h) == {k \in DOMAIN h : h[k] = Blank /\ AfterSemicolon(h, k)}

\* The second one skips those of them that stand right before another character,
\* unless that is the last one of the header.
BeforeName(h, k) == \E l \in k + 1 .. Len(h) - 1 :
  h[l] \notin {Equal, Semicolon, Blank} /\ \A j \in k + 1 .. l - 1 : h[j] = Blank
Stray(h) == {k \in CountedOff(h) : ~BeforeName(h, k)}

\* For every header whatever, the text differs from the size computed for it by
\* two characters for each part without '=', two less for each further '=' in a
\* part, and one for each blank that is counted off but not skipped.  So the
\* buffer suffices for every header with a '=' in each part and no blank left
\* astray, and not for each header there is: the code checks none of it.
SizeOfText ==
  loop = "returned" =>
    Len(parse) = size_parse + Cardinality(Stray(cookie))
                   + 2 * (Cardinality(PartEnds(cookie)) - Cardinality(EqualsIn(cookie)))

\* For a header of plain cookies the text is their JSON object, with no name or
\* value cut, exactly as long as the buffer, and no turn writes past the buffer,
\* although the two loops skip blanks by different rules.
ObjectOfCookies ==
  plain =>
    /\ Fits /\ loop # "dead"
    /\ loop = "returned" => parse = Object(pairs) /\ Len(parse) = size_parse

\* What ParseCookie does with any header, and with one of plain cookies.
TextOfHeader == SizeOfText /\ ObjectOfCookies

=============================================================================
