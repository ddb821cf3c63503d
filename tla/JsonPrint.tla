------------------------------ MODULE JsonPrint -------------------------------
(***************************************************************************)
(* The printers of tool/cjson.cpp and cJSON_Minify.  A printbuffer keeps   *)
(* the bytes written so far, the size of its buffer, and where to write    *)
(* next; ok turns FALSE at the first ensure that fails and everything      *)
(* after it is skipped, as the returns of the code do; over records a      *)
(* write behind the end of the buffer.                                     *)
(***************************************************************************)
EXTENDS JsonText

PrintBuffer(length, noalloc, format) ==
  [written |-> <<>>, length |-> length, offset |-> 0, depth |-> 0,
   noalloc |-> noalloc, format |-> format, ok |-> TRUE, over |-> FALSE]

(* A fault: ensure forgets what is in the buffer already.                  *)
EnsureFromStart(p, needed) ==
  LET size == needed + 1
  IN IF p.length > 0 /\ p.offset >= p.length THEN [p EXCEPT !.ok = FALSE]
     ELSE IF size <= p.length THEN p
     ELSE IF p.noalloc THEN [p EXCEPT !.ok = FALSE]
     ELSE [p EXCEPT !.length = 2 * size]

(* ensure: room for needed bytes behind the offset, and one more.          *)
Ensure(p, needed) ==
  LET size == needed + p.offset + 1
  IN IF p.length > 0 /\ p.offset >= p.length THEN [p EXCEPT !.ok = FALSE]
     ELSE IF size <= p.length THEN p
     ELSE IF p.noalloc THEN [p EXCEPT !.ok = FALSE]
     ELSE [p EXCEPT !.length = 2 * size]

(* Ask for room, write the bytes at the offset and advance it.             *)
Put(p, needed, bytes, advance) ==
  LET q == Ensure(p, needed)
  IN IF ~p.ok \/ ~q.ok THEN [p EXCEPT !.ok = FALSE]
     ELSE [q EXCEPT !.written = SubSeq(@, 1, q.offset) \o bytes,
                    !.over = @ \/ q.offset + Len(bytes) > q.length,
                    !.offset = @ + advance]

(* update_offset: to the zero behind the offset.                           *)
UpdateOffset(p) ==
  IF p.ok THEN [p EXCEPT !.offset = @ + RunOf(p.written, @ + 1, 1 .. 255)] ELSE p

Nest(p, by) == [p EXCEPT !.depth = @ + by]
When(condition, bytes) == IF condition THEN bytes ELSE <<>>
Tabs(n) == [i \in 1 .. n |-> TAB]

(* %1.15g of a number that has at most nine digits.                        *)
General(v) ==
  LET digits == DigitsOf(Magnitude(v))
      point == Width(v)
      power == IF point - 1 < 0 THEN 1 - point ELSE point - 1
  IN CASE point - 1 < -4 \/ point - 1 >= 15 ->
            SubSeq(digits, 1, 1) \o When(Len(digits) > 1, <<POINT>> \o Tail(digits))
            \o <<101, IF point - 1 < 0 THEN MINUS ELSE PLUS>>
            \o When(power < 10, <<48>>) \o DigitsOf(power)
       [] point \in -3 .. 0 -> <<48, POINT>> \o Zeros(-point) \o digits
       [] point \in 1 .. Len(digits) - 1 ->
            SubSeq(digits, 1, point) \o <<POINT>> \o From(digits, point + 1)
       [] OTHER -> digits \o Zeros(point - Len(digits))

PrintNumber(p, v) ==
  LET number == When(v.mant < 0, <<MINUS>>)
                \o IF IsWhole(v) THEN DigitsOf(Magnitude(v)) \o Zeros(v.exp) ELSE General(v)
  IN Put(p, Len(number) + 1, Append(number, NUL), Len(number))

(* print_string_ptr: what is written for a byte.                           *)
Letter == (8 :> 98) @@ (12 :> 102) @@ (10 :> 110) @@ (13 :> 114) @@ (9 :> 116)
          @@ (QUOTE :> QUOTE) @@ (BACKSLASH :> BACKSLASH)
HexLetter(n) == IF n < 10 THEN 48 + n ELSE 87 + n
Escape(byte) ==
  CASE byte \in DOMAIN Letter -> <<BACKSLASH, Letter[byte]>>
    [] byte \notin DOMAIN Letter /\ byte < 32 ->
         <<BACKSLASH, LETTERu, 48, 48, HexLetter(byte \div 16), HexLetter(byte % 16)>>
    [] OTHER -> <<byte>>
EscapeCharacters(byte) ==
  CASE byte \in DOMAIN Letter -> 1
    [] byte \notin DOMAIN Letter /\ byte < 32 -> 5
    [] OTHER -> 0

(* A fault: quotes are copied like letters.                                 *)
PrintStringBare(p, text) ==
  Put(p, Len(text) + 3, <<QUOTE>> \o text \o <<QUOTE, NUL>>, 0)

PrintString(p, text) ==
  LET needed == FoldLeft(LAMBDA n, byte : n + 1 + EscapeCharacters(byte), 3, text)
      escaped == FoldLeft(LAMBDA out, byte : out \o Escape(byte), <<>>, text)
  IN Put(p, needed, <<QUOTE>> \o escaped \o <<QUOTE, NUL>>, 0)

RECURSIVE PrintValue(_, _), PrintElements(_, _), PrintMembers(_, _)

PrintElements(p, kids) ==
  LET value == UpdateOffset(PrintValue(p, kids[1].value))
      between == When(p.format, <<SPACE>>)
  IN IF kids = <<>> THEN p
     ELSE IF Len(kids) = 1 THEN value
     ELSE PrintElements(
            Put(value, 2 + Len(between), <<COMMA>> \o between \o <<NUL>>, 1 + Len(between)),
            Tail(kids))

PrintArray(p, v) ==
  LET list == PrintElements(Nest(Put(p, 1, <<OPENARRAY>>, 1), 1), v.kids)
  IN Nest(Put(list, 2, <<CLOSEARRAY, NUL>>, 0), -1)

PrintMembers(p, kids) ==
  LET tabs == When(p.format, Tabs(p.depth))
      colon == <<COLON>> \o When(p.format, <<TAB>>)
      next == When(Len(kids) > 1, <<COMMA>>) \o When(p.format, <<NEWLINE>>)
      indented == IF p.format THEN Put(p, p.depth, tabs, p.depth) ELSE p
      name == UpdateOffset(PrintString(indented, kids[1].name))
      value == UpdateOffset(PrintValue(Put(name, Len(colon), colon, Len(colon)), kids[1].value))
  IN IF kids = <<>> THEN p
     ELSE PrintMembers(Put(value, Len(next) + 1, Append(next, NUL), Len(next)), Tail(kids))

PrintObject(p, v) ==
  LET open == <<OPENOBJECT>> \o When(p.format, <<NEWLINE>>)
      inside == PrintMembers(Nest(Put(p, Len(open) + 1, open, Len(open)), 1), v.kids)
      tabs == When(p.format, Tabs(inside.depth - 1))
  IN Nest(Put(inside, IF p.format THEN inside.depth + 1 ELSE 2,
              tabs \o <<CLOSEOBJECT, NUL>>, 0), -1)

PrintValue(p, v) ==
  CASE v.type = "null" -> Put(p, 5, Append(NullWord, NUL), 0)
    [] v.type = "false" -> Put(p, 6, Append(FalseWord, NUL), 0)
    [] v.type = "true" -> Put(p, 5, Append(TrueWord, NUL), 0)
    [] v.type = "number" -> PrintNumber(p, v)
    [] v.type = "string" -> PrintString(p, v.text)
    [] v.type = "array" -> PrintArray(p, v)
    [] v.type = "object" -> PrintObject(p, v)

(* cJSON_Print and cJSON_PrintUnformatted, as the text they return.        *)
Printed(v, format) ==
  LET p == UpdateOffset(PrintValue(PrintBuffer(DefaultBufferSize, FALSE, format), v))
  IN SubSeq(p.written, 1, p.offset)
PrintUnformatted(v) == Printed(v, FALSE)

(* What is left in the buffers of the two that do not copy the text out.   *)
PrintBuffered(v, prebuffer, format) == PrintValue(PrintBuffer(prebuffer, FALSE, format), v)
PrintPreallocated(v, length, format) == PrintValue(PrintBuffer(length, TRUE, format), v)

(* -------------------------------- Minify ------------------------------- *)
At(t, i) == IF i \in DOMAIN t THEN t[i] ELSE NUL

RECURSIVE MinifiedStringUnescaped(_, _, _)
(* A fault: an escaped quote ends the string.                              *)
MinifiedStringUnescaped(t, i, out) ==
  CASE At(t, i) = NUL -> [at |-> i, out |-> out]
    [] At(t, i) = QUOTE -> [at |-> i + 1, out |-> Append(out, QUOTE)]
    [] OTHER -> MinifiedStringUnescaped(t, i + 1, Append(out, t[i]))

RECURSIVE MinifiedString(_, _, _)
(* The rest of a string, behind its first quote.                           *)
MinifiedString(t, i, out) ==
  CASE At(t, i) = NUL -> [at |-> i, out |-> out]
    [] At(t, i) = QUOTE -> [at |-> i + 1, out |-> Append(out, QUOTE)]
    [] At(t, i) = BACKSLASH /\ At(t, i + 1) = QUOTE ->
         MinifiedString(t, i + 2, out \o <<BACKSLASH, QUOTE>>)
    [] OTHER -> MinifiedString(t, i + 1, Append(out, t[i]))

RECURSIVE BehindComment(_, _)
(* Behind the end of a comment of many lines, or at the end of the text.   *)
BehindComment(t, i) ==
  CASE At(t, i) = NUL -> i
    [] At(t, i) = STAR /\ At(t, i + 1) = SLASH -> i + 2
    [] OTHER -> BehindComment(t, i + 1)

BehindLine(t, i) ==
  LET end == i + RunOf(t, i, (1 .. 255) \ {NEWLINE})
  IN IF At(t, end) = NEWLINE THEN end + 1 ELSE end

RECURSIVE MinifiedFrom(_, _, _)
MinifiedFrom(t, i, out) ==
  LET string == MinifiedString(t, i + 1, Append(out, QUOTE))
  IN CASE At(t, i) = NUL -> out
       [] At(t, i) \in {SPACE, TAB, 13, NEWLINE} -> MinifiedFrom(t, i + 1, out)
       [] At(t, i) = SLASH ->
            MinifiedFrom(t, CASE At(t, i + 1) = SLASH -> BehindLine(t, i + 2)
                              [] At(t, i + 1) = STAR -> BehindComment(t, i + 2)
                              [] OTHER -> i + 1, out)
       [] At(t, i) = QUOTE -> MinifiedFrom(t, string.at, string.out)
       [] OTHER -> MinifiedFrom(t, i + 1, Append(out, t[i]))

Minify(text) == MinifiedFrom(text, 1, <<>>)
=============================================================================
