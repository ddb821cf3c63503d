------------------------------- MODULE JsonText -------------------------------
(***************************************************************************)
(* The texts of tool/cjson.cpp: the parser, the two printers and Minify.   *)
(* A text is a sequence of bytes.  A value is what the tree of items says: *)
(* its type, the text of a string, the number, and the children with their *)
(* names.  The trees themselves, allocation and its failures are JsonHeap. *)
(* A double is a decimal, mant * 10^exp: exact as long as a number has at  *)
(* most nine digits, which is the bound on the texts this module is given. *)
(***************************************************************************)
EXTENDS Integers, SequencesExt

CONSTANTS
  NestingLimit,       (* CJSON_NESTING_LIMIT                               *)
  DefaultBufferSize   (* default_buffer_size of print                      *)

ASSUME TextAssumption ==
  NestingLimit \in Nat /\ DefaultBufferSize \in Nat \ {0}

NUL == 0        QUOTE == 34     BACKSLASH == 92  SLASH == 47   STAR == 42
COMMA == 44     COLON == 58     SPACE == 32      TAB == 9      NEWLINE == 10
OPENARRAY == 91 CLOSEARRAY == 93 OPENOBJECT == 123 CLOSEOBJECT == 125
MINUS == 45     PLUS == 43      POINT == 46      LETTERu == 117

NullWord == <<110, 117, 108, 108>>
TrueWord == <<116, 114, 117, 101>>
FalseWord == <<102, 97, 108, 115, 101>>
ByteOrderMark == <<239, 187, 191>>

Digit == 48 .. 57
Exponent == {69, 101}

(* What the letter behind a backslash stands for, \u excepted.             *)
Escaped == (98 :> 8) @@ (102 :> 12) @@ (110 :> 10) @@ (114 :> 13) @@ (116 :> 9)
           @@ (QUOTE :> QUOTE) @@ (BACKSLASH :> BACKSLASH) @@ (SLASH :> SLASH)

Smaller(a, b) == IF a < b THEN a ELSE b
Zeros(n) == [i \in 1 .. n |-> 48]
From(t, i) == SubSeq(t, i, Len(t))

RECURSIVE RunOf(_, _, _)
(* How many bytes of t from the i-th on are in a set.                      *)
RunOf(t, i, bytes) ==
  IF i \in DOMAIN t /\ t[i] \in bytes THEN 1 + RunOf(t, i + 1, bytes) ELSE 0

(* What a C string holds: the bytes before the first zero.                 *)
CString(t) == SubSeq(t, 1, RunOf(t, 1, 1 .. 255))

(* ------------------------------- values -------------------------------- *)
Nothing == [type |-> "null", text |-> <<>>, mant |-> 0, exp |-> 0, kids |-> <<>>]
Literal(type) == [Nothing EXCEPT !.type = type]
String(text) == [Nothing EXCEPT !.type = "string", !.text = text]
Array(kids) == [Nothing EXCEPT !.type = "array", !.kids = kids]
Object(kids) == [Nothing EXCEPT !.type = "object", !.kids = kids]
Kid(name, value) == [name |-> name, value |-> value]

RECURSIVE DigitsOf(_)
DigitsOf(n) == IF n < 10 THEN <<48 + n>> ELSE Append(DigitsOf(n \div 10), 48 + (n % 10))

NumberOf(digits) == FoldLeft(LAMBDA n, d : 10 * n + d - 48, 0, digits)

(* The decimal with these digits, times 10^exp; no zero ends its mantissa. *)
Decimal(digits, exp) ==
  LET most == Max({0} \cup {i \in DOMAIN digits : digits[i] # 48})
  IN IF most = 0 THEN [Nothing EXCEPT !.type = "number"]
     ELSE [Nothing EXCEPT !.type = "number", !.mant = NumberOf(SubSeq(digits, 1, most)),
                          !.exp = exp + Len(digits) - most]
Negative(v) == [v EXCEPT !.mant = -@]

Magnitude(v) == IF v.mant < 0 THEN -v.mant ELSE v.mant
Width(v) == Len(DigitsOf(Magnitude(v))) + v.exp

INT_MAX == 2147483647

(* (int) of a double, with saturation; and whether that lost nothing.      *)
Saturates(v) ==
  \/ v.exp >= 0 /\ Width(v) > 10
  \/ v.exp > 0 /\ Width(v) = 10 /\ Magnitude(v) * 10 ^ (v.exp - 1) > INT_MAX \div 10
ValueInt(v) ==
  LET whole == IF Saturates(v) THEN INT_MAX
               ELSE IF v.exp >= 0 THEN Magnitude(v) * 10 ^ v.exp
               ELSE IF Width(v) <= 0 THEN 0 ELSE Magnitude(v) \div 10 ^ (-v.exp)
  IN CASE v.type = "true" -> 1
       [] v.type # "number" -> 0
       [] Saturates(v) /\ v.mant < 0 -> -INT_MAX - 1
       [] OTHER -> IF v.mant < 0 THEN -whole ELSE whole
IsWhole(v) == v.exp >= 0 /\ ~Saturates(v)

(* ------------------------------- parsing ------------------------------- *)
(* A parse_buffer: content may go on behind length, what is there is not   *)
(* the parser's to read.                                                   *)
Buffer(content, length) == [content |-> content, length |-> length, offset |-> 0, depth |-> 0]

CanRead(b, size) == b.offset + size <= b.length
CanAccess(b, i) == b.offset + i < b.length
ByteAt(b, i) == b.content[b.offset + i + 1]
Looking(b, byte) == CanAccess(b, 0) /\ ByteAt(b, 0) = byte
Skip(b, n) == [b EXCEPT !.offset = @ + n]
Begins(b, word) == CanRead(b, Len(word)) /\ \A i \in DOMAIN word : ByteAt(b, i - 1) = word[i]

Fail(b) == [ok |-> FALSE, b |-> b, item |-> Nothing]
Done(b, item) == [ok |-> TRUE, b |-> b, item |-> item]

(* A fault: at the end of the buffer the offset is left behind it.         *)
SkipWhitespaceBehind(b) ==
  IF ~CanAccess(b, 0) THEN b
  ELSE Skip(b, Smaller(RunOf(b.content, b.offset + 1, 0 .. SPACE), b.length - b.offset))

(* Every byte up to the space is white, the terminating zero too; the end  *)
(* of the buffer is never stepped over.                                    *)
SkipWhitespace(b) ==
  IF ~CanAccess(b, 0) THEN b
  ELSE LET white == RunOf(b.content, b.offset + 1, 0 .. SPACE)
           most == b.length - b.offset
       IN Skip(b, IF white >= most THEN most - 1 ELSE white)

SkipBom(b) ==
  IF CanAccess(b, 4) /\ Begins(b, ByteOrderMark) THEN Skip(b, 3) ELSE b

(* The number whose mantissa v ends in front of mark, and its exponent if  *)
(* there is one with digits.                                               *)
Scaled(t, mark, v) ==
  LET scale == IF mark \notin DOMAIN t \/ t[mark] \notin Exponent THEN 0
               ELSE IF mark + 1 \in DOMAIN t /\ t[mark + 1] \in {MINUS, PLUS} THEN 2 ELSE 1
      by(e) == IF v.mant = 0 THEN v
               ELSE [v EXCEPT !.exp = IF t[mark + 1] = MINUS THEN @ - e ELSE @ + e]
      ends(first, power) ==
        IF power = 0 THEN [length |-> mark - 1, value |-> v]
        ELSE [length |-> first + power - 1,
              value |-> by(NumberOf(SubSeq(t, first, first + power - 1)))]
  IN ends(mark + scale, IF scale = 0 THEN 0 ELSE RunOf(t, mark + scale, Digit))

(* strtod: the longest beginning of t that is a number.                    *)
Strtod(t) ==
  LET sign == IF t # <<>> /\ t[1] \in {MINUS, PLUS} THEN 1 ELSE 0
      whole == RunOf(t, sign + 1, Digit)
      point == sign + whole + 1
      signed(v) == IF sign = 1 /\ t[1] = MINUS THEN Negative(v) ELSE v
      digits(part) == SubSeq(t, sign + 1, point - 1) \o SubSeq(t, point + 1, point + part)
      ends(mark, part) ==
        IF whole + part = 0 THEN [length |-> 0, value |-> Nothing]
        ELSE Scaled(t, mark, signed(Decimal(digits(part), -part)))
      fraction(part) == ends(point + 1 + part, part)
  IN IF point \in DOMAIN t /\ t[point] = POINT THEN fraction(RunOf(t, point + 1, Digit))
     ELSE ends(point, 0)

(* parse_number copies at most 63 bytes that occur in numbers.             *)
ParseNumber(b) ==
  LET there == SubSeq(b.content, b.offset + 1, Smaller(b.offset + 63, b.length))
      number == SubSeq(there, 1, RunOf(there, 1, Digit \cup Exponent \cup {MINUS, PLUS, POINT}))
      takes(read) ==
        IF read.length = 0 THEN Fail(b) ELSE Done(Skip(b, read.length), read.value)
  IN takes(Strtod(number))

HexDigit == Digit \cup (65 .. 70) \cup (97 .. 102)
HexValue(byte) ==
  IF byte \in Digit THEN byte - 48 ELSE IF byte <= 70 THEN byte - 55 ELSE byte - 87

(* parse_hex4: 0 when one of the four is not a hexadecimal digit.          *)
ParseHex4(four) ==
  IF \E i \in 1 .. 4 : four[i] \notin HexDigit THEN 0
  ELSE FoldLeft(LAMBDA h, d : 16 * h + HexValue(d), 0, four)

Utf8(code) ==
  LET low(shift) == 128 + ((code \div shift) % 64)
  IN CASE code < 128 -> <<code>>
       [] code >= 128 /\ code < 2048 -> <<192 + code \div 64, low(1)>>
       [] code >= 2048 /\ code < 65536 -> <<224 + code \div 4096, low(64), low(1)>>
       [] OTHER -> <<240 + code \div 262144, low(4096), low(64), low(1)>>

(* utf16_literal_to_utf8 of the literal t starts with, where t ends with   *)
(* the string: one or two \uXXXX, 0 bytes long if they are no character.   *)
Utf16ToUtf8(t) ==
  LET Bad == [length |-> 0, bytes |-> <<>>]
      first == ParseHex4(SubSeq(t, 3, 6))
      second == ParseHex4(SubSeq(t, 9, 12))
  IN CASE Len(t) < 6 -> Bad
       [] Len(t) >= 6 /\ first \in 56320 .. 57343 -> Bad
       [] Len(t) >= 6 /\ first \in 55296 .. 56319 ->
            IF Len(t) < 12 \/ SubSeq(t, 7, 8) # <<BACKSLASH, LETTERu>> THEN Bad
            ELSE IF second \notin 56320 .. 57343 THEN Bad
            ELSE [length |-> 12,
                  bytes |-> Utf8(65536 + 1024 * (first % 1024) + (second % 1024))]
       [] OTHER -> [length |-> 6, bytes |-> Utf8(first)]

RECURSIVE EndOfStringAnywhere(_, _, _)
(* A fault: the quote is looked for without regard to the length.          *)
EndOfStringAnywhere(b, at, skipped) ==
  CASE at >= Len(b.content) -> [at |-> -1, skipped |-> skipped]
    [] at < Len(b.content) /\ b.content[at + 1] = QUOTE -> [at |-> at, skipped |-> skipped]
    [] at < Len(b.content) /\ b.content[at + 1] = BACKSLASH ->
         EndOfStringAnywhere(b, at + 2, skipped + 1)
    [] OTHER -> EndOfStringAnywhere(b, at + 1, skipped)

RECURSIVE EndOfString(_, _, _)
(* The first pass of parse_string: where the closing quote is, counted     *)
(* from 0, and how many backslashes come before it; -1 if there is none.   *)
EndOfString(b, at, skipped) ==
  LET none == [at |-> -1, skipped |-> skipped]
  IN CASE at >= b.length -> none
       [] at < b.length /\ b.content[at + 1] = QUOTE -> [at |-> at, skipped |-> skipped]
       [] at < b.length /\ b.content[at + 1] = BACKSLASH ->
            IF at + 1 >= b.length THEN none ELSE EndOfString(b, at + 2, skipped + 1)
       [] OTHER -> EndOfString(b, at + 1, skipped)

RECURSIVE Decode(_, _, _, _)
(* The second pass: the bytes from at up to end; at may step over end, when*)
(* a literal that is no hexadecimal number swallowed half of an escape.    *)
Decode(content, at, end, out) ==
  LET wrong == [ok |-> FALSE, at |-> at, out |-> out]
      letter == content[at + 2]
      utf == Utf16ToUtf8(SubSeq(content, at + 1, end))
  IN CASE at >= end -> [ok |-> TRUE, at |-> at, out |-> out]
       [] at < end /\ content[at + 1] # BACKSLASH ->
            Decode(content, at + 1, end, Append(out, content[at + 1]))
       [] OTHER ->
            IF letter = LETTERu
            THEN IF utf.length = 0 THEN wrong
                 ELSE Decode(content, at + utf.length, end, out \o utf.bytes)
            ELSE IF letter \notin DOMAIN Escaped THEN wrong
            ELSE Decode(content, at + 2, end, Append(out, Escaped[letter]))

(* What parse_string allocates for the string that ends there.             *)
Allocated(b, end) == end.at - b.offset - end.skipped + 1

ParseString(b) ==
  LET end == EndOfString(b, b.offset + 1, 0)
      read == Decode(b.content, b.offset + 1, end.at, <<>>)
  IN CASE ByteAt(b, 0) # QUOTE -> Fail(Skip(b, 1))
       [] ByteAt(b, 0) = QUOTE /\ end.at = -1 -> Fail(Skip(b, 1))
       [] OTHER -> IF read.ok
                   THEN Done([b EXCEPT !.offset = end.at + 1], String(CString(read.out)))
                   ELSE Fail([b EXCEPT !.offset = read.at])

Deeper(b) == [b EXCEPT !.depth = @ + 1]
Leave(b) == [b EXCEPT !.depth = @ - 1, !.offset = @ + 1]

RECURSIVE ParseValue(_), ParseElements(_, _), ParseMembers(_, _)

(* The loops of parse_array and parse_object; b is in front of the next.   *)
ParseElements(b, kids) ==
  LET ends(after, all) ==
        CASE Looking(after, COMMA) -> ParseElements(after, all)
          [] Looking(after, CLOSEARRAY) -> Done(Leave(after), Array(all))
          [] OTHER -> Fail(after)
      takes(value) ==
        IF ~value.ok THEN Fail(value.b)
        ELSE ends(SkipWhitespace(value.b), Append(kids, Kid(<<>>, value.item)))
  IN takes(ParseValue(SkipWhitespace(Skip(b, 1))))

ParseMembers(b, kids) ==
  LET ends(after, all) ==
        CASE Looking(after, COMMA) -> ParseMembers(after, all)
          [] Looking(after, CLOSEOBJECT) -> Done(Leave(after), Object(all))
          [] OTHER -> Fail(after)
      takes(value, name) ==
        IF ~value.ok THEN Fail(value.b)
        ELSE ends(SkipWhitespace(value.b), Append(kids, Kid(name, value.item)))
      separates(colon, name) ==
        IF ~Looking(colon, COLON) THEN Fail(colon)
        ELSE takes(ParseValue(SkipWhitespace(Skip(colon, 1))), name)
      named(name) ==
        IF ~name.ok THEN Fail(name.b)
        ELSE separates(SkipWhitespace(name.b), name.item.text)
  IN IF ~CanAccess(b, 1) THEN Fail(b) ELSE named(ParseString(SkipWhitespace(Skip(b, 1))))

ParseArray(b) ==
  LET inside == SkipWhitespace(Skip(Deeper(b), 1))
  IN IF b.depth >= NestingLimit THEN Fail(b)
     ELSE IF Looking(inside, CLOSEARRAY) THEN Done(Leave(inside), Array(<<>>))
     ELSE IF ~CanAccess(inside, 0) THEN Fail(Skip(inside, -1))
     ELSE ParseElements(Skip(inside, -1), <<>>)

ParseObject(b) ==
  LET inside == SkipWhitespace(Skip(Deeper(b), 1))
  IN IF b.depth >= NestingLimit THEN Fail(b)
     ELSE IF Looking(inside, CLOSEOBJECT) THEN Done(Leave(inside), Object(<<>>))
     ELSE IF ~CanAccess(inside, 0) THEN Fail(Skip(inside, -1))
     ELSE ParseMembers(Skip(inside, -1), <<>>)

ParseValue(b) ==
  CASE Begins(b, NullWord) -> Done(Skip(b, 4), Literal("null"))
    [] Begins(b, FalseWord) -> Done(Skip(b, 5), Literal("false"))
    [] Begins(b, TrueWord) -> Done(Skip(b, 4), Literal("true"))
    [] Looking(b, QUOTE) -> ParseString(b)
    [] CanAccess(b, 0) /\ ByteAt(b, 0) \in Digit \cup {MINUS} -> ParseNumber(b)
    [] Looking(b, OPENARRAY) -> ParseArray(b)
    [] Looking(b, OPENOBJECT) -> ParseObject(b)
    [] OTHER -> Fail(b)

(* cJSON_ParseWithLengthOpts: the value or not, and the place that         *)
(* return_parse_end and cJSON_GetErrorPtr report.                          *)
ParseWithLengthOpts(content, length, require_null_terminated) ==
  LET failed(at) ==
        [ok |-> FALSE, item |-> Nothing,
         end |-> IF length = 0 THEN 0 ELSE Smaller(at, length - 1)]
      ends(item, last) ==
        IF require_null_terminated /\ ~Looking(last, NUL) THEN failed(last.offset)
        ELSE [ok |-> TRUE, item |-> item, end |-> last.offset]
      takes(value) ==
        IF length = 0 \/ ~value.ok THEN failed(value.b.offset)
        ELSE ends(value.item,
                  IF require_null_terminated THEN SkipWhitespace(value.b) ELSE value.b)
  IN takes(ParseValue(SkipWhitespace(SkipBom(Buffer(content, length)))))

(* cJSON_ParseWithOpts counts the terminating zero in.                     *)
ParseWithOpts(text, require_null_terminated) ==
  ParseWithLengthOpts(Append(text, NUL), Len(text) + 1, require_null_terminated)
Parse(text) == ParseWithOpts(text, FALSE)
=============================================================================
