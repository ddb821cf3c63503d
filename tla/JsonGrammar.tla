----------------------------- MODULE JsonGrammar ------------------------------
(***************************************************************************)
(* What a JSON text means, said without a parser: a text is cut in every   *)
(* way the grammar allows.  Meanings(t, d) is the set of values of t with  *)
(* at most d arrays and objects around each other; it is empty if t is no  *)
(* JSON.  It is the grammar of RFC 8259 with what cJSON lets pass besides: *)
(* every byte up to 32 is white space, strings may hold any byte, a number *)
(* is what strtod reads.                                                   *)
(***************************************************************************)
EXTENDS JsonText

Trim(t) ==
  LET inked == {i \in DOMAIN t : t[i] > SPACE}
      first == CHOOSE i \in inked : \A k \in inked : i <= k
      last == CHOOSE i \in inked : \A k \in inked : k <= i
  IN IF inked = {} THEN <<>> ELSE SubSeq(t, first, last)

Before(t, i) == SubSeq(t, 1, i - 1)
Behind(t, i) == From(t, i + 1)
Inner(t) == SubSeq(t, 2, Len(t) - 1)
Places(t, byte) == {i \in DOMAIN t : t[i] = byte}
Between(t, open, close) == Len(t) >= 2 /\ t[1] = open /\ t[Len(t)] = close
IsDigits(t) == \A i \in DOMAIN t : t[i] \in Digit

Unsigned(t) ==
  IF t # <<>> /\ IsDigits(t) THEN {Decimal(t, 0)}
  ELSE {Decimal(Before(t, p) \o Behind(t, p), p - Len(t)) :
          p \in {p \in Places(t, POINT) : IsDigits(Before(t, p) \o Behind(t, p)) /\ Len(t) > 1}}

Mantissas(t) ==
  CASE t # <<>> /\ t[1] = MINUS -> {Negative(v) : v \in Unsigned(Tail(t))}
    [] t # <<>> /\ t[1] \in Digit -> Unsigned(t)
    [] OTHER -> {}

Powers(t) ==
  LET digits == IF t # <<>> /\ t[1] \in {PLUS, MINUS} THEN Tail(t) ELSE t
  IN IF digits = <<>> \/ ~IsDigits(digits) THEN {}
     ELSE {IF t[1] = MINUS THEN -NumberOf(digits) ELSE NumberOf(digits)}

Numbers(t) ==
  Mantissas(t) \cup
  UNION {{IF m.mant = 0 THEN m ELSE [m EXCEPT !.exp = @ + power] :
            m \in Mantissas(Before(t, i)), power \in Powers(Behind(t, i))} :
         i \in Places(t, 69) \cup Places(t, 101)}

HexCode(t) == FoldLeft(LAMBDA h, d : 16 * h + HexValue(d), 0, t)
IsHex(t) == Len(t) = 4 /\ \A i \in DOMAIN t : t[i] \in HexDigit
High == 55296 .. 56319
Low == 56320 .. 57343

RECURSIVE Characters(_)
(* The strings that the inside of a string literal can be read as.         *)
Characters(t) ==
  LET part(i, j) == SubSeq(t, i, Smaller(j, Len(t)))
      four == part(3, 6)
      next == part(9, 12)
      then(bytes, n) == {bytes \o c : c \in Characters(From(t, n + 1))}
  IN CASE t = <<>> -> {<<>>}
       [] t # <<>> /\ t[1] \notin {QUOTE, BACKSLASH} -> then(<<t[1]>>, 1)
       [] Len(t) > 1 /\ t[1] = BACKSLASH /\ t[2] \in DOMAIN Escaped -> then(<<Escaped[t[2]]>>, 2)
       [] Len(t) > 1 /\ t[1] = BACKSLASH /\ t[2] = LETTERu /\ IsHex(four) ->
            IF HexCode(four) \notin High \cup Low THEN then(Utf8(HexCode(four)), 6)
            ELSE IF HexCode(four) \in High /\ part(7, 8) = <<BACKSLASH, LETTERu>>
                    /\ IsHex(next) /\ HexCode(next) \in Low
            THEN then(Utf8(65536 + 1024 * (HexCode(four) - 55296) + HexCode(next) - 56320), 12)
            ELSE {}
       [] OTHER -> {}

Strings(t) ==
  IF Between(t, QUOTE, QUOTE) THEN {CString(c) : c \in Characters(Inner(t))} ELSE {}

RECURSIVE Meanings(_, _), Elements(_, _), Members(_, _)

Elements(t, d) ==
  {<<Kid(<<>>, v)>> : v \in Meanings(Trim(t), d)} \cup
  UNION {{<<Kid(<<>>, v)>> \o rest :
            v \in Meanings(Trim(Before(t, i)), d), rest \in Elements(Behind(t, i), d)} :
         i \in Places(t, COMMA)}

Member(t, d) ==
  UNION {{Kid(name, v) : name \in Strings(Trim(Before(t, i))),
                         v \in Meanings(Trim(Behind(t, i)), d)} : i \in Places(t, COLON)}

Members(t, d) ==
  {<<m>> : m \in Member(t, d)} \cup
  UNION {{<<m>> \o rest : m \in Member(Before(t, i), d), rest \in Members(Behind(t, i), d)} :
         i \in Places(t, COMMA)}

Empty(t) == IF Trim(t) = <<>> THEN {<<>>} ELSE {}

Word(type) ==
  CASE type = "null" -> NullWord [] type = "false" -> FalseWord [] type = "true" -> TrueWord

Meanings(t, d) ==
  {v \in {Literal("null"), Literal("false"), Literal("true")} : t = Word(v.type)}
  \cup Numbers(t)
  \cup {String(s) : s \in Strings(t)}
  \cup (IF d > 0 /\ Between(t, OPENARRAY, CLOSEARRAY)
        THEN {Array(kids) : kids \in Empty(Inner(t)) \cup Elements(Inner(t), d - 1)} ELSE {})
  \cup (IF d > 0 /\ Between(t, OPENOBJECT, CLOSEOBJECT)
        THEN {Object(kids) : kids \in Empty(Inner(t)) \cup Members(Inner(t), d - 1)} ELSE {})
=============================================================================
