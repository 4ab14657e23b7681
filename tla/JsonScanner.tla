------------------------------ MODULE JsonScanner ------------------------------
(***************************************************************************)
(* The resumable JSON scanner of crates/ts-netmap/src/scanner.rs.  It is   *)
(* fed a byte at a time, so its whole memory between two chunks is the     *)
(* record below.  A byte is its ASCII code; numbers from 128 on stand for  *)
(* the text between two quotes that the properties do not look into, one   *)
(* number for each word.                                                   *)
(***************************************************************************)
EXTENDS Integers, Sequences, SequencesExt

CONSTANTS MAX_DEPTH,    \* containers that may be open at once
          MAX_STRING    \* bytes of one string, number or literal

Quote     == 34
Plus      == 43
Comma     == 44
Minus     == 45
Dot       == 46
Slash     == 47
Colon     == 58
LBracket  == 91
Backslash == 92
RBracket  == 93
LBrace    == 123
RBrace    == 125
IsSpace(byte)      == byte \in {9, 10, 12, 13, 32}
IsDigit(byte)      == byte \in 48..57
IsAlphabetic(byte) == byte \in 65..90 \cup 97..122
HexValue(byte) == CASE byte \in 48..57  -> byte - 48
                    [] byte \in 97..102 -> byte - 87
                    [] byte \in 65..70  -> byte - 55
                    [] OTHER            -> -1

TRUE_TEXT  == <<116, 114, 117, 101>>
FALSE_TEXT == <<102, 97, 108, 115, 101>>
NULL_TEXT  == <<110, 117, 108, 108>>

\* Container: an object is one of the first two, by its expecting_key.
ExpectingKey == "object, expecting a key"
KeySeen      == "object"
Array        == "array"
IsObject(container) == container \in {ExpectingKey, KeySeen}

NewScanner == [state |-> "Value", seen |-> 0, stack |-> <<>>, buffer |-> <<>>,
               code_point |-> 0, pending_surrogate |-> <<>>, done |-> FALSE]

Token(kind, value) == [kind |-> kind, value |-> value]
Top(s) == IF s.stack = <<>> THEN "none" ELSE Last(s.stack)

\* What one look at a byte comes to: the scanner, the tokens it completed,
\* whether the byte was consumed, and the error if there was one.
Consumed(s)        == [s |-> s, tokens |-> <<>>, advance |-> TRUE, error |-> "none"]
Emitted(s, token)  == [Consumed(s) EXCEPT !.tokens = <<token>>]
Ended(s, token)    == [Emitted(s, token) EXCEPT !.advance = FALSE]
Fails(s, error)    == [Consumed(s) EXCEPT !.error = error]

set_expecting_key(s, expecting) ==
  IF IsObject(Top(s))
  THEN [s EXCEPT !.stack[Len(s.stack)] = IF expecting THEN ExpectingKey ELSE KeySeen]
  ELSE s

push_byte(s, byte) ==
  IF Len(s.buffer) < MAX_STRING
  THEN Consumed([s EXCEPT !.buffer = Append(@, byte)])
  ELSE Fails(s, "Full")

open(s, container, token) ==
  IF Len(s.stack) < MAX_DEPTH
  THEN Emitted([s EXCEPT !.stack = Append(@, container), !.state = "Value"], token)
  ELSE Fails(s, "Full")

close(s, byte) ==
  LET popped == [s EXCEPT !.stack = Front(@), !.state = "AfterValue",
                          !.done = @ \/ Len(s.stack) = 1]
  IN  CASE byte = RBrace /\ IsObject(Top(s))   -> Emitted(popped, Token("EndObject", <<>>))
        [] byte = RBracket /\ Top(s) = Array   -> Emitted(popped, Token("EndArray", <<>>))
        [] OTHER                               -> Fails(s, "Json")

\* text.parse::<i64>().unwrap_or(0): a fraction or an exponent reads as 0.
ParsedInt(text) ==
  LET negative == text[1] = Minus
      digits   == IF text[1] \in {Minus, Plus} THEN Tail(text) ELSE text
      upto[i \in 0..Len(digits)] == IF i = 0 THEN 0 ELSE 10 * upto[i - 1] + digits[i] - 48
  IN  IF digits = <<>> \/ \E i \in DOMAIN digits : ~IsDigit(digits[i]) THEN 0
      ELSE IF negative THEN -upto[Len(digits)] ELSE upto[Len(digits)]

emit_number(s) == Ended([s EXCEPT !.state = "AfterValue"], Token("Int", ParsedInt(s.buffer)))

emit_literal(s) ==
  LET after == [s EXCEPT !.state = "AfterValue"]
  IN  CASE s.buffer = TRUE_TEXT  -> Ended(after, Token("Bool", TRUE))
        [] s.buffer = FALSE_TEXT -> Ended(after, Token("Bool", FALSE))
        [] s.buffer = NULL_TEXT  -> Ended(after, Token("Null", <<>>))
        [] OTHER                 -> Fails(s, "Json")

\* One symbol for each scalar above 127; the code pushes its UTF-8 bytes.
finish_escape(s) ==
  LET value == s.code_point
      high  == value \in 55296..56319
      low   == value \in 56320..57343
      paired == s.pending_surrogate # <<>>
      scalar == IF low THEN 65536 + (s.pending_surrogate[1] - 55296) * 1024 + value - 56320
                       ELSE value
      taken  == [s EXCEPT !.pending_surrogate = <<>>, !.state = "InString"]
  IN  IF high THEN Consumed([taken EXCEPT !.pending_surrogate = <<value>>])
      ELSE IF low # paired THEN Fails(s, "Json")
      ELSE push_byte(taken, scalar)

InValue(s, byte) ==
  LET begin(state) == push_byte([s EXCEPT !.buffer = <<>>, !.state = state], byte)
  IN  CASE IsSpace(byte)               -> Consumed(s)
        [] byte = LBrace               -> open(s, ExpectingKey, Token("StartObject", <<>>))
        [] byte = LBracket             -> open(s, Array, Token("StartArray", <<>>))
        [] byte \in {RBrace, RBracket} -> close(s, byte)
        [] byte = Quote                -> Consumed([s EXCEPT !.buffer = <<>>, !.state = "InString"])
        [] byte = Minus \/ IsDigit(byte) -> begin("InNumber")
        [] byte \in {102, 110, 116}    -> begin("InLiteral")
        [] OTHER                       -> Fails(s, "Json")

InString(s, byte) ==
  CASE byte = Quote ->
         IF s.pending_surrogate # <<>> THEN Fails(s, "Json")
         ELSE IF Top(s) = ExpectingKey
         THEN Emitted([set_expecting_key(s, FALSE) EXCEPT !.state = "ExpectColon"], Token("Key", s.buffer))
         ELSE Emitted([s EXCEPT !.state = "AfterValue"], Token("Str", s.buffer))
    [] byte = Backslash -> Consumed([s EXCEPT !.state = "Escape"])
    [] byte < 32        -> Fails(s, "Json")
    [] OTHER            -> push_byte(s, byte)

Escape(s, byte) ==
  LET literal == CASE byte \in {Quote, Backslash, Slash} -> byte
                   [] byte = 98  -> 8
                   [] byte = 102 -> 12
                   [] byte = 110 -> 10
                   [] byte = 114 -> 13
                   [] byte = 116 -> 9
                   [] OTHER      -> -1
  IN  CASE byte = 117   -> Consumed([s EXCEPT !.code_point = 0, !.seen = 0, !.state = "Unicode"])
        [] literal = -1 /\ byte # 117 -> Fails(s, "Json")
        [] OTHER        -> push_byte([s EXCEPT !.state = "InString"], literal)

Unicode(s, byte) ==
  LET shifted == [s EXCEPT !.code_point = @ * 16 + HexValue(byte)]
  IN  CASE HexValue(byte) = -1 -> Fails(s, "Json")
        [] HexValue(byte) # -1 /\ s.seen < 3 -> Consumed([shifted EXCEPT !.seen = @ + 1])
        [] OTHER -> finish_escape(shifted)

AfterValue(s, byte) ==
  CASE IsSpace(byte)               -> Consumed(s)
    [] byte = Comma                -> Consumed([set_expecting_key(s, TRUE) EXCEPT !.state = "Value"])
    [] byte \in {RBrace, RBracket} -> close(s, byte)
    [] OTHER                       -> Fails(s, "Json")

step(s, byte) ==
  CASE s.state = "Value"       -> InValue(s, byte)
    [] s.state = "InString"    -> InString(s, byte)
    [] s.state = "Escape"      -> Escape(s, byte)
    [] s.state = "Unicode"     -> Unicode(s, byte)
    [] s.state = "InNumber"    -> IF IsDigit(byte) \/ byte \in {Minus, Plus, Dot, 69, 101}
                                  THEN push_byte(s, byte) ELSE emit_number(s)
    [] s.state = "InLiteral"   -> IF IsAlphabetic(byte) THEN push_byte(s, byte) ELSE emit_literal(s)
    [] s.state = "AfterValue"  -> AfterValue(s, byte)
    [] s.state = "ExpectColon" -> CASE IsSpace(byte) -> Consumed(s)
                                    [] byte = Colon  -> Consumed([s EXCEPT !.state = "Value"])
                                    [] OTHER         -> Fails(s, "Json")

\* push looks at a byte that ended a number or a literal once more; the
\* second look, in AfterValue, always consumes it or fails.
Scan(s, byte) ==
  LET first  == step(s, byte)
      second == step(first.s, byte)
  IN  IF first.error # "none" \/ first.advance THEN first
      ELSE [second EXCEPT !.tokens = first.tokens \o @]

\* finish: the document must not have stopped inside a token or a container.
ScannerFinish(s) ==
  LET flushed == CASE s.state = "InNumber"  -> emit_number(s)
                   [] s.state = "InLiteral" -> emit_literal(s)
                   [] s.state \in {"Value", "AfterValue"} -> Consumed(s)
                   [] OTHER -> Fails(s, "Json")
  IN  IF flushed.error = "none" /\ s.stack # <<>> THEN [flushed EXCEPT !.error = "Json"] ELSE flushed
================================================================================
