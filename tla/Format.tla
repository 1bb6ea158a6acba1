------------------------------- MODULE Format -------------------------------
(***************************************************************************)
(* The conversions of vsprintf and number of src/printk.c.  A field is     *)
(* described by its parts in their order; a run of equal characters is its *)
(* length.  Numbers have BITS bits (32); number gets an int and divides it *)
(* as an unsigned one.                                                     *)
(***************************************************************************)
EXTENDS Integers, Sequences, FiniteSets

CONSTANTS
  BITS,
  Widths, Precisions,    \* of the fields, as written in the format
  Texts                  \* lengths of strings

VARIABLES
  d,          \* the directive: conv, flags, width and prec (-1: not there)
  arg,        \* its argument: a word, or the length of a string
  field       \* what was written

vars == <<d, arg, field>>

Word    == 2 ^ BITS
AllFlags == {"ZEROPAD", "PLUS", "SPACE", "LEFT", "SPECIAL"}
Convs   == {"c", "s", "o", "p", "x", "d", "u", "b", "percent", "star"}
Base    == [o |-> 8, p |-> 16, x |-> 16, d |-> 10, u |-> 10, b |-> 2]

Nothing == [lead |-> 0, sign |-> "", special |-> 0, fill |-> 0, zeros |-> 0,
            text |-> <<>>, trail |-> 0]

\* x as an int
Signed(x) == IF x >= Word \div 2 THEN x - Word ELSE x

AtLeast0(n) == IF n > 0 THEN n ELSE 0

\* tmp[]: the digits that do_div yields, in the order they are written
Digits(base) ==
  LET digits[n \in 0 .. Word - 1] ==
        IF n < base THEN <<n>> ELSE Append(digits[n \div base], n % base)
  IN  digits


\* number
number(num, base, size0, prec0, type) ==
  LET neg   == "SIGN" \in type /\ Signed(num) < 0
      sign  == IF neg THEN "-" ELSE IF "PLUS" \in type THEN "+"
               ELSE IF "SPACE" \in type THEN " " ELSE ""
      special == IF "SPECIAL" \notin type THEN 0
                 ELSE IF base = 16 THEN 2 ELSE IF base = 8 THEN 1 ELSE 0
      tmp   == Digits(base)[IF neg THEN (Word - num) % Word ELSE num]
      prec  == IF Len(tmp) > prec0 THEN Len(tmp) ELSE prec0
      rest  == AtLeast0(size0 - (IF sign = "" THEN 0 ELSE 1) - special - prec)
      zero  == "ZEROPAD" \in type /\ "LEFT" \notin type
  IN [lead    |-> IF zero \/ "LEFT" \in type THEN 0 ELSE rest,
      sign    |-> sign,
      special |-> special,
      fill    |-> IF zero THEN rest ELSE 0,
      zeros   |-> prec - Len(tmp),
      text    |-> tmp,
      trail   |-> IF "LEFT" \in type THEN rest ELSE 0]

\* %s: the text is n characters of the argument
string(n, width, left) ==
  LET pad == AtLeast0(width - n)
  IN  [Nothing EXCEPT !.text = [k \in 1 .. n |-> k],
                      !.lead = IF left THEN 0 ELSE pad,
                      !.trail = IF left THEN pad ELSE 0]

\* vsprintf, one directive.  '*' fetches the width and is then itself taken for
\* the conversion, so that the directive comes out as it is, like any unknown one.
convert(dir, x) ==
  LET left == "LEFT" \in dir.flags
      prec == dir.prec
      pointer == dir.conv = "p" /\ dir.width = -1
      type == dir.flags \cup (IF dir.conv = "d" THEN {"SIGN"} ELSE {})
                        \cup (IF pointer THEN {"ZEROPAD"} ELSE {})
  IN CASE dir.conv = "c" -> string(1, dir.width, left)
       [] dir.conv = "s" ->
            string(IF prec >= 0 /\ x > prec THEN prec ELSE x, dir.width, left)
       [] dir.conv = "percent" -> [Nothing EXCEPT !.text = <<"%">>]
       [] dir.conv = "star" -> [Nothing EXCEPT !.text = <<"%", "*">>]
       [] OTHER -> number(x, Base[dir.conv], IF pointer THEN 8 ELSE dir.width,
                          prec, type)

Init ==
  /\ d \in [conv : Convs, flags : SUBSET AllFlags, width : Widths, prec : Precisions]
  /\ arg \in IF d.conv \in {"c", "s", "percent", "star"} THEN Texts ELSE 0 .. Word - 1
  /\ field = Nothing

vsprintf ==
  /\ field = Nothing
  /\ field' = convert(d, arg)
  /\ UNCHANGED <<d, arg>>

Next == vsprintf

Spec == Init /\ [][Next]_vars
-----------------------------------------------------------------------------
Value(base, digits) ==
  LET value[k \in 0 .. Len(digits)] ==
        IF k = 0 THEN 0 ELSE value[k - 1] * base + digits[k]
  IN  value[Len(digits)]

Length(f) ==
  f.lead + (IF f.sign = "" THEN 0 ELSE 1) + f.special + f.fill + f.zeros
    + Len(f.text) + f.trail

=============================================================================
