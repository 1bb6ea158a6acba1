-------------------------------- MODULE C80 --------------------------------
(***************************************************************************)
(* The text console of src/C80.c: where characters go.  cursor_x and       *)
(* cursor_y are shared by all processors, and by an interrupt handler and  *)
(* what it interrupts, without a lock.  A step here is one access to one   *)
(* of them; cursor_x++ is a load and a store.  What is on the screen is    *)
(* left out, and so is the VGA's cursor register, which nobody reads.      *)
(***************************************************************************)
EXTENDS Integers

CONSTANTS
  Writers,      \* processors, and handlers on them
  COLS, ROWS,   \* 80 and 25
  TAB,          \* 8
  BYTE          \* 256, the range of cursor_x and cursor_y

ASSUME ScreenAssumption ==
  /\ COLS \in Nat \ {0} /\ ROWS \in Nat \ {0} /\ TAB \in Nat \ {0}
  /\ BYTE \in Nat /\ COLS + TAB < BYTE /\ ROWS < BYTE

VARIABLES
  cursor_x, cursor_y,
  pc,           \* where every writer is in c80_put (c80_putc_color is the same)
  chr,          \* its character, the parameter c
  tmp           \* the value it has loaded

cvars == <<cursor_x, cursor_y, pc, chr, tmp>>

Chars == {"backspace", "tab", "return", "newline", "printable", "other"}

C80Init ==
  /\ cursor_x = 0 /\ cursor_y = 0              \* c80_clear
  /\ pc = [w \in Writers |-> "out"]
  /\ chr = [w \in Writers |-> "other"]
  /\ tmp = [w \in Writers |-> 0]

Go(w, from, to) == pc[w] = from /\ pc' = [pc EXCEPT ![w] = to]

\* c80_put: a character that moves the cursor, or one that does not.
put(w, ch) ==
  /\ pc[w] = "out"
  /\ chr' = [chr EXCEPT ![w] = ch]
  /\ LET back == ch = "backspace" /\ cursor_x # 0 IN
     pc' = [pc EXCEPT ![w] =
       CASE ch \in {"tab", "printable"} \/ back -> "load_x"
         [] ch \in {"return", "newline"}        -> "zero_x"
         [] OTHER                               -> "wrap"]
  /\ UNCHANGED <<cursor_x, cursor_y, tmp>>

\* cursor_x++, cursor_x-- and the tab.  A printable character is stored at the
\* place the cursor has when it is loaded.
Advanced(ch, x) ==
  CASE ch = "backspace" -> (x + BYTE - 1) % BYTE
    [] ch = "tab"       -> (((x + TAB) \div TAB) * TAB) % BYTE
    [] OTHER            -> (x + 1) % BYTE

load_x(w) ==
  /\ Go(w, "load_x", "store_x")
  /\ tmp' = [tmp EXCEPT ![w] = Advanced(chr[w], cursor_x)]
  /\ UNCHANGED <<cursor_x, cursor_y, chr>>

store_x(w) ==
  /\ Go(w, "store_x", "wrap")
  /\ cursor_x' = tmp[w]
  /\ tmp' = [tmp EXCEPT ![w] = 0]
  /\ UNCHANGED <<cursor_y, chr>>

\* '\r' and '\n'
zero_x(w) ==
  /\ Go(w, "zero_x", IF chr[w] = "newline" THEN "newline_load" ELSE "wrap")
  /\ cursor_x' = 0
  /\ UNCHANGED <<cursor_y, chr, tmp>>

\* cursor_y++, after '\n' and after the end of a row
load_y(w) ==
  /\ \/ Go(w, "newline_load", "newline_store")
     \/ Go(w, "wrap_load", "wrap_store")
  /\ tmp' = [tmp EXCEPT ![w] = (cursor_y + 1) % BYTE]
  /\ UNCHANGED <<cursor_x, cursor_y, chr>>

store_y(w) ==
  /\ \/ Go(w, "newline_store", "wrap")
     \/ Go(w, "wrap_store", "scroll")
  /\ cursor_y' = tmp[w]
  /\ tmp' = [tmp EXCEPT ![w] = 0]
  /\ UNCHANGED <<cursor_x, chr>>

\* the check for the end of a row
wrap(w) ==
  /\ Go(w, "wrap", IF cursor_x >= COLS THEN "wrap_x" ELSE "scroll")
  /\ UNCHANGED <<cursor_x, cursor_y, chr, tmp>>

wrap_x(w) ==
  /\ Go(w, "wrap_x", "wrap_load")
  /\ cursor_x' = 0
  /\ UNCHANGED <<cursor_y, chr, tmp>>

\* Mutant: the check forgets the first row below the screen.
scroll_late(w) ==
  /\ Go(w, "scroll", IF cursor_y > ROWS THEN "scroll_y" ELSE "out")
  /\ UNCHANGED <<cursor_x, cursor_y, chr, tmp>>

\* scroll; move_cursor
scroll(w) ==
  /\ Go(w, "scroll", IF cursor_y >= ROWS THEN "scroll_y" ELSE "out")
  /\ UNCHANGED <<cursor_x, cursor_y, chr, tmp>>

scroll_y(w) ==
  /\ Go(w, "scroll_y", "out")
  /\ cursor_y' = ROWS - 1
  /\ UNCHANGED <<cursor_x, chr, tmp>>

C80Next ==
  \E w \in Writers :
    \/ \E ch \in Chars : put(w, ch)
    \/ load_x(w) \/ store_x(w) \/ zero_x(w) \/ load_y(w) \/ store_y(w)
    \/ wrap(w) \/ wrap_x(w) \/ scroll(w) \/ scroll_y(w)

C80Spec == C80Init /\ [][C80Next]_cvars
-----------------------------------------------------------------------------
\* Whatever the writers do to each other's updates (a lost ++, a backspace from 0
\* to 255), the cursor is on the screen again when nobody is writing: every store
\* that leaves the screen is followed by a check of the same writer.
CursorOnScreen ==
  (\A w \in Writers : pc[w] = "out") => cursor_x < COLS /\ cursor_y < ROWS
=============================================================================
