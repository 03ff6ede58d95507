--------------------------- MODULE ConsoleProofs ---------------------------
(***************************************************************************)
(* What vga.c keeps true on a screen of any size, for any number of calls  *)
(* and of handlers that print in the middle of them: no store leaves the   *)
(* video memory, the cursor comes back to the screen, and calls that       *)
(* nothing interrupts do what Terminal says, after any mixed output.       *)
(***************************************************************************)
EXTENDS Console, SequenceTheorems, TLAPS

----------------------------------------------------------------------------
(* Types *)

Erasing == {"backspace", "back", "back_col", "erase", "erase_at", "erase_cell"}
Fresh   ==
    {"newline", "newline_row", "return", "tab", "tab_col", "letter", "letter_at",
     "letter_cell", "advance", "advance_col", "wrap", "wrap_col", "wrap_row", "wrap_set",
     "check"} \cup Erasing
Syncing == {"sync", "sync_at", "select_high", "high", "select_low", "low", "done"}
Places  ==
    {"idle", "scroll", "scrolled", "clear", "clear_row", "clear_col", "move_row", "move_col"}
        \cup Fresh \cup Syncing
Within  == Places \ {"idle"}

Paint   == [color : Colors, ch : Nat]
Screens == [Cells -> Paint]
Terminals ==
    [screen : Screens, row : 0..(Height - 1), col : 0..(Width - 1), color : Colors]
Screen  == [k \in Cells |-> buf[k]]

Typed ==
    /\ buf \in [Memory -> Paint] /\ current_color \in Colors
    /\ cursor_row \in Nat /\ cursor_col \in Nat
    /\ crtc_index \in {"HI", "LO"} /\ crtc \in [{"HI", "LO"} -> Nat]
    /\ enabled \in BOOLEAN /\ mixed \in BOOLEAN /\ running \in Contexts
    /\ text \in Seq(Nat) /\ \A k \in 1..Len(text) : text[k] \in Printable \cup Controls
    /\ pc \in [Contexts -> Places] /\ c \in [Contexts -> Nat]
    /\ reg \in [Contexts -> Nat] /\ i \in [Contexts -> Nat]
    /\ before \in Terminals

(* A handler runs only where main has interrupts on, and main prints no    *)
(* backspace there.  Calls mix while main is in one that was interrupted.  *)
Nested ==
    /\ running = 0 => pc[1] = "idle"
    /\ running = 1 => enabled /\ (mixed <=> pc[0] # "idle")
    /\ mixed => enabled /\ pc[0] # "idle"
    /\ pc[0] \in Erasing => ~enabled

----------------------------------------------------------------------------
(* Where the cursor is, whoever moved it last *)

(* What a context at place p keeps in its register g and its index n *)
Keeps(p, g, n) ==
    /\ p \in {"newline_row", "wrap_set", "letter_at", "erase_at"} => g < Height
    /\ p \in {"tab_col", "advance_col"} => g < Width
    /\ p = "back_col" => g \in 1..(Width - 1)
    /\ p \in {"letter_cell", "erase_cell"} => g \in Memory
    /\ p \in Fresh => n = 0
    /\ p \in {"scroll", "clear"} => n \in Cells
    /\ p = "move_row" => n < Height /\ g < Width
    /\ p = "move_col" => g < Width

(* While main goes on: the row leaves the screen by one line until it is   *)
(* scrolled, the column by one until it is wrapped.                        *)
Near(p, r, k) ==
    /\ r < Height \/ (r = Height /\ p \in {"return", "check", "scroll", "scrolled"})
    /\ k < Width \/ (k = Width /\ p \in {"wrap", "wrap_col"})
    /\ p = "back" => k > 0

(* While a handler goes on: it may have begun with such a cursor. *)
Beside(r, k) == (r < Height /\ k <= Width) \/ (r = Height /\ k < Width)
Far(p, r, k, g, n) ==
    /\ p \in {"letter", "backspace", "back", "back_col"} => Beside(r, k)
    /\ p = "back" => k > 0
    /\ p = "back_col" => g \in 1..Width
    /\ p = "letter_at" => Beside(g, k)
    /\ p = "erase" => r <= Height
    /\ p = "erase_at" => g <= Height
    /\ p \in {"letter_cell", "erase_cell"} => g \in Memory
    /\ p \in {"erase", "erase_at", "erase_cell", "wrap_row", "wrap_set", "check", "scroll",
              "scrolled"} \cup Syncing => k < Width
    /\ p \in Fresh => n = 0
    /\ p = "scroll" => n \in Cells
    /\ p \in Syncing => r < Height
    /\ p \notin {"clear", "clear_row", "clear_col", "move_row", "move_col"}

(* The context that runs, x *)
Fits(x, p, r, k, g, n) ==
    IF x = 0 THEN Keeps(p, g, n) /\ Near(p, r, k) ELSE Far(p, r, k, g, n)

CursorFits ==
    /\ Keeps(pc[0], reg[0], i[0])
    /\ pc[1] = "idle" => Near(pc[0], cursor_row, cursor_col)
    /\ pc[1] # "idle" => Far(pc[1], cursor_row, cursor_col, reg[1], i[1])

----------------------------------------------------------------------------
(* How far a call has come that nothing interrupted *)

Ask(s, r, k) == [screen |-> s, row |-> r, col |-> k]
Mark(b, ch) == [color |-> b.color, ch |-> ch]
Empty(b)   == Mark(b, Blank)
Here(b)    == b.row * Width + b.col
AllEmpty(b)   == [q \in Cells |-> Empty(b)]
Typing(b, ch) == [b.screen EXCEPT ![Here(b)] = Mark(b, ch)]
Erasure(b)    == [b.screen EXCEPT ![Here(b) - 1] = Empty(b)]
Moved(b, s)   ==
    [q \in Cells |-> IF q + Width \in Cells THEN s[q + Width] ELSE Empty(b)]
(* The first n cells have been moved up. *)
Scrolled(b, s, old, n) ==
    \A q \in Cells : s[q] = IF q < n THEN Moved(b, old)[q] ELSE old[q]

(* What a terminal b can be asked to show next *)
Asked(b) ==
    {Ask(b.screen, b.row + 1, 0), Ask(b.screen, b.row, 0),
     Ask(b.screen, b.row, (b.col \div Tab + 1) * Tab), Ask(AllEmpty(b), 0, 0)}
    \cup {Ask(Erasure(b), b.row, b.col - 1) : k \in {n \in {1} : b.col > 0}}
    \cup {Ask(Typing(b, ch), b.row, b.col + 1) : ch \in Printable}
    \cup {Ask(b.screen, r, k) : r \in 0..(Height - 1), k \in 0..(Width - 1)}

RowOf(o)    == o.col \div Width + o.row
ColOf(o)   == o.col % Width
Shown(b, o, s, r, k) ==
    /\ k = ColOf(o)
    /\ IF RowOf(o) < Height THEN r = RowOf(o) /\ s = o.screen
       ELSE r = Height - 1 /\ s = Moved(b, o.screen)

(* Screen s and cursor r, k when a call, begun with the terminal b, is at   *)
(* place p with character ch, register g and index n                       *)
Exact(b, p, s, r, k, ch, g, n) ==
    /\ p \in {"newline", "newline_row", "tab", "tab_col", "backspace", "back", "back_col",
              "letter", "letter_at", "letter_cell", "move_row"} => s = b.screen
    /\ p \in {"newline", "newline_row", "tab", "tab_col", "backspace", "back", "back_col",
              "letter", "letter_at", "letter_cell", "advance", "advance_col", "erase",
              "erase_at", "erase_cell"} => r = b.row
    /\ p \in {"newline", "newline_row", "tab", "tab_col", "backspace", "back", "back_col",
              "letter", "letter_at", "letter_cell", "advance", "advance_col"} => k = b.col
    /\ p \in {"newline_row", "letter_at", "erase_at"} => g = b.row
    /\ p \in {"tab_col", "back_col", "advance_col"} => g = b.col
    /\ p \in {"back", "back_col", "erase", "erase_at", "erase_cell"} => b.col > 0
    /\ p = "return" => s = b.screen /\ r \in {b.row, b.row + 1}
    /\ p \in {"erase", "erase_at", "erase_cell"} => s = b.screen /\ k = b.col - 1
    /\ p = "erase_cell" => g = Here(b) - 1
    /\ p \in {"letter", "letter_at", "letter_cell"} => ch \in Printable
    /\ p = "letter_cell" => g = Here(b)
    /\ p \in {"advance", "advance_col"} => \E x \in Printable : s = Typing(b, x)
    /\ p \in {"wrap", "wrap_col"} => Ask(s, r, k) \in Asked(b)
    /\ p = "wrap_col" => k = Width
    /\ p \in {"wrap_row", "wrap_set"} => Ask(s, r, Width) \in Asked(b) /\ k = 0
    /\ p = "wrap_set" => g = r
    /\ p = "check" => \E o \in Asked(b) : s = o.screen /\ r = RowOf(o) /\ k = ColOf(o)
    /\ p = "scroll" =>
           \E o \in Asked(b) :
               r = RowOf(o) /\ r >= Height /\ k = ColOf(o) /\ Scrolled(b, s, o.screen, n)
    /\ p = "scrolled" =>
           \E o \in Asked(b) : RowOf(o) >= Height /\ k = ColOf(o) /\ s = Moved(b, o.screen)
    /\ p = "clear" => \A q \in Cells : q < n => s[q] = Empty(b)
    /\ p \in {"clear_row", "clear_col"} => s = AllEmpty(b)
    /\ p = "clear_col" => r = 0
    /\ p = "move_col" => s = b.screen /\ r < Height
    /\ p \in Syncing => \E o \in Asked(b) : Shown(b, o, s, r, k)

(* The way of the position to the two registers of the CRTC *)
Sent(p, r, k, g, index, bytes) ==
    /\ p = "sync_at" => g = r
    /\ p \in {"select_high", "high", "select_low", "low"} => g = r * Width + k
    /\ p = "high" => index = "HI"
    /\ p \in {"select_low", "low"} => bytes["HI"] = High(g)
    /\ p = "low" => index = "LO"
    /\ p = "done" => bytes = [HI |-> High(r * Width + k), LO |-> Low(r * Width + k)]

Tells(x, p, s, r, k, g, n, index, bytes) ==
    ~mixed => Exact(before, p, s, r, k, c[x], g, n) /\ Sent(p, r, k, g, index, bytes)

Right(x, p, s, r, k, g, n, index, bytes) ==
    Fits(x, p, r, k, g, n) /\ Tells(x, p, s, r, k, g, n, index, bytes)

Undisturbed ==
    /\ ~mixed /\ ~Settled => before.color = current_color
    /\ \A x \in Contexts : pc[x] # "idle" =>
           Tells(x, pc[x], Screen, cursor_row, cursor_col, reg[x], i[x], crtc_index, crtc)

(* The inductive invariant *)
ConsoleInv == Typed /\ Nested /\ CursorFits /\ Undisturbed

----------------------------------------------------------------------------
(* Positions and numbers *)

(* Rows and columns give cells of the screen; one line below it is memory. *)
LEMMA Positions ==
    ASSUME NEW r \in Nat, NEW k \in Nat
    PROVE  /\ r * Width + k \in Nat
           /\ r < Height /\ k < Width => r * Width + k \in Cells
           /\ Beside(r, k) => r * Width + k \in Memory
<1>1. Width \in Nat \ {0} /\ Height \in Nat \ {0, 1}
  BY ScreenAssumption
<1>2. r * Width \in Nat /\ Height * Width \in Nat /\ Width * Height = Height * Width
  BY <1>1
<1>3. Width * (Height + 1) = Height * Width + Width
  BY <1>1
<1>4. r < Height => r * Width + Width <= Height * Width
  <2>1. ASSUME r < Height PROVE r * Width + Width <= Height * Width
    <3>1. PICK d \in Nat : Height = r + 1 + d
      <4>1. Height - r - 1 \in Nat /\ Height = r + 1 + (Height - r - 1)
        BY <1>1, <2>1
      <4> QED
        BY <4>1
    <3>2. Height * Width = r * Width + Width + d * Width
      BY <3>1, <1>1
    <3>3. d * Width \in Nat
      BY <1>1, <3>1
    <3> QED
      BY <3>2, <3>3, <1>2, <1>1
  <2> QED
    BY <2>1
<1>5. r = Height => r * Width = Height * Width
  OBVIOUS
<1> DEFINE R == r * Width
           H == Height * Width
<1>6. R \in Nat /\ H \in Nat /\ Cells = 0..(H - 1) /\ Memory = 0..(H + Width - 1)
  <2> DEFINE M == Width * (Height + 1)
             C == Width * Height
  <2>1. Cells = 0..(C - 1) /\ Memory = 0..(M - 1)
    BY DEF Cells, Memory
  <2>2. M = H + Width /\ C = H /\ R \in Nat /\ H \in Nat
    BY <1>2, <1>3
  <2> HIDE DEF H, M, R, C
  <2> QED
    BY <2>1, <2>2, <1>1
<1>7. (r < Height => R + Width <= H) /\ (r = Height => R = H)
  BY <1>4, <1>5
<1> HIDE DEF R, H
<1>8. /\ R + k \in Nat
      /\ r < Height /\ k < Width => R + k \in Cells
      /\ Beside(r, k) => R + k \in Memory
  BY <1>1, <1>6, <1>7 DEF Beside
<1> QED
  BY <1>8 DEF R

(* The cells are the first part of the memory; moving them up by a line    *)
(* leaves the last one.                                                    *)
LEMMA Lines ==
    /\ Cells \subseteq Memory /\ Cells \subseteq Nat /\ 0 \in Cells
    /\ \A n \in Cells : n + 1 \notin Cells => \A q \in Cells : q <= n
    /\ \A n \in Cells : \A q \in Nat : q <= n => q \in Cells
    /\ \A n \in Nat : n < (Height - 1) * Width <=> n + Width \in Cells
<1>1. Width \in Nat \ {0} /\ Height \in Nat \ {0, 1}
  BY ScreenAssumption
<1> DEFINE H == Width * Height
<1>2. /\ H \in Nat /\ Width * (Height + 1) = H + Width
      /\ (Height - 1) * Width = H - Width /\ H >= Width
  <2>1. H \in Nat /\ Width * (Height + 1) = H + Width /\ (Height - 1) * Width = H - Width
    BY <1>1
  <2>2. PICK d \in Nat : Height = 1 + d
    <3>1. Height - 1 \in Nat /\ Height = 1 + (Height - 1)
      BY <1>1
    <3> QED
      BY <3>1
  <2>3. H = Width + d * Width /\ d * Width \in Nat
    BY <1>1, <2>2
  <2>4. H >= Width
    <3> HIDE DEF H
    <3> QED
      BY <1>1, <2>3
  <2> QED
    BY <2>1, <2>4
<1>3. Cells = 0..(H - 1) /\ Memory = 0..(H + Width - 1)
  <2> DEFINE M == Width * (Height + 1)
  <2>1. Cells = 0..(H - 1) /\ Memory = 0..(M - 1)
    BY DEF Cells, Memory
  <2>2. M = H + Width
    BY <1>2
  <2> HIDE DEF H, M
  <2> QED
    BY <2>1, <2>2, <1>1, <1>2
<1> HIDE DEF H
<1> QED
  BY <1>1, <1>2, <1>3

(* A tab stop is at most the end of the line, since lines end at one. *)
LEMMA TabStops ==
    ASSUME NEW k \in Nat
    PROVE  /\ ((k + Tab) \div Tab) * Tab = (k \div Tab + 1) * Tab
           /\ (k \div Tab + 1) * Tab \in Nat
           /\ k < Width => (k \div Tab + 1) * Tab <= Width
<1>1. Width \in Nat \ {0} /\ Tab \in Nat \ {0} /\ Width % Tab = 0
  BY ScreenAssumption
<1>2. (k + Tab) \div Tab = k \div Tab + 1 /\ k \div Tab \in Nat
  BY <1>1
<1>3. (k \div Tab + 1) * Tab \in Nat
  BY <1>1, <1>2
<1>4. ASSUME k < Width PROVE (k \div Tab + 1) * Tab <= Width
  <2> DEFINE w == Width \div Tab
             q == k \div Tab
  <2>1. w \in Nat /\ q \in Nat /\ w * Tab = Width
    BY <1>1
  <2>2. q * Tab <= k
    BY <1>1
  <2> HIDE DEF w, q
  <2>3. q < w
    <3>1. SUFFICES ASSUME w <= q PROVE FALSE
      BY <2>1
    <3>2. PICK d \in Nat : q = w + d
      <4>1. q - w \in Nat /\ q = w + (q - w)
        BY <2>1, <3>1
      <4> QED
        BY <4>1
    <3>3. q * Tab = w * Tab + d * Tab /\ d * Tab \in Nat
      BY <3>2, <2>1, <1>1
    <3> QED
      BY <3>3, <2>1, <2>2, <1>4, <1>1
  <2>4. PICK d \in Nat : w = q + 1 + d
    <3>1. w - q - 1 \in Nat /\ w = q + 1 + (w - q - 1)
      BY <2>1, <2>3
    <3> QED
      BY <3>1
  <2>5. w * Tab = (q + 1) * Tab + d * Tab /\ d * Tab \in Nat /\ (q + 1) * Tab \in Nat
    BY <2>4, <2>1, <1>1
  <2>6. (q + 1) * Tab <= Width
    BY <2>5, <2>1, <1>1
  <2> QED
    BY <2>6 DEF q
<1> QED
  BY <1>2, <1>3, <1>4

(* A column is on the line or at its end. *)
LEMMA Columns ==
    ASSUME NEW k \in Nat
    PROVE  /\ k < Width => k \div Width = 0 /\ k % Width = k
           /\ k = Width => k \div Width = 1 /\ k % Width = 0
<1>1. Width \in Nat \ {0}
  BY ScreenAssumption
<1>2. k < Width => k \div Width = 0 /\ k % Width = k
  BY <1>1
<1>3. Width \div Width = 1 /\ Width % Width = 0
  BY <1>1
<1> QED
  BY <1>2, <1>3

----------------------------------------------------------------------------
(* One step inside a call *)

(* What the invariant says of the context that runs *)
LEMMA Current ==
    ASSUME ConsoleInv, NEW x \in Contexts, NEW from \in Within, running = x, pc[x] = from
    PROVE  /\ Right(x, from, Screen, cursor_row, cursor_col, reg[x], i[x], crtc_index, crtc)
           /\ ~mixed => before.color = current_color
<1>1. x = 0 \/ x = 1
  BY DEF Contexts
<1>2. Fits(x, from, cursor_row, cursor_col, reg[x], i[x])
  BY <1>1 DEF ConsoleInv, Nested, CursorFits, Fits, Within
<1>3. ~mixed => before.color = current_color
  BY <1>1 DEF ConsoleInv, Undisturbed, Settled, Within
<1> QED
  BY <1>2, <1>3 DEF ConsoleInv, Undisturbed, Right, Within

LEMMA StepKeeps ==
    ASSUME ConsoleInv, NEW x \in Contexts,
           NEW from \in Within, NEW to \in Within, Step(x, from, to),
           to \in Erasing => from \in Erasing,
           buf' \in [Memory -> Paint], cursor_row' \in Nat, cursor_col' \in Nat,
           crtc_index' \in {"HI", "LO"}, crtc' \in [{"HI", "LO"} -> Nat],
           reg' \in [Contexts -> Nat], i' \in [Contexts -> Nat],
           \A y \in Contexts \ {x} : reg'[y] = reg[y] /\ i'[y] = i[y],
           Right(x, to, Screen', cursor_row', cursor_col', reg'[x], i'[x], crtc_index', crtc')
    PROVE  ConsoleInv'
<1>1. /\ running = x /\ pc[x] = from /\ pc \in [Contexts -> Places]
      /\ pc' = [pc EXCEPT ![x] = to]
      /\ UNCHANGED <<current_color, enabled, running, text, calls, interrupts, before, c,
                     mixed>>
  BY DEF Step, control, ConsoleInv, Typed
<1>2. pc'[x] = to /\ \A y \in Contexts \ {x} : pc'[y] = pc[y]
  BY <1>1
<1>3. x = 0 \/ x = 1
  BY DEF Contexts
<1>4. Contexts = {0, 1}
  BY DEF Contexts
<1>5. Typed'
  BY <1>1 DEF ConsoleInv, Typed, Within
<1>6. Nested'
  <2>1. CASE x = 0
    BY <1>1, <1>2, <1>4, <2>1 DEF ConsoleInv, Nested, Within
  <2>2. CASE x = 1
    BY <1>1, <1>2, <1>4, <2>2 DEF ConsoleInv, Nested, Within
  <2> QED
    BY <1>3, <2>1, <2>2
<1>7. CursorFits'
  <2>1. CASE x = 0
    BY <1>1, <1>2, <1>4, <2>1 DEF Right, ConsoleInv, Nested, CursorFits, Fits, Within
  <2>2. CASE x = 1
    BY <1>1, <1>2, <1>4, <2>2 DEF Right, ConsoleInv, Nested, CursorFits, Fits, Within
  <2> QED
    BY <1>3, <2>1, <2>2
<1>8. Undisturbed'
  <2>1. ~mixed' /\ ~Settled' => before'.color = current_color'
    BY <1>1, <1>3 DEF ConsoleInv, Undisturbed, Settled, Within
  <2>2. Tells(x, to, Screen, cursor_row, cursor_col, reg[x], i[x], crtc_index, crtc)'
    BY <1>1 DEF Right, Tells
  <2>3. ASSUME NEW y \in Contexts \ {x}, pc'[y] # "idle" PROVE mixed'
    BY <1>1, <1>2, <1>3, <1>4, <2>3 DEF ConsoleInv, Nested
  <2> QED
    BY <1>2, <2>1, <2>2, <2>3 DEF Undisturbed, Tells
<1> QED
  BY <1>5, <1>6, <1>7, <1>8 DEF ConsoleInv

LEMMA TestKeeps ==
    ASSUME ConsoleInv, NEW x \in Contexts, NEW from \in Within, NEW yes \in Within,
           NEW no \in Within, NEW condition \in BOOLEAN, Test(x, from, condition, yes, no),
           {yes, no} \cap Erasing # {} => from \in Erasing,
           Right(x, IF condition THEN yes ELSE no, Screen, cursor_row, cursor_col, reg[x], i[x],
                 crtc_index, crtc)
    PROVE  ConsoleInv'
<1> DEFINE to == IF condition THEN yes ELSE no
<1>1. Step(x, from, to) /\ UNCHANGED <<buf, cursor_row, cursor_col, crtc_index, crtc, reg, i>>
  BY DEF Test, cursor, device
<1>2. to \in Within /\ (to \in Erasing => from \in Erasing) /\ Screen' = Screen
  BY <1>1 DEF Screen
<1>3. Right(x, to, Screen, cursor_row, cursor_col, reg[x], i[x], crtc_index, crtc)
  OBVIOUS
<1> HIDE DEF to
<1> QED
  BY <1>1, <1>2, <1>3, StepKeeps DEF ConsoleInv, Typed

LEMMA LoadKeeps ==
    ASSUME ConsoleInv, NEW x \in Contexts, NEW from \in Within, NEW to \in Within,
           NEW value \in Nat, Load(x, from, to, value), to \in Erasing => from \in Erasing,
           Right(x, to, Screen, cursor_row, cursor_col, value, i[x], crtc_index, crtc)
    PROVE  ConsoleInv'
<1>1. /\ Step(x, from, to) /\ reg' = [reg EXCEPT ![x] = value]
      /\ UNCHANGED <<buf, cursor_row, cursor_col, crtc_index, crtc, i>>
  BY DEF Load, cursor, device
<1>2. /\ reg' \in [Contexts -> Nat] /\ reg'[x] = value
      /\ \A y \in Contexts \ {x} : reg'[y] = reg[y]
  BY <1>1 DEF ConsoleInv, Typed
<1>3. Screen' = Screen
  BY <1>1 DEF Screen
<1> QED
  BY <1>1, <1>2, <1>3, StepKeeps DEF ConsoleInv, Typed

LEMMA StoreRowKeeps ==
    ASSUME ConsoleInv, NEW x \in Contexts, NEW from \in Within, NEW to \in Within,
           NEW value \in Nat, StoreRow(x, from, to, value), to \in Erasing => from \in Erasing,
           Right(x, to, Screen, value, cursor_col, reg[x], i[x], crtc_index, crtc)
    PROVE  ConsoleInv'
<1>1. /\ Step(x, from, to) /\ cursor_row' = value
      /\ UNCHANGED <<buf, cursor_col, crtc_index, crtc, reg, i>>
  BY DEF StoreRow, device
<1>2. Screen' = Screen
  BY <1>1 DEF Screen
<1> QED
  BY <1>1, <1>2, StepKeeps DEF ConsoleInv, Typed

LEMMA StoreColKeeps ==
    ASSUME ConsoleInv, NEW x \in Contexts, NEW from \in Within, NEW to \in Within,
           NEW value \in Nat, StoreCol(x, from, to, value), to \in Erasing => from \in Erasing,
           Right(x, to, Screen, cursor_row, value, reg[x], i[x], crtc_index, crtc)
    PROVE  ConsoleInv'
<1>1. /\ Step(x, from, to) /\ cursor_col' = value
      /\ UNCHANGED <<buf, cursor_row, crtc_index, crtc, reg, i>>
  BY DEF StoreCol, device
<1>2. Screen' = Screen
  BY <1>1 DEF Screen
<1> QED
  BY <1>1, <1>2, StepKeeps DEF ConsoleInv, Typed

(* A cell of memory is written: of the screen only what is on it changes. *)
LEMMA WriteCell ==
    ASSUME Typed, NEW at \in Memory, NEW paint \in Paint, buf' = [buf EXCEPT ![at] = paint]
    PROVE  /\ buf' \in [Memory -> Paint] /\ Screen \in Screens
           /\ Screen' = [Screen EXCEPT ![at] = paint]
<1>1. Cells \subseteq Memory
  BY Lines
<1> QED
  BY <1>1 DEF Typed, Screen, Screens

LEMMA StoreCellKeeps ==
    ASSUME ConsoleInv, NEW x \in Contexts, NEW from \in Within, NEW to \in Within,
           NEW ch \in Nat, StoreCell(x, from, to, ch), to \in Erasing => from \in Erasing,
           reg[x] \in Memory,
           Right(x, to, [Screen EXCEPT ![reg[x]] = Cell(ch)], cursor_row, cursor_col, reg[x], i[x],
                 crtc_index, crtc)
    PROVE  ConsoleInv'
<1>1. /\ Step(x, from, to) /\ buf' = [buf EXCEPT ![reg[x]] = Cell(ch)]
      /\ UNCHANGED <<cursor_row, cursor_col, crtc_index, crtc, reg, i>>
  BY DEF StoreCell, cursor, device
<1>2. Typed /\ Cell(ch) \in Paint
  BY DEF ConsoleInv, Typed, Cell, Paint
<1>3. buf' \in [Memory -> Paint] /\ Screen' = [Screen EXCEPT ![reg[x]] = Cell(ch)]
  BY <1>1, <1>2, WriteCell
<1> QED
  BY <1>1, <1>2, <1>3, StepKeeps DEF Typed

----------------------------------------------------------------------------
(* What can be asked of a terminal *)

LEMMA Marks ==
    ASSUME NEW b \in Terminals, NEW ch \in Nat
    PROVE  /\ Mark(b, ch) \in Paint /\ Empty(b) \in Paint /\ AllEmpty(b) \in Screens
           /\ Here(b) \in Cells /\ (b.col > 0 => Here(b) - 1 \in Cells)
           /\ Typing(b, ch) \in Screens /\ Erasure(b) \in Screens
           /\ \A s \in Screens : Moved(b, s) \in Screens
<1>1. /\ b.screen \in Screens /\ b.color \in Colors
      /\ b.row \in Nat /\ b.row < Height /\ b.col \in Nat /\ b.col < Width
  BY ScreenAssumption DEF Terminals
<1>2. Mark(b, ch) \in Paint /\ Empty(b) \in Paint
  BY <1>1 DEF Mark, Empty, Paint, Blank
<1>3. AllEmpty(b) \in Screens
  BY <1>2 DEF AllEmpty, Screens
<1>4. Here(b) \in Cells /\ Here(b) \in Nat
  BY <1>1, Positions DEF Here
<1>5. b.col > 0 => Here(b) - 1 \in Cells
  <2>1. b.row * Width \in Nat
    BY <1>1, ScreenAssumption
  <2>2. b.col > 0 => Here(b) - 1 \in Nat
    BY <1>1, <2>1 DEF Here
  <2> QED
    BY <2>2, <1>4, Lines
<1>6. Typing(b, ch) \in Screens /\ Erasure(b) \in Screens
  BY <1>1, <1>2 DEF Typing, Erasure, Screens
<1>7. \A s \in Screens : Moved(b, s) \in Screens
  BY <1>2 DEF Moved, Screens
<1> QED
  BY <1>2, <1>3, <1>4, <1>5, <1>6, <1>7

LEMMA Asking ==
    ASSUME NEW b \in Terminals
    PROVE  /\ Ask(b.screen, b.row + 1, 0) \in Asked(b) /\ Ask(b.screen, b.row, 0) \in Asked(b)
           /\ Ask(b.screen, b.row, (b.col \div Tab + 1) * Tab) \in Asked(b)
           /\ Ask(AllEmpty(b), 0, 0) \in Asked(b)
           /\ b.col > 0 => Ask(Erasure(b), b.row, b.col - 1) \in Asked(b)
           /\ \A ch \in Printable : Ask(Typing(b, ch), b.row, b.col + 1) \in Asked(b)
           /\ \A r \in 0..(Height - 1), k \in 0..(Width - 1) : Ask(b.screen, r, k) \in Asked(b)
<1>1. b.col > 0 => Ask(Erasure(b), b.row, b.col - 1) \in Asked(b)
  BY DEF Asked
<1>2. \A ch \in Printable : Ask(Typing(b, ch), b.row, b.col + 1) \in Asked(b)
  BY DEF Asked
<1>3. \A r \in 0..(Height - 1), k \in 0..(Width - 1) : Ask(b.screen, r, k) \in Asked(b)
  BY DEF Asked
<1> QED
  BY <1>1, <1>2, <1>3 DEF Asked

LEMMA PrintablesAreNumbers == Printable \subseteq Nat /\ Printable \cap Controls = {}
<1>1. \A k \in 1..Len(HandlerText) : HandlerText[k] \in Nat
  BY ScreenAssumption
<1> QED
  BY <1>1, ScreenAssumption DEF Printable

(* It never leaves the screen by more than a line or a column, and the     *)
(* cursor is on the screen when the lines have been moved.                 *)
LEMMA AskedFits ==
    ASSUME NEW b \in Terminals, NEW o \in Asked(b)
    PROVE  /\ o = Ask(o.screen, o.row, o.col) /\ o.screen \in Screens
           /\ o.row \in Nat /\ o.col \in Nat /\ Beside(o.row, o.col)
           /\ RowOf(o) \in 0..Height /\ ColOf(o) \in 0..(Width - 1)
           /\ o.col < Width => RowOf(o) = o.row /\ ColOf(o) = o.col
           /\ o.col = Width => RowOf(o) = o.row + 1 /\ ColOf(o) = 0
<1>1. /\ b.screen \in Screens /\ b.color \in Colors /\ Width \in Nat \ {0}
      /\ Height \in Nat \ {0, 1}
      /\ b.row \in Nat /\ b.row < Height /\ b.col \in Nat /\ b.col < Width
  BY ScreenAssumption DEF Terminals
<1>2. o = Ask(o.screen, o.row, o.col)
  BY DEF Asked, Ask
<1>3. o.screen \in Screens
  BY <1>1, Marks, PrintablesAreNumbers DEF Asked, Ask
<1>4. o.row \in Nat /\ o.col \in Nat /\ Beside(o.row, o.col)
  <2>1. (b.col \div Tab + 1) * Tab \in Nat /\ (b.col \div Tab + 1) * Tab <= Width
    BY <1>1, TabStops
  <2> DEFINE stop == (b.col \div Tab + 1) * Tab
  <2> HIDE DEF stop
  <2>2. \/ o.row = b.row + 1 /\ o.col = 0
        \/ o.row = b.row /\ o.col \in {0, stop, b.col + 1}
        \/ o.row = b.row /\ o.col = b.col - 1 /\ b.col > 0
        \/ o.row = 0 /\ o.col = 0
        \/ o.row \in 0..(Height - 1) /\ o.col \in 0..(Width - 1)
    BY DEF Asked, Ask, stop
  <2> QED
    BY <1>1, <2>1, <2>2 DEF Beside, stop
<1>5. /\ o.col < Width => RowOf(o) = o.row /\ ColOf(o) = o.col
      /\ o.col = Width => RowOf(o) = o.row + 1 /\ ColOf(o) = 0
  BY <1>4, Columns DEF RowOf, ColOf
<1>6. RowOf(o) \in 0..Height /\ ColOf(o) \in 0..(Width - 1)
  BY <1>1, <1>4, <1>5 DEF Beside
<1> QED
  BY <1>2, <1>3, <1>4, <1>5, <1>6

(* What every step can use *)
LEMMA Facts ==
    ASSUME ConsoleInv, NEW x \in Contexts
    PROVE  /\ x \in {0, 1} /\ before \in Terminals /\ Screen \in Screens
           /\ cursor_row \in Nat /\ cursor_col \in Nat /\ reg[x] \in Nat /\ i[x] \in Nat
           /\ Width \in Nat \ {0} /\ Height \in Nat \ {0, 1}
           /\ before.row \in Nat /\ before.row < Height
           /\ before.col \in Nat /\ before.col < Width /\ before.screen \in Screens
<1>1. Screen \in Screens
  BY Lines DEF ConsoleInv, Typed, Screen, Screens
<1> QED
  BY <1>1, ScreenAssumption DEF ConsoleInv, Typed, Contexts, Terminals

(* Where an output without a wrap, and one with it, has to end *)
LEMMA Landing ==
    ASSUME NEW b \in Terminals, NEW s, NEW r, NEW k, Ask(s, r, k) \in Asked(b)
    PROVE  /\ k < Width =>
                  \E o \in Asked(b) : s = o.screen /\ r = RowOf(o) /\ k = ColOf(o)
           /\ k = Width =>
                  \E o \in Asked(b) : s = o.screen /\ r + 1 = RowOf(o) /\ 0 = ColOf(o)
<1> DEFINE o == Ask(s, r, k)
<1>1. o.screen = s /\ o.row = r /\ o.col = k
  BY DEF Ask
<1> HIDE DEF o
<1>2. /\ o.col < Width => RowOf(o) = o.row /\ ColOf(o) = o.col
      /\ o.col = Width => RowOf(o) = o.row + 1 /\ ColOf(o) = 0
  BY AskedFits DEF o
<1>3. o \in Asked(b)
  BY DEF o
<1> QED
  BY <1>1, <1>2, <1>3

----------------------------------------------------------------------------
(* vga_putc *)

LEMMA PutNewLineKeeps ==
    ASSUME ConsoleInv, NEW x \in Contexts, PutNewLine(x)
    PROVE  ConsoleInv'
<1>1. CASE Load(x, "newline", "newline_row", cursor_row)
  <2>1. Fits(x, "newline", cursor_row, cursor_col, reg[x], i[x])
    BY <1>1, Current DEF Load, Step, Right, Within, Places, Fresh, Erasing, Syncing
  <2>2. /\ Tells(x, "newline", Screen, cursor_row, cursor_col, reg[x], i[x], crtc_index,
              crtc)
        /\ ~mixed => before.color = current_color
    BY <1>1, Current DEF Load, Step, Right, Within, Places, Fresh, Erasing, Syncing
  <2>3. cursor_row \in Nat
    BY Facts
  <2>4. Right(x, "newline_row", Screen, cursor_row, cursor_col, cursor_row, i[x],
              crtc_index, crtc)
    BY <2>1, <2>2, <2>3, Facts
       DEF Right, Fits, Keeps, Near, Far, Tells, Exact, Sent, Fresh, Erasing, Syncing
  <2> QED
    BY <1>1, <2>3, <2>4, LoadKeeps DEF Within, Places, Fresh, Erasing, Syncing
<1>2. CASE StoreRow(x, "newline_row", "return", OneMore(reg[x]))
  <2>1. Fits(x, "newline_row", cursor_row, cursor_col, reg[x], i[x])
    BY <1>2, Current DEF StoreRow, Step, Right, Within, Places, Fresh, Erasing, Syncing
  <2>2. /\ Tells(x, "newline_row", Screen, cursor_row, cursor_col, reg[x], i[x], crtc_index,
              crtc)
        /\ ~mixed => before.color = current_color
    BY <1>2, Current DEF StoreRow, Step, Right, Within, Places, Fresh, Erasing, Syncing
  <2>3. OneMore(reg[x]) \in Nat
    BY Facts DEF OneMore
  <2>4. Right(x, "return", Screen, OneMore(reg[x]), cursor_col, reg[x], i[x], crtc_index,
              crtc)
    BY <2>1, <2>2, <2>3, Facts
       DEF Right, Fits, Keeps, Near, Far, Tells, Exact, Sent, Fresh, Erasing, Syncing,
                 OneMore
  <2> QED
    BY <1>2, <2>3, <2>4, StoreRowKeeps DEF Within, Places, Fresh, Erasing, Syncing
<1> QED
  BY <1>1, <1>2 DEF PutNewLine, IncreaseRow

LEMMA PutReturnKeeps ==
    ASSUME ConsoleInv, NEW x \in Contexts, PutReturn(x)
    PROVE  ConsoleInv'
<1>1. CASE StoreCol(x, "return", "check", 0)
  <2>1. Fits(x, "return", cursor_row, cursor_col, reg[x], i[x])
    BY <1>1, Current DEF StoreCol, Step, Right, Within, Places, Fresh, Erasing, Syncing
  <2>2. /\ Tells(x, "return", Screen, cursor_row, cursor_col, reg[x], i[x], crtc_index,
              crtc)
        /\ ~mixed => before.color = current_color
    BY <1>1, Current DEF StoreCol, Step, Right, Within, Places, Fresh, Erasing, Syncing
  <2>3. 0 \in Nat
    BY Facts
  <2>4. Right(x, "check", Screen, cursor_row, 0, reg[x], i[x], crtc_index, crtc)
    <3>1. Fits(x, "check", cursor_row, 0, reg[x], i[x])
      BY <2>1, Facts DEF Fits, Keeps, Near, Far, Fresh, Erasing, Syncing
    <3>2. ASSUME ~mixed
          PROVE  \E o \in Asked(before) :
                     Screen = o.screen /\ cursor_row = RowOf(o) /\ 0 = ColOf(o)
      <4>1. Screen = before.screen /\ cursor_row \in {before.row, before.row + 1}
        BY <2>2, <3>2 DEF Tells, Exact
      <4>2. Ask(Screen, cursor_row, 0) \in Asked(before)
        BY <4>1, Facts, Asking
      <4> QED
        BY <4>2, Facts, Landing
    <3> QED
      BY <3>1, <3>2 DEF Right, Tells, Exact, Sent, Fresh, Erasing, Syncing
  <2> QED
    BY <1>1, <2>3, <2>4, StoreColKeeps DEF Within, Places, Fresh, Erasing, Syncing
<1> QED
  BY <1>1 DEF PutReturn

LEMMA PutTabKeeps ==
    ASSUME ConsoleInv, NEW x \in Contexts, PutTab(x)
    PROVE  ConsoleInv'
<1>1. CASE Load(x, "tab", "tab_col", cursor_col)
  <2>1. Fits(x, "tab", cursor_row, cursor_col, reg[x], i[x])
    BY <1>1, Current DEF Load, Step, Right, Within, Places, Fresh, Erasing, Syncing
  <2>2. /\ Tells(x, "tab", Screen, cursor_row, cursor_col, reg[x], i[x], crtc_index, crtc)
        /\ ~mixed => before.color = current_color
    BY <1>1, Current DEF Load, Step, Right, Within, Places, Fresh, Erasing, Syncing
  <2>3. cursor_col \in Nat
    BY Facts
  <2>4. Right(x, "tab_col", Screen, cursor_row, cursor_col, cursor_col, i[x], crtc_index,
              crtc)
    BY <2>1, <2>2, <2>3, Facts
       DEF Right, Fits, Keeps, Near, Far, Tells, Exact, Sent, Fresh, Erasing, Syncing
  <2> QED
    BY <1>1, <2>3, <2>4, LoadKeeps DEF Within, Places, Fresh, Erasing, Syncing
<1>2. CASE StoreCol(x, "tab_col", "wrap", ((reg[x] + Tab) \div Tab) * Tab)
  <2>1. Fits(x, "tab_col", cursor_row, cursor_col, reg[x], i[x])
    BY <1>2, Current DEF StoreCol, Step, Right, Within, Places, Fresh, Erasing, Syncing
  <2>2. /\ Tells(x, "tab_col", Screen, cursor_row, cursor_col, reg[x], i[x], crtc_index,
              crtc)
        /\ ~mixed => before.color = current_color
    BY <1>2, Current DEF StoreCol, Step, Right, Within, Places, Fresh, Erasing, Syncing
  <2>3. ((reg[x] + Tab) \div Tab) * Tab \in Nat
    BY Facts, TabStops
  <2>4. Right(x, "wrap", Screen, cursor_row, ((reg[x] + Tab) \div Tab) * Tab, reg[x], i[x],
              crtc_index, crtc)
    BY <2>1, <2>2, <2>3, Facts, TabStops, Asking
       DEF Right, Fits, Keeps, Near, Far, Tells, Exact, Sent, Fresh, Erasing, Syncing
  <2> QED
    BY <1>2, <2>3, <2>4, StoreColKeeps DEF Within, Places, Fresh, Erasing, Syncing
<1> QED
  BY <1>1, <1>2 DEF PutTab

LEMMA PutBackspaceKeeps ==
    ASSUME ConsoleInv, NEW x \in Contexts, PutBackspace(x)
    PROVE  ConsoleInv'
<1>1. CASE Test(x, "backspace", cursor_col > 0, "back", "check")
  <2>1. Fits(x, "backspace", cursor_row, cursor_col, reg[x], i[x])
    BY <1>1, Current DEF Test, Step, Right, Within, Places, Fresh, Erasing, Syncing
  <2>2. /\ Tells(x, "backspace", Screen, cursor_row, cursor_col, reg[x], i[x], crtc_index,
              crtc)
        /\ ~mixed => before.color = current_color
    BY <1>1, Current DEF Test, Step, Right, Within, Places, Fresh, Erasing, Syncing
  <2>3. (cursor_col > 0) \in BOOLEAN
    BY Facts
  <2>4. Right(x, IF cursor_col > 0 THEN "back" ELSE "check", Screen, cursor_row, cursor_col,
              reg[x], i[x], crtc_index, crtc)
    <3>1. Fits(x, IF cursor_col > 0 THEN "back" ELSE "check", cursor_row, cursor_col, reg[x],
               i[x])
      BY <2>1, Facts DEF Fits, Keeps, Near, Far, Beside, Fresh, Erasing, Syncing
    <3>2. ~mixed => \E o \in Asked(before) :
                        Screen = o.screen /\ cursor_row = RowOf(o) /\ cursor_col = ColOf(o)
      <4>1. ASSUME ~mixed PROVE Ask(Screen, cursor_row, cursor_col) \in Asked(before)
        BY <2>2, <4>1, Facts, Asking DEF Tells, Exact
      <4>2. ~mixed => cursor_col < Width
        BY <2>2, Facts DEF Tells, Exact
      <4> QED
        BY <4>1, <4>2, Facts, Landing
    <3> QED
      BY <2>2, <3>1, <3>2, Facts DEF Right, Tells, Exact, Sent, Fresh, Erasing, Syncing
  <2> QED
    BY <1>1, <2>3, <2>4, TestKeeps DEF Within, Places, Fresh, Erasing, Syncing
<1>2. CASE Load(x, "back", "back_col", cursor_col)
  <2>1. Fits(x, "back", cursor_row, cursor_col, reg[x], i[x])
    BY <1>2, Current DEF Load, Step, Right, Within, Places, Fresh, Erasing, Syncing
  <2>2. /\ Tells(x, "back", Screen, cursor_row, cursor_col, reg[x], i[x], crtc_index, crtc)
        /\ ~mixed => before.color = current_color
    BY <1>2, Current DEF Load, Step, Right, Within, Places, Fresh, Erasing, Syncing
  <2>3. cursor_col \in Nat
    BY Facts
  <2>4. Right(x, "back_col", Screen, cursor_row, cursor_col, cursor_col, i[x], crtc_index,
              crtc)
    BY <2>1, <2>2, <2>3, Facts
       DEF Right, Fits, Keeps, Near, Far, Tells, Exact, Sent, Fresh, Erasing, Syncing,
                 Beside
  <2> QED
    BY <1>2, <2>3, <2>4, LoadKeeps DEF Within, Places, Fresh, Erasing, Syncing
<1>3. CASE StoreCol(x, "back_col", "erase", reg[x] - 1)
  <2>1. Fits(x, "back_col", cursor_row, cursor_col, reg[x], i[x])
    BY <1>3, Current DEF StoreCol, Step, Right, Within, Places, Fresh, Erasing, Syncing
  <2>2. /\ Tells(x, "back_col", Screen, cursor_row, cursor_col, reg[x], i[x], crtc_index,
              crtc)
        /\ ~mixed => before.color = current_color
    BY <1>3, Current DEF StoreCol, Step, Right, Within, Places, Fresh, Erasing, Syncing
  <2>3. reg[x] - 1 \in Nat
    BY <2>1, Facts DEF Fits, Keeps, Near, Far, Beside, Fresh, Erasing, Syncing
  <2>4. Right(x, "erase", Screen, cursor_row, reg[x] - 1, reg[x], i[x], crtc_index, crtc)
    BY <2>1, <2>2, <2>3, Facts
       DEF Right, Fits, Keeps, Near, Far, Tells, Exact, Sent, Fresh, Erasing, Syncing,
                 Beside
  <2> QED
    BY <1>3, <2>3, <2>4, StoreColKeeps DEF Within, Places, Fresh, Erasing, Syncing
<1>4. CASE Load(x, "erase", "erase_at", cursor_row)
  <2>1. Fits(x, "erase", cursor_row, cursor_col, reg[x], i[x])
    BY <1>4, Current DEF Load, Step, Right, Within, Places, Fresh, Erasing, Syncing
  <2>2. /\ Tells(x, "erase", Screen, cursor_row, cursor_col, reg[x], i[x], crtc_index, crtc)
        /\ ~mixed => before.color = current_color
    BY <1>4, Current DEF Load, Step, Right, Within, Places, Fresh, Erasing, Syncing
  <2>3. cursor_row \in Nat
    BY Facts
  <2>4. Right(x, "erase_at", Screen, cursor_row, cursor_col, cursor_row, i[x], crtc_index,
              crtc)
    BY <2>1, <2>2, <2>3, Facts
       DEF Right, Fits, Keeps, Near, Far, Tells, Exact, Sent, Fresh, Erasing, Syncing
  <2> QED
    BY <1>4, <2>3, <2>4, LoadKeeps DEF Within, Places, Fresh, Erasing, Syncing
<1>5. CASE Load(x, "erase_at", "erase_cell", Address(x))
  <2>1. Fits(x, "erase_at", cursor_row, cursor_col, reg[x], i[x])
    BY <1>5, Current DEF Load, Step, Right, Within, Places, Fresh, Erasing, Syncing
  <2>2. /\ Tells(x, "erase_at", Screen, cursor_row, cursor_col, reg[x], i[x], crtc_index,
              crtc)
        /\ ~mixed => before.color = current_color
    BY <1>5, Current DEF Load, Step, Right, Within, Places, Fresh, Erasing, Syncing
  <2>3. Address(x) \in Nat
    BY Facts, Positions DEF Address
  <2>4. Right(x, "erase_cell", Screen, cursor_row, cursor_col, Address(x), i[x], crtc_index,
              crtc)
    <3>1. Address(x) = reg[x] * Width + cursor_col
      BY DEF Address
    <3>2. Fits(x, "erase_cell", cursor_row, cursor_col, Address(x), i[x])
      <4>1. Beside(reg[x], cursor_col)
        BY <2>1, Facts DEF Fits, Keeps, Near, Far, Beside, Fresh, Erasing, Syncing
      <4>2. reg[x] \in Nat /\ cursor_col \in Nat
        BY Facts
      <4>3. reg[x] * Width + cursor_col \in Memory
        BY <4>1, <4>2, Positions, Zenon
      <4>4. Address(x) \in Memory
        BY <3>1, <4>3
      <4> QED
        BY <2>1, <4>4 DEF Fits, Keeps, Near, Far, Fresh, Erasing, Syncing
    <3>3. ~mixed => Address(x) = Here(before) - 1
      <4>1. ASSUME ~mixed
            PROVE  reg[x] = before.row /\ cursor_col = before.col - 1 /\ before.col > 0
        BY <2>2, <4>1 DEF Tells, Exact
      <4>2. before.row * Width \in Nat
        BY Facts
      <4> QED
        BY <3>1, <4>1, <4>2, Facts DEF Here
    <3> QED
      BY <2>2, <3>2, <3>3 DEF Right, Tells, Exact, Sent, Fresh, Erasing, Syncing
  <2> QED
    BY <1>5, <2>3, <2>4, LoadKeeps DEF Within, Places, Fresh, Erasing, Syncing
<1>6. CASE StoreCell(x, "erase_cell", "check", Blank)
  <2>1. Fits(x, "erase_cell", cursor_row, cursor_col, reg[x], i[x])
    BY <1>6, Current DEF StoreCell, Step, Right, Within, Places, Fresh, Erasing, Syncing
  <2>2. /\ Tells(x, "erase_cell", Screen, cursor_row, cursor_col, reg[x], i[x], crtc_index,
              crtc)
        /\ ~mixed => before.color = current_color
    BY <1>6, Current DEF StoreCell, Step, Right, Within, Places, Fresh, Erasing, Syncing
  <2>3. Blank \in Nat /\ reg[x] \in Memory
    BY <2>1, Facts DEF Blank, Fits, Keeps, Far
  <2>4. Right(x, "check", [Screen EXCEPT ![reg[x]] = Cell(Blank)], cursor_row, cursor_col,
              reg[x], i[x], crtc_index, crtc)
    <3> DEFINE s == [Screen EXCEPT ![reg[x]] = Cell(Blank)]
    <3>1. Fits(x, "check", cursor_row, cursor_col, reg[x], i[x])
      BY <2>1, Facts DEF Fits, Keeps, Near, Far, Fresh, Erasing, Syncing
    <3>2. ASSUME ~mixed
          PROVE  \E o \in Asked(before) :
                     s = o.screen /\ cursor_row = RowOf(o) /\ cursor_col = ColOf(o)
      <4>1. /\ Screen = before.screen /\ cursor_row = before.row /\ reg[x] = Here(before) - 1
            /\ cursor_col = before.col - 1 /\ before.col > 0
        BY <2>2, <3>2 DEF Tells, Exact
      <4>2. Cell(Blank) = Empty(before)
        BY <2>2, <3>2 DEF Cell, Empty, Mark
      <4>3. s = Erasure(before)
        BY <4>1, <4>2 DEF Erasure
      <4>4. Ask(s, cursor_row, cursor_col) \in Asked(before)
        BY <4>1, <4>3, Facts, Asking
      <4>5. cursor_col < Width
        BY <4>1, Facts
      <4> QED
        BY <4>4, <4>5, Facts, Landing
    <3> QED
      BY <3>1, <3>2 DEF Right, Tells, Exact, Sent, Fresh, Erasing, Syncing
  <2> QED
    BY <1>6, <2>3, <2>4, StoreCellKeeps DEF Within, Places, Fresh, Erasing, Syncing
<1> QED
  BY <1>1, <1>2, <1>3, <1>4, <1>5, <1>6 DEF PutBackspace

LEMMA PutLetterKeeps ==
    ASSUME ConsoleInv, NEW x \in Contexts, PutLetter(x)
    PROVE  ConsoleInv'
<1>1. CASE Load(x, "letter", "letter_at", cursor_row)
  <2>1. Fits(x, "letter", cursor_row, cursor_col, reg[x], i[x])
    BY <1>1, Current DEF Load, Step, Right, Within, Places, Fresh, Erasing, Syncing
  <2>2. /\ Tells(x, "letter", Screen, cursor_row, cursor_col, reg[x], i[x], crtc_index,
              crtc)
        /\ ~mixed => before.color = current_color
    BY <1>1, Current DEF Load, Step, Right, Within, Places, Fresh, Erasing, Syncing
  <2>3. cursor_row \in Nat
    BY Facts
  <2>4. Right(x, "letter_at", Screen, cursor_row, cursor_col, cursor_row, i[x], crtc_index,
              crtc)
    BY <2>1, <2>2, <2>3, Facts
       DEF Right, Fits, Keeps, Near, Far, Tells, Exact, Sent, Fresh, Erasing, Syncing,
                 Beside
  <2> QED
    BY <1>1, <2>3, <2>4, LoadKeeps DEF Within, Places, Fresh, Erasing, Syncing
<1>2. CASE Load(x, "letter_at", "letter_cell", Address(x))
  <2>1. Fits(x, "letter_at", cursor_row, cursor_col, reg[x], i[x])
    BY <1>2, Current DEF Load, Step, Right, Within, Places, Fresh, Erasing, Syncing
  <2>2. /\ Tells(x, "letter_at", Screen, cursor_row, cursor_col, reg[x], i[x], crtc_index,
              crtc)
        /\ ~mixed => before.color = current_color
    BY <1>2, Current DEF Load, Step, Right, Within, Places, Fresh, Erasing, Syncing
  <2>3. Address(x) \in Nat
    BY Facts, Positions DEF Address
  <2>4. Right(x, "letter_cell", Screen, cursor_row, cursor_col, Address(x), i[x],
              crtc_index, crtc)
    <3>1. Address(x) = reg[x] * Width + cursor_col
      BY DEF Address
    <3>2. Fits(x, "letter_cell", cursor_row, cursor_col, Address(x), i[x])
      <4>1. Beside(reg[x], cursor_col)
        BY <2>1, Facts DEF Fits, Keeps, Near, Far, Beside, Fresh, Erasing, Syncing
      <4>2. reg[x] \in Nat /\ cursor_col \in Nat
        BY Facts
      <4>3. reg[x] * Width + cursor_col \in Memory
        BY <4>1, <4>2, Positions, Zenon
      <4>4. Address(x) \in Memory
        BY <3>1, <4>3
      <4> QED
        BY <2>1, <4>4 DEF Fits, Keeps, Near, Far, Fresh, Erasing, Syncing
    <3>3. ~mixed => Address(x) = Here(before)
      BY <2>2, <3>1 DEF Tells, Exact, Here
    <3> QED
      BY <2>2, <3>2, <3>3 DEF Right, Tells, Exact, Sent, Fresh, Erasing, Syncing
  <2> QED
    BY <1>2, <2>3, <2>4, LoadKeeps DEF Within, Places, Fresh, Erasing, Syncing
<1>3. CASE StoreCell(x, "letter_cell", "advance", c[x])
  <2>1. Fits(x, "letter_cell", cursor_row, cursor_col, reg[x], i[x])
    BY <1>3, Current DEF StoreCell, Step, Right, Within, Places, Fresh, Erasing, Syncing
  <2>2. /\ Tells(x, "letter_cell", Screen, cursor_row, cursor_col, reg[x], i[x], crtc_index,
              crtc)
        /\ ~mixed => before.color = current_color
    BY <1>3, Current DEF StoreCell, Step, Right, Within, Places, Fresh, Erasing, Syncing
  <2>3. c[x] \in Nat /\ reg[x] \in Memory
    BY <2>1, Facts DEF Fits, Keeps, Far, ConsoleInv, Typed
  <2>4. Right(x, "advance", [Screen EXCEPT ![reg[x]] = Cell(c[x])], cursor_row, cursor_col,
              reg[x], i[x], crtc_index, crtc)
    <3> DEFINE s == [Screen EXCEPT ![reg[x]] = Cell(c[x])]
    <3>1. Fits(x, "advance", cursor_row, cursor_col, reg[x], i[x])
      BY <2>1, Facts DEF Fits, Keeps, Near, Far, Fresh, Erasing, Syncing
    <3>2. ASSUME ~mixed
          PROVE  /\ \E z \in Printable : s = Typing(before, z)
                 /\ cursor_row = before.row /\ cursor_col = before.col
      <4>1. /\ Screen = before.screen /\ cursor_row = before.row /\ reg[x] = Here(before)
            /\ cursor_col = before.col /\ c[x] \in Printable
        BY <2>2, <3>2 DEF Tells, Exact
      <4>2. Cell(c[x]) = Mark(before, c[x])
        BY <2>2, <3>2 DEF Cell, Mark
      <4>3. s = Typing(before, c[x])
        BY <4>1, <4>2 DEF Typing
      <4> QED
        BY <4>1, <4>3
    <3> HIDE DEF s
    <3>3. Right(x, "advance", s, cursor_row, cursor_col, reg[x], i[x], crtc_index, crtc)
      BY <3>1, <3>2 DEF Right, Tells, Exact, Sent, Fresh, Erasing, Syncing
    <3> QED
      BY <3>3 DEF s
  <2> QED
    BY <1>3, <2>3, <2>4, StoreCellKeeps DEF Within, Places, Fresh, Erasing, Syncing
<1>4. CASE Load(x, "advance", "advance_col", cursor_col)
  <2>1. Fits(x, "advance", cursor_row, cursor_col, reg[x], i[x])
    BY <1>4, Current DEF Load, Step, Right, Within, Places, Fresh, Erasing, Syncing
  <2>2. /\ Tells(x, "advance", Screen, cursor_row, cursor_col, reg[x], i[x], crtc_index,
              crtc)
        /\ ~mixed => before.color = current_color
    BY <1>4, Current DEF Load, Step, Right, Within, Places, Fresh, Erasing, Syncing
  <2>3. cursor_col \in Nat
    BY Facts
  <2>4. Right(x, "advance_col", Screen, cursor_row, cursor_col, cursor_col, i[x],
              crtc_index, crtc)
    BY <2>1, <2>2, <2>3, Facts
       DEF Right, Fits, Keeps, Near, Far, Tells, Exact, Sent, Fresh, Erasing, Syncing
  <2> QED
    BY <1>4, <2>3, <2>4, LoadKeeps DEF Within, Places, Fresh, Erasing, Syncing
<1>5. CASE StoreCol(x, "advance_col", "wrap", OneMore(reg[x]))
  <2>1. Fits(x, "advance_col", cursor_row, cursor_col, reg[x], i[x])
    BY <1>5, Current DEF StoreCol, Step, Right, Within, Places, Fresh, Erasing, Syncing
  <2>2. /\ Tells(x, "advance_col", Screen, cursor_row, cursor_col, reg[x], i[x], crtc_index,
              crtc)
        /\ ~mixed => before.color = current_color
    BY <1>5, Current DEF StoreCol, Step, Right, Within, Places, Fresh, Erasing, Syncing
  <2>3. OneMore(reg[x]) \in Nat
    BY Facts DEF OneMore
  <2>4. Right(x, "wrap", Screen, cursor_row, OneMore(reg[x]), reg[x], i[x], crtc_index,
              crtc)
    BY <2>1, <2>2, <2>3, Facts, Asking
       DEF Right, Fits, Keeps, Near, Far, Tells, Exact, Sent, Fresh, Erasing, Syncing,
                 OneMore
  <2> QED
    BY <1>5, <2>3, <2>4, StoreColKeeps DEF Within, Places, Fresh, Erasing, Syncing
<1> QED
  BY <1>1, <1>2, <1>3, <1>4, <1>5 DEF PutLetter

LEMMA WrapKeeps ==
    ASSUME ConsoleInv, NEW x \in Contexts, Wrap(x)
    PROVE  ConsoleInv'
<1>1. CASE Test(x, "wrap", AtEnd(cursor_col), "wrap_col", "check")
  <2>1. Fits(x, "wrap", cursor_row, cursor_col, reg[x], i[x])
    BY <1>1, Current DEF Test, Step, Right, Within, Places, Fresh, Erasing, Syncing
  <2>2. /\ Tells(x, "wrap", Screen, cursor_row, cursor_col, reg[x], i[x], crtc_index, crtc)
        /\ ~mixed => before.color = current_color
    BY <1>1, Current DEF Test, Step, Right, Within, Places, Fresh, Erasing, Syncing
  <2>3. (AtEnd(cursor_col)) \in BOOLEAN
    BY Facts DEF AtEnd
  <2>4. Right(x, IF AtEnd(cursor_col) THEN "wrap_col" ELSE "check", Screen, cursor_row,
              cursor_col, reg[x], i[x], crtc_index, crtc)
    <3> DEFINE to == IF AtEnd(cursor_col) THEN "wrap_col" ELSE "check"
    <3>1. Fits(x, to, cursor_row, cursor_col, reg[x], i[x])
      BY <2>1, Facts DEF AtEnd, Fits, Keeps, Near, Far, Fresh, Erasing, Syncing
    <3>2. ASSUME ~mixed
          PROVE  /\ Ask(Screen, cursor_row, cursor_col) \in Asked(before)
                 /\ cursor_col <= Width
                 /\ cursor_col < Width =>
                        \E o \in Asked(before) :
                            Screen = o.screen /\ cursor_row = RowOf(o) /\ cursor_col = ColOf(o)
      <4>1. Ask(Screen, cursor_row, cursor_col) \in Asked(before)
        BY <2>2, <3>2 DEF Tells, Exact
      <4>2. cursor_col <= Width
        <5> DEFINE o == Ask(Screen, cursor_row, cursor_col)
        <5>1. o.row = cursor_row /\ o.col = cursor_col
          BY DEF Ask
        <5> HIDE DEF o
        <5>2. Beside(o.row, o.col)
          BY <4>1, Facts, AskedFits DEF o
        <5> QED
          BY <5>1, <5>2, Facts DEF Beside
      <4> QED
        BY <4>1, <4>2, Facts, Landing
    <3>3. CASE cursor_col >= Width
      <4>1. AtEnd(cursor_col)
        BY <3>3 DEF AtEnd
      <4>2. Fits(x, "wrap_col", cursor_row, cursor_col, reg[x], i[x])
        BY <3>1, <4>1
      <4>3. ~mixed => cursor_col = Width
        BY <3>2, <3>3, Facts
      <4>4. Right(x, "wrap_col", Screen, cursor_row, cursor_col, reg[x], i[x], crtc_index, crtc)
        BY <3>2, <4>2, <4>3 DEF Right, Tells, Exact, Sent, Fresh, Erasing, Syncing
      <4> QED
        BY <4>1, <4>4
    <3>4. CASE cursor_col < Width
      <4>1. ~AtEnd(cursor_col)
        BY <3>4, Facts DEF AtEnd
      <4>2. Fits(x, "check", cursor_row, cursor_col, reg[x], i[x])
        BY <3>1, <4>1
      <4>3. Right(x, "check", Screen, cursor_row, cursor_col, reg[x], i[x], crtc_index, crtc)
        BY <3>2, <3>4, <4>2 DEF Right, Tells, Exact, Sent, Fresh, Erasing, Syncing
      <4> QED
        BY <4>1, <4>3
    <3>5. cursor_col >= Width \/ cursor_col < Width
      BY Facts
    <3> QED
      BY <3>3, <3>4, <3>5
  <2> QED
    BY <1>1, <2>3, <2>4, TestKeeps DEF Within, Places, Fresh, Erasing, Syncing
<1>2. CASE StoreCol(x, "wrap_col", "wrap_row", 0)
  <2>1. Fits(x, "wrap_col", cursor_row, cursor_col, reg[x], i[x])
    BY <1>2, Current DEF StoreCol, Step, Right, Within, Places, Fresh, Erasing, Syncing
  <2>2. /\ Tells(x, "wrap_col", Screen, cursor_row, cursor_col, reg[x], i[x], crtc_index,
              crtc)
        /\ ~mixed => before.color = current_color
    BY <1>2, Current DEF StoreCol, Step, Right, Within, Places, Fresh, Erasing, Syncing
  <2>3. 0 \in Nat
    BY Facts
  <2>4. Right(x, "wrap_row", Screen, cursor_row, 0, reg[x], i[x], crtc_index, crtc)
    BY <2>1, <2>2, <2>3, Facts
       DEF Right, Fits, Keeps, Near, Far, Tells, Exact, Sent, Fresh, Erasing, Syncing
  <2> QED
    BY <1>2, <2>3, <2>4, StoreColKeeps DEF Within, Places, Fresh, Erasing, Syncing
<1>3. CASE Load(x, "wrap_row", "wrap_set", cursor_row)
  <2>1. Fits(x, "wrap_row", cursor_row, cursor_col, reg[x], i[x])
    BY <1>3, Current DEF Load, Step, Right, Within, Places, Fresh, Erasing, Syncing
  <2>2. /\ Tells(x, "wrap_row", Screen, cursor_row, cursor_col, reg[x], i[x], crtc_index,
              crtc)
        /\ ~mixed => before.color = current_color
    BY <1>3, Current DEF Load, Step, Right, Within, Places, Fresh, Erasing, Syncing
  <2>3. cursor_row \in Nat
    BY Facts
  <2>4. Right(x, "wrap_set", Screen, cursor_row, cursor_col, cursor_row, i[x], crtc_index,
              crtc)
    BY <2>1, <2>2, <2>3, Facts
       DEF Right, Fits, Keeps, Near, Far, Tells, Exact, Sent, Fresh, Erasing, Syncing
  <2> QED
    BY <1>3, <2>3, <2>4, LoadKeeps DEF Within, Places, Fresh, Erasing, Syncing
<1>4. CASE StoreRow(x, "wrap_set", "check", OneMore(reg[x]))
  <2>1. Fits(x, "wrap_set", cursor_row, cursor_col, reg[x], i[x])
    BY <1>4, Current DEF StoreRow, Step, Right, Within, Places, Fresh, Erasing, Syncing
  <2>2. /\ Tells(x, "wrap_set", Screen, cursor_row, cursor_col, reg[x], i[x], crtc_index,
              crtc)
        /\ ~mixed => before.color = current_color
    BY <1>4, Current DEF StoreRow, Step, Right, Within, Places, Fresh, Erasing, Syncing
  <2>3. OneMore(reg[x]) \in Nat
    BY Facts DEF OneMore
  <2>4. Right(x, "check", Screen, OneMore(reg[x]), cursor_col, reg[x], i[x], crtc_index,
              crtc)
    <3> DEFINE r == OneMore(reg[x])
    <3>1. Fits(x, "check", r, cursor_col, reg[x], i[x])
      BY <2>1, Facts DEF OneMore, Fits, Keeps, Near, Far, Fresh, Erasing, Syncing
    <3>2. ASSUME ~mixed
          PROVE  \E o \in Asked(before) :
                     Screen = o.screen /\ r = RowOf(o) /\ cursor_col = ColOf(o)
      <4>1. /\ Ask(Screen, cursor_row, Width) \in Asked(before)
            /\ cursor_col = 0 /\ reg[x] = cursor_row
        BY <2>2, <3>2 DEF Tells, Exact
      <4> QED
        BY <4>1, Facts, Landing DEF OneMore
    <3> HIDE DEF r
    <3>3. Right(x, "check", Screen, r, cursor_col, reg[x], i[x], crtc_index, crtc)
      BY <3>1, <3>2 DEF Right, Tells, Exact, Sent, Fresh, Erasing, Syncing
    <3> QED
      BY <3>3 DEF r
  <2> QED
    BY <1>4, <2>3, <2>4, StoreRowKeeps DEF Within, Places, Fresh, Erasing, Syncing
<1> QED
  BY <1>1, <1>2, <1>3, <1>4 DEF Wrap, IncreaseRow

----------------------------------------------------------------------------
(* The scrolling and the cursor of the hardware *)

(* A cell that is to be copied is one that has not been moved yet. *)
LEMMA MovedSoFar ==
    ASSUME NEW b \in Terminals, NEW s \in Screens, NEW old \in Screens, NEW n \in Cells,
           Scrolled(b, s, old, n), NEW new \in Screens,
           new = [s EXCEPT ![n] = IF n + Width \in Cells THEN s[n + Width] ELSE Empty(b)]
    PROVE  /\ Scrolled(b, new, old, n + 1)
           /\ n + 1 \notin Cells => new = Moved(b, old)
<1>1. n \in Nat /\ Width \in Nat \ {0} /\ Cells \subseteq Nat
  BY ScreenAssumption, Lines
<1>2. n + Width \in Cells => s[n + Width] = old[n + Width]
  BY <1>1 DEF Scrolled
<1>3. new[n] = Moved(b, old)[n]
  BY <1>2 DEF Moved, Screens
<1>4. \A q \in Cells : q # n => new[q] = s[q]
  BY DEF Screens
<1>5. \A q \in Cells : new[q] = IF q < n + 1 THEN Moved(b, old)[q] ELSE old[q]
  BY <1>1, <1>3, <1>4 DEF Scrolled
<1>6. ASSUME n + 1 \notin Cells PROVE new = Moved(b, old)
  <2>1. \A q \in Cells : q < n + 1
    BY <1>1, <1>6, Lines
  <2>2. \A q \in Cells : new[q] = Moved(b, old)[q]
    BY <1>5, <2>1
  <2>3. Moved(b, old) \in Screens
    BY Marks DEF Blank
  <2> QED
    BY <2>2, <2>3 DEF Screens
<1> QED
  BY <1>5, <1>6 DEF Scrolled

LEMMA ScrollKeeps ==
    ASSUME ConsoleInv, NEW x \in Contexts, Scroll(x)
    PROVE  ConsoleInv'
<1>1. CASE Test(x, "check", Below(cursor_row), "scroll", "sync")
  <2>1. Fits(x, "check", cursor_row, cursor_col, reg[x], i[x])
    BY <1>1, Current DEF Test, Step, Right, Within, Places, Fresh, Erasing, Syncing
  <2>2. /\ Tells(x, "check", Screen, cursor_row, cursor_col, reg[x], i[x], crtc_index, crtc)
        /\ ~mixed => before.color = current_color
    BY <1>1, Current DEF Test, Step, Right, Within, Places, Fresh, Erasing, Syncing
  <2>3. (Below(cursor_row)) \in BOOLEAN
    BY Facts DEF Below
  <2>4. Right(x, IF Below(cursor_row) THEN "scroll" ELSE "sync", Screen, cursor_row,
              cursor_col, reg[x], i[x], crtc_index, crtc)
    <3> DEFINE to == IF Below(cursor_row) THEN "scroll" ELSE "sync"
    <3>1. Fits(x, to, cursor_row, cursor_col, reg[x], i[x])
      BY <2>1, Facts, Lines DEF Below, Fits, Keeps, Near, Far, Fresh, Erasing, Syncing
    <3>2. ASSUME ~mixed, NEW o \in Asked(before), Screen = o.screen, cursor_row = RowOf(o),
                 cursor_col = ColOf(o)
          PROVE  /\ cursor_row < Height => Shown(before, o, Screen, cursor_row, cursor_col)
                 /\ Scrolled(before, Screen, o.screen, 0)
      <4>1. cursor_row < Height => Shown(before, o, Screen, cursor_row, cursor_col)
        BY <3>2 DEF Shown
      <4>2. \A q \in Cells : ~(q < 0)
        BY Lines
      <4> QED
        BY <3>2, <4>1, <4>2 DEF Scrolled
    <3>3. ASSUME ~mixed
          PROVE  \E o \in Asked(before) :
                     Screen = o.screen /\ cursor_row = RowOf(o) /\ cursor_col = ColOf(o)
      BY <2>2, <3>3 DEF Tells, Exact
    <3>4. i[x] = 0
      BY <2>1, Facts DEF Fits, Keeps, Far, Fresh
    <3>5. ~mixed => /\ cursor_row < Height =>
                           \E o \in Asked(before) :
                               Shown(before, o, Screen, cursor_row, cursor_col)
                    /\ \E o \in Asked(before) :
                           /\ cursor_row = RowOf(o) /\ cursor_col = ColOf(o)
                           /\ Scrolled(before, Screen, o.screen, i[x])
      BY <3>2, <3>3, <3>4
    <3> QED
      BY <3>1, <3>5, Facts DEF Below, Right, Tells, Exact, Sent, Fresh, Erasing, Syncing
  <2> QED
    BY <1>1, <2>3, <2>4, TestKeeps DEF Within, Places, Fresh, Erasing, Syncing
<1>2. ASSUME Step(x, "scroll", IF i[x] + 1 \in Cells THEN "scroll" ELSE "scrolled"),
             buf' = [buf EXCEPT ![i[x]] =
                 IF i[x] < (Height - 1) * Width THEN buf[CopiedFrom(i[x])] ELSE Cell(Blank)],
             i' = [i EXCEPT ![x] = @ + 1], UNCHANGED <<cursor, device, reg>>
      PROVE  ConsoleInv'
  <2> DEFINE to == IF i[x] + 1 \in Cells THEN "scroll" ELSE "scrolled"
             n == i[x]
  <2>1. Fits(x, "scroll", cursor_row, cursor_col, reg[x], n)
    BY <1>2, Current DEF Step, Right, Within, Places, Fresh, Erasing, Syncing
  <2>2. /\ Tells(x, "scroll", Screen, cursor_row, cursor_col, reg[x], n, crtc_index, crtc)
        /\ ~mixed => before.color = current_color
    BY <1>2, Current DEF Step, Right, Within, Places, Fresh, Erasing, Syncing
  <2>3. n \in Cells /\ n \in Nat
    BY <2>1, Facts DEF Fits, Keeps, Far
  <2>4. (n < (Height - 1) * Width <=> n + Width \in Cells) /\ Cells \subseteq Memory
    BY <2>3, Lines
  <2> DEFINE paint == IF n + Width \in Cells THEN Screen[n + Width] ELSE Cell(Blank)
  <2>5. paint \in Paint /\ buf' = [buf EXCEPT ![n] = paint]
    <3>1. n + Width \in Cells => buf[CopiedFrom(n)] = Screen[n + Width]
      BY DEF CopiedFrom, Screen
    <3>2. n + Width \in Cells => Screen[n + Width] \in Paint
      BY Facts DEF Screens
    <3>3. Cell(Blank) \in Paint
      BY DEF ConsoleInv, Typed, Cell, Paint, Blank
    <3> QED
      BY <1>2, <2>4, <3>1, <3>2, <3>3
  <2>6. /\ buf' \in [Memory -> Paint] /\ Screen' = [Screen EXCEPT ![n] = paint]
        /\ Screen' \in Screens
    <3>1. buf' \in [Memory -> Paint] /\ Screen' = [Screen EXCEPT ![n] = paint]
      BY <2>3, <2>4, <2>5, WriteCell DEF ConsoleInv
    <3> QED
      BY <2>5, <3>1, Facts DEF Screens
  <2>7. i' \in [Contexts -> Nat] /\ i'[x] = n + 1 /\ \A y \in Contexts \ {x} : i'[y] = i[y]
    BY <1>2, <2>3 DEF ConsoleInv, Typed
  <2>8. Fits(x, to, cursor_row, cursor_col, reg[x], n + 1)
    BY <2>1, Facts DEF Fits, Keeps, Near, Far, Fresh, Erasing, Syncing
  <2>9. ASSUME ~mixed
        PROVE  \E o \in Asked(before) :
                   /\ cursor_row = RowOf(o) /\ cursor_row >= Height /\ cursor_col = ColOf(o)
                   /\ Scrolled(before, Screen', o.screen, n + 1)
                   /\ n + 1 \notin Cells => Screen' = Moved(before, o.screen)
    <3>1. PICK o \in Asked(before) :
              /\ cursor_row = RowOf(o) /\ cursor_row >= Height /\ cursor_col = ColOf(o)
              /\ Scrolled(before, Screen, o.screen, n)
      BY <2>2, <2>9 DEF Tells, Exact
    <3>2. o.screen \in Screens
      BY Facts, AskedFits
    <3>3. Cell(Blank) = Empty(before)
      BY <2>2, <2>9 DEF Cell, Empty, Mark
    <3>4. Screen' = [Screen EXCEPT ![n] = IF n + Width \in Cells THEN Screen[n + Width]
                                          ELSE Empty(before)]
      BY <2>6, <3>3
    <3> DEFINE new == Screen'
               old == o.screen
    <3>5. /\ n \in Cells /\ new \in Screens /\ old \in Screens
          /\ before \in Terminals /\ Screen \in Screens
          /\ Scrolled(before, Screen, old, n)
          /\ new = [Screen EXCEPT ![n] = IF n + Width \in Cells THEN Screen[n + Width]
                                         ELSE Empty(before)]
      BY <2>3, <2>6, <3>1, <3>2, <3>4, Facts
    <3> HIDE DEF n, paint, new, old
    <3>6. /\ Scrolled(before, new, old, n + 1)
          /\ n + 1 \notin Cells => new = Moved(before, old)
      BY <3>5, MovedSoFar, ZenonT(40)
    <3> QED
      BY <3>1, <3>6 DEF new, old
  <2>10. /\ cursor_row' = cursor_row /\ cursor_col' = cursor_col /\ reg' = reg
         /\ crtc_index' = crtc_index /\ crtc' = crtc
    BY <1>2 DEF cursor, device
  <2>11. Right(x, to, Screen', cursor_row', cursor_col', reg'[x], i'[x], crtc_index', crtc')
    BY <2>7, <2>8, <2>9, <2>10 DEF Right, Tells, Exact, Sent, Fresh, Erasing, Syncing
  <2>12. Step(x, "scroll", to)
    BY <1>2
  <2>13. to \in Within /\ "scroll" \in Within /\ to \notin Erasing
    BY DEF Within, Places, Fresh, Erasing, Syncing
  <2> HIDE DEF to
  <2> QED
    BY <2>6, <2>7, <2>10, <2>11, <2>12, <2>13, StepKeeps DEF ConsoleInv, Typed
<1>3. CASE StoreRow(x, "scrolled", "sync", Height - 1)
  <2>1. Fits(x, "scrolled", cursor_row, cursor_col, reg[x], i[x])
    BY <1>3, Current DEF StoreRow, Step, Right, Within, Places, Fresh, Erasing, Syncing
  <2>2. /\ Tells(x, "scrolled", Screen, cursor_row, cursor_col, reg[x], i[x], crtc_index,
              crtc)
        /\ ~mixed => before.color = current_color
    BY <1>3, Current DEF StoreRow, Step, Right, Within, Places, Fresh, Erasing, Syncing
  <2>3. Height - 1 \in Nat
    BY Facts
  <2>4. Right(x, "sync", Screen, Height - 1, cursor_col, reg[x], i[x], crtc_index, crtc)
    <3> DEFINE r == Height - 1
    <3>1. Fits(x, "sync", r, cursor_col, reg[x], i[x])
      BY <2>1, Facts DEF Fits, Keeps, Near, Far, Fresh, Erasing, Syncing
    <3>2. ASSUME ~mixed
          PROVE  \E o \in Asked(before) : Shown(before, o, Screen, r, cursor_col)
      <4>1. PICK o \in Asked(before) : /\ RowOf(o) >= Height /\ cursor_col = ColOf(o)
                                       /\ Screen = Moved(before, o.screen)
        BY <2>2, <3>2 DEF Tells, Exact
      <4>2. RowOf(o) \in 0..Height
        BY Facts, AskedFits
      <4>3. Shown(before, o, Screen, r, cursor_col)
        BY <4>1, <4>2, Facts DEF Shown
      <4> QED
        BY <4>3
    <3> HIDE DEF r
    <3>3. Right(x, "sync", Screen, r, cursor_col, reg[x], i[x], crtc_index, crtc)
      BY <3>1, <3>2 DEF Right, Tells, Exact, Sent, Fresh, Erasing, Syncing
    <3> QED
      BY <3>3 DEF r
  <2> QED
    BY <1>3, <2>3, <2>4, StoreRowKeeps DEF Within, Places, Fresh, Erasing, Syncing
<1> QED
  BY <1>1, <1>2, <1>3 DEF Scroll

(* A step that goes to the ports of the CRTC *)
LEMMA PortKeeps ==
    ASSUME ConsoleInv, NEW x \in Contexts, NEW from \in Within, NEW to \in Within \ Erasing,
           Step(x, from, to), crtc_index' \in {"HI", "LO"}, crtc' \in [{"HI", "LO"} -> Nat],
           UNCHANGED <<buf, cursor, reg, i>>,
           Right(x, to, Screen, cursor_row, cursor_col, reg[x], i[x], crtc_index', crtc')
    PROVE  ConsoleInv'
<1>1. UNCHANGED <<buf, cursor_row, cursor_col, reg, i>> /\ Screen' = Screen
  BY DEF cursor, Screen
<1> QED
  BY <1>1, StepKeeps DEF ConsoleInv, Typed

LEMMA SyncCursorKeeps ==
    ASSUME ConsoleInv, NEW x \in Contexts, SyncCursor(x)
    PROVE  ConsoleInv'
<1>1. CASE Load(x, "sync", "sync_at", cursor_row)
  <2>1. Fits(x, "sync", cursor_row, cursor_col, reg[x], i[x])
    BY <1>1, Current DEF Load, Step, Right, Within, Places, Fresh, Erasing, Syncing
  <2>2. /\ Tells(x, "sync", Screen, cursor_row, cursor_col, reg[x], i[x], crtc_index, crtc)
        /\ ~mixed => before.color = current_color
    BY <1>1, Current DEF Load, Step, Right, Within, Places, Fresh, Erasing, Syncing
  <2>3. cursor_row \in Nat
    BY Facts
  <2>4. Right(x, "sync_at", Screen, cursor_row, cursor_col, cursor_row, i[x], crtc_index,
              crtc)
    BY <2>1, <2>2, <2>3, Facts
       DEF Right, Fits, Keeps, Near, Far, Tells, Exact, Sent, Fresh, Erasing, Syncing
  <2> QED
    BY <1>1, <2>3, <2>4, LoadKeeps DEF Within, Places, Fresh, Erasing, Syncing
<1>2. CASE Load(x, "sync_at", "select_high", Address(x))
  <2>1. Fits(x, "sync_at", cursor_row, cursor_col, reg[x], i[x])
    BY <1>2, Current DEF Load, Step, Right, Within, Places, Fresh, Erasing, Syncing
  <2>2. /\ Tells(x, "sync_at", Screen, cursor_row, cursor_col, reg[x], i[x], crtc_index,
              crtc)
        /\ ~mixed => before.color = current_color
    BY <1>2, Current DEF Load, Step, Right, Within, Places, Fresh, Erasing, Syncing
  <2>3. Address(x) \in Nat
    BY Facts, Positions DEF Address
  <2>4. Right(x, "select_high", Screen, cursor_row, cursor_col, Address(x), i[x],
              crtc_index, crtc)
    <3> DEFINE g == Address(x)
    <3>1. Fits(x, "select_high", cursor_row, cursor_col, g, i[x])
      BY <2>1, Facts DEF Fits, Keeps, Near, Far, Fresh, Erasing, Syncing
    <3>2. ASSUME ~mixed PROVE g = cursor_row * Width + cursor_col
      BY <2>2, <3>2 DEF Tells, Sent, Address
    <3> HIDE DEF g
    <3>3. Right(x, "select_high", Screen, cursor_row, cursor_col, g, i[x], crtc_index, crtc)
      BY <2>2, <3>1, <3>2 DEF Right, Tells, Exact, Sent, Fresh, Erasing, Syncing
    <3> QED
      BY <3>3 DEF g
  <2> QED
    BY <1>2, <2>3, <2>4, LoadKeeps DEF Within, Places, Fresh, Erasing, Syncing
<1>3. CASE SelectRegister(x, "select_high", "high", "HI")
  <2>1. Fits(x, "select_high", cursor_row, cursor_col, reg[x], i[x])
    BY <1>3, Current DEF SelectRegister, Step, Right, Within, Places, Fresh, Erasing, Syncing
  <2>2. Tells(x, "select_high", Screen, cursor_row, cursor_col, reg[x], i[x], crtc_index, crtc)
    BY <1>3, Current DEF SelectRegister, Step, Right, Within, Places, Fresh, Erasing, Syncing
  <2>3. Fits(x, "high", cursor_row, cursor_col, reg[x], i[x])
    BY <2>1, Facts DEF Fits, Keeps, Near, Far, Fresh, Erasing, Syncing
  <2>4. Right(x, "high", Screen, cursor_row, cursor_col, reg[x], i[x], "HI", crtc)
    BY <2>2, <2>3 DEF Right, Tells, Exact, Sent, Fresh, Erasing, Syncing
  <2> QED
    BY <1>3, <2>4, PortKeeps
       DEF SelectRegister, ConsoleInv, Typed, Within, Places, Fresh, Erasing, Syncing
<1>4. ASSUME Step(x, "high", "select_low"), crtc' = [crtc EXCEPT ![crtc_index] = High(reg[x])],
             UNCHANGED <<buf, cursor, crtc_index, reg, i>>
      PROVE  ConsoleInv'
  <2>1. Fits(x, "high", cursor_row, cursor_col, reg[x], i[x])
    BY <1>4, Current DEF Step, Right, Within, Places, Fresh, Erasing, Syncing
  <2>2. Tells(x, "high", Screen, cursor_row, cursor_col, reg[x], i[x], crtc_index, crtc)
    BY <1>4, Current DEF Step, Right, Within, Places, Fresh, Erasing, Syncing
  <2>3. Fits(x, "select_low", cursor_row, cursor_col, reg[x], i[x])
    BY <2>1, Facts DEF Fits, Keeps, Near, Far, Fresh, Erasing, Syncing
  <2>4. High(reg[x]) \in Nat
    BY Facts, ScreenAssumption DEF High, Low, LowByte
  <2>5. crtc' \in [{"HI", "LO"} -> Nat]
    BY <1>4, <2>4 DEF ConsoleInv, Typed
  <2>6. ~mixed => crtc'["HI"] = High(reg[x])
    BY <1>4, <2>2 DEF Tells, Sent, ConsoleInv, Typed
  <2>7. Right(x, "select_low", Screen, cursor_row, cursor_col, reg[x], i[x], crtc_index, crtc')
    BY <2>2, <2>3, <2>6 DEF Right, Tells, Exact, Sent, Fresh, Erasing, Syncing
  <2> QED
    BY <1>4, <2>5, <2>7, PortKeeps
       DEF ConsoleInv, Typed, Within, Places, Fresh, Erasing, Syncing
<1>5. CASE SelectRegister(x, "select_low", "low", "LO")
  <2>1. Fits(x, "select_low", cursor_row, cursor_col, reg[x], i[x])
    BY <1>5, Current DEF SelectRegister, Step, Right, Within, Places, Fresh, Erasing, Syncing
  <2>2. Tells(x, "select_low", Screen, cursor_row, cursor_col, reg[x], i[x], crtc_index, crtc)
    BY <1>5, Current DEF SelectRegister, Step, Right, Within, Places, Fresh, Erasing, Syncing
  <2>3. Fits(x, "low", cursor_row, cursor_col, reg[x], i[x])
    BY <2>1, Facts DEF Fits, Keeps, Near, Far, Fresh, Erasing, Syncing
  <2>4. Right(x, "low", Screen, cursor_row, cursor_col, reg[x], i[x], "LO", crtc)
    BY <2>2, <2>3 DEF Right, Tells, Exact, Sent, Fresh, Erasing, Syncing
  <2> QED
    BY <1>5, <2>4, PortKeeps
       DEF SelectRegister, ConsoleInv, Typed, Within, Places, Fresh, Erasing, Syncing
<1>6. ASSUME Step(x, "low", "done"), crtc' = [crtc EXCEPT ![crtc_index] = LowByte(reg[x])],
             UNCHANGED <<buf, cursor, crtc_index, reg, i>>
      PROVE  ConsoleInv'
  <2>1. Fits(x, "low", cursor_row, cursor_col, reg[x], i[x])
    BY <1>6, Current DEF Step, Right, Within, Places, Fresh, Erasing, Syncing
  <2>2. Tells(x, "low", Screen, cursor_row, cursor_col, reg[x], i[x], crtc_index, crtc)
    BY <1>6, Current DEF Step, Right, Within, Places, Fresh, Erasing, Syncing
  <2>3. Fits(x, "done", cursor_row, cursor_col, reg[x], i[x])
    BY <2>1, Facts DEF Fits, Keeps, Near, Far, Fresh, Erasing, Syncing
  <2>4. LowByte(reg[x]) \in Nat
    BY Facts, ScreenAssumption DEF High, Low, LowByte
  <2>5. crtc' \in [{"HI", "LO"} -> Nat]
    BY <1>6, <2>4 DEF ConsoleInv, Typed
  <2>6. ~mixed => crtc' = [HI |-> High(cursor_row * Width + cursor_col),
                           LO |-> Low(cursor_row * Width + cursor_col)]
    <3>1. SUFFICES ASSUME ~mixed
                   PROVE  crtc' = [HI |-> High(cursor_row * Width + cursor_col),
                                   LO |-> Low(cursor_row * Width + cursor_col)]
      OBVIOUS
    <3>2. /\ reg[x] = cursor_row * Width + cursor_col /\ crtc_index = "LO"
          /\ crtc["HI"] = High(reg[x])
      BY <2>2, <3>1 DEF Tells, Sent
    <3> DEFINE h == High(reg[x])
               l == Low(reg[x])
    <3>3. crtc' = [crtc EXCEPT !["LO"] = l] /\ crtc["HI"] = h /\ crtc \in [{"HI", "LO"} -> Nat]
      BY <1>6, <3>2 DEF LowByte, ConsoleInv, Typed
    <3> HIDE DEF h, l
    <3>4. crtc' = [HI |-> h, LO |-> l]
      BY <3>3
    <3> QED
      BY <3>2, <3>4 DEF h, l
  <2>7. Right(x, "done", Screen, cursor_row, cursor_col, reg[x], i[x], crtc_index, crtc')
    BY <2>2, <2>3, <2>6 DEF Right, Tells, Exact, Sent, Fresh, Erasing, Syncing
  <2> QED
    BY <1>6, <2>5, <2>7, PortKeeps
       DEF ConsoleInv, Typed, Within, Places, Fresh, Erasing, Syncing
<1> QED
  BY <1>1, <1>2, <1>3, <1>4, <1>5, <1>6 DEF SyncCursor

----------------------------------------------------------------------------
(* vga_clear and vga_move_cursor *)

LEMMA ClearKeeps ==
    ASSUME ConsoleInv, NEW x \in Contexts, Clear(x)
    PROVE  ConsoleInv'
<1>1. ASSUME Step(x, "clear", IF i[x] + 1 \in Cells THEN "clear" ELSE "clear_row"),
             buf' = [buf EXCEPT ![i[x]] = Cell(Blank)], i' = [i EXCEPT ![x] = @ + 1],
             UNCHANGED <<cursor, device, reg>>
      PROVE  ConsoleInv'
  <2> DEFINE to == IF i[x] + 1 \in Cells THEN "clear" ELSE "clear_row"
             n == i[x]
  <2>1. Fits(x, "clear", cursor_row, cursor_col, reg[x], n)
    BY <1>1, Current DEF Step, Right, Within, Places, Fresh, Erasing, Syncing
  <2>2. /\ Tells(x, "clear", Screen, cursor_row, cursor_col, reg[x], n, crtc_index, crtc)
        /\ ~mixed => before.color = current_color
    BY <1>1, Current DEF Step, Right, Within, Places, Fresh, Erasing, Syncing
  <2>3. n \in Cells /\ n \in Nat /\ Cells \subseteq Memory
    BY <2>1, Facts, Lines DEF Fits, Keeps, Far
  <2>4. Cell(Blank) \in Paint
    BY DEF ConsoleInv, Typed, Cell, Paint, Blank
  <2>5. /\ buf' \in [Memory -> Paint] /\ Screen' = [Screen EXCEPT ![n] = Cell(Blank)]
        /\ Screen' \in Screens
    <3>1. buf' \in [Memory -> Paint] /\ Screen' = [Screen EXCEPT ![n] = Cell(Blank)]
      BY <1>1, <2>3, <2>4, WriteCell DEF ConsoleInv
    <3> QED
      BY <2>4, <3>1, Facts DEF Screens
  <2>6. i' \in [Contexts -> Nat] /\ i'[x] = n + 1 /\ \A y \in Contexts \ {x} : i'[y] = i[y]
    <3>1. i \in [Contexts -> Nat] /\ n \in Nat
      BY <2>3 DEF ConsoleInv, Typed
    <3>2. i' = [i EXCEPT ![x] = n + 1]
      BY <1>1
    <3> QED
      BY <3>1, <3>2
  <2>7. Fits(x, to, cursor_row, cursor_col, reg[x], n + 1)
    BY <2>1, Facts DEF Fits, Keeps, Near, Far, Fresh, Erasing, Syncing
  <2>8. ASSUME ~mixed
        PROVE  /\ \A q \in Cells : q < n + 1 => (Screen')[q] = Empty(before)
               /\ n + 1 \notin Cells => Screen' = AllEmpty(before)
    <3>1. Cell(Blank) = Empty(before)
      BY <2>2, <2>8 DEF Cell, Empty, Mark
    <3>2. \A q \in Cells : q < n => Screen[q] = Empty(before)
      BY <2>2, <2>8 DEF Tells, Exact
    <3> DEFINE new == Screen'
    <3>3. new = [Screen EXCEPT ![n] = Empty(before)] /\ new \in Screens
      BY <2>5, <3>1
    <3> HIDE DEF new
    <3>4. \A q \in Cells : q < n + 1 => new[q] = Empty(before)
      BY <2>3, <3>2, <3>3, Facts, Lines DEF Screens
    <3>5. ASSUME n + 1 \notin Cells PROVE new = AllEmpty(before)
      <4>1. \A q \in Cells : q < n + 1
        BY <2>3, <3>5, Lines
      <4>2. \A q \in Cells : new[q] = AllEmpty(before)[q]
        BY <3>4, <4>1 DEF AllEmpty
      <4>3. AllEmpty(before) \in Screens
        BY Facts, Marks DEF Blank
      <4> QED
        BY <3>3, <4>2, <4>3 DEF Screens
    <3> QED
      BY <3>4, <3>5 DEF new
  <2>9. /\ cursor_row' = cursor_row /\ cursor_col' = cursor_col /\ reg' = reg
        /\ crtc_index' = crtc_index /\ crtc' = crtc
    BY <1>1 DEF cursor, device
  <2>10. Right(x, to, Screen', cursor_row', cursor_col', reg'[x], i'[x], crtc_index', crtc')
    BY <2>6, <2>7, <2>8, <2>9 DEF Right, Tells, Exact, Sent, Fresh, Erasing, Syncing
  <2>11. Step(x, "clear", to)
    BY <1>1
  <2>12. to \in Within /\ "clear" \in Within /\ to \notin Erasing
    BY DEF Within, Places, Fresh, Erasing, Syncing
  <2> HIDE DEF to
  <2> QED
    BY <2>5, <2>6, <2>9, <2>10, <2>11, <2>12, StepKeeps DEF ConsoleInv, Typed
<1>2. CASE StoreRow(x, "clear_row", "clear_col", 0)
  <2>1. Fits(x, "clear_row", cursor_row, cursor_col, reg[x], i[x])
    BY <1>2, Current DEF StoreRow, Step, Right, Within, Places, Fresh, Erasing, Syncing
  <2>2. /\ Tells(x, "clear_row", Screen, cursor_row, cursor_col, reg[x], i[x], crtc_index,
              crtc)
        /\ ~mixed => before.color = current_color
    BY <1>2, Current DEF StoreRow, Step, Right, Within, Places, Fresh, Erasing, Syncing
  <2>3. 0 \in Nat
    BY Facts
  <2>4. Right(x, "clear_col", Screen, 0, cursor_col, reg[x], i[x], crtc_index, crtc)
    BY <2>1, <2>2, <2>3, Facts
       DEF Right, Fits, Keeps, Near, Far, Tells, Exact, Sent, Fresh, Erasing, Syncing
  <2> QED
    BY <1>2, <2>3, <2>4, StoreRowKeeps DEF Within, Places, Fresh, Erasing, Syncing
<1>3. CASE StoreCol(x, "clear_col", "sync", 0)
  <2>1. Fits(x, "clear_col", cursor_row, cursor_col, reg[x], i[x])
    BY <1>3, Current DEF StoreCol, Step, Right, Within, Places, Fresh, Erasing, Syncing
  <2>2. /\ Tells(x, "clear_col", Screen, cursor_row, cursor_col, reg[x], i[x], crtc_index,
              crtc)
        /\ ~mixed => before.color = current_color
    BY <1>3, Current DEF StoreCol, Step, Right, Within, Places, Fresh, Erasing, Syncing
  <2>3. 0 \in Nat
    BY Facts
  <2>4. Right(x, "sync", Screen, cursor_row, 0, reg[x], i[x], crtc_index, crtc)
    <3>1. Fits(x, "sync", cursor_row, 0, reg[x], i[x])
      BY <2>1, Facts DEF Fits, Keeps, Near, Far, Fresh, Erasing, Syncing
    <3>2. ASSUME ~mixed
          PROVE  \E o \in Asked(before) : Shown(before, o, Screen, cursor_row, 0)
      <4> DEFINE o == Ask(Screen, cursor_row, 0)
      <4>1. o \in Asked(before) /\ cursor_row = 0
        <5>1. Screen = AllEmpty(before) /\ cursor_row = 0
          BY <2>2, <3>2 DEF Tells, Exact, Syncing
        <5> QED
          BY <5>1, Facts, Asking
      <4>2. /\ o.screen = Screen /\ o.row = cursor_row /\ o.col = 0
        BY DEF Ask
      <4> HIDE DEF o
      <4>3. o.col < Width => RowOf(o) = o.row /\ ColOf(o) = o.col
        BY <4>1, Facts, AskedFits
      <4>4. Shown(before, o, Screen, cursor_row, 0)
        BY <4>1, <4>2, <4>3, Facts DEF Shown
      <4> QED
        BY <4>1, <4>4
    <3>3. Right(x, "sync", Screen, cursor_row, 0, reg[x], i[x], crtc_index, crtc)
      BY <3>1, <3>2 DEF Right, Tells, Exact, Sent, Fresh, Erasing, Syncing
    <3> QED
      BY <3>3
  <2> QED
    BY <1>3, <2>3, <2>4, StoreColKeeps DEF Within, Places, Fresh, Erasing, Syncing
<1> QED
  BY <1>1, <1>2, <1>3 DEF Clear

LEMMA MoveCursorKeeps ==
    ASSUME ConsoleInv, NEW x \in Contexts, MoveCursor(x)
    PROVE  ConsoleInv'
<1>1. CASE StoreRow(x, "move_row", "move_col", i[x])
  <2>1. Fits(x, "move_row", cursor_row, cursor_col, reg[x], i[x])
    BY <1>1, Current DEF StoreRow, Step, Right, Within, Places, Fresh, Erasing, Syncing
  <2>2. /\ Tells(x, "move_row", Screen, cursor_row, cursor_col, reg[x], i[x], crtc_index,
              crtc)
        /\ ~mixed => before.color = current_color
    BY <1>1, Current DEF StoreRow, Step, Right, Within, Places, Fresh, Erasing, Syncing
  <2>3. i[x] \in Nat
    BY Facts
  <2>4. Right(x, "move_col", Screen, i[x], cursor_col, reg[x], i[x], crtc_index, crtc)
    BY <2>1, <2>2, <2>3, Facts
       DEF Right, Fits, Keeps, Near, Far, Tells, Exact, Sent, Fresh, Erasing, Syncing
  <2> QED
    BY <1>1, <2>3, <2>4, StoreRowKeeps DEF Within, Places, Fresh, Erasing, Syncing
<1>2. CASE StoreCol(x, "move_col", "sync", reg[x])
  <2>1. Fits(x, "move_col", cursor_row, cursor_col, reg[x], i[x])
    BY <1>2, Current DEF StoreCol, Step, Right, Within, Places, Fresh, Erasing, Syncing
  <2>2. /\ Tells(x, "move_col", Screen, cursor_row, cursor_col, reg[x], i[x], crtc_index,
              crtc)
        /\ ~mixed => before.color = current_color
    BY <1>2, Current DEF StoreCol, Step, Right, Within, Places, Fresh, Erasing, Syncing
  <2>3. reg[x] \in Nat
    BY Facts
  <2>4. Right(x, "sync", Screen, cursor_row, reg[x], reg[x], i[x], crtc_index, crtc)
    <3>1. Fits(x, "sync", cursor_row, reg[x], reg[x], i[x])
      BY <2>1, Facts DEF Fits, Keeps, Near, Far, Fresh, Erasing, Syncing
    <3>2. ASSUME ~mixed
          PROVE  \E o \in Asked(before) : Shown(before, o, Screen, cursor_row, reg[x])
      <4> DEFINE o == Ask(Screen, cursor_row, reg[x])
      <4>1. o \in Asked(before) /\ cursor_row < Height /\ reg[x] < Width
        <5>1. Screen = before.screen /\ cursor_row < Height
          BY <2>2, <3>2 DEF Tells, Exact
        <5>2. reg[x] < Width
          BY <2>1, Facts DEF Fits, Keeps, Far
        <5>3. cursor_row \in 0..(Height - 1) /\ reg[x] \in 0..(Width - 1)
          BY <5>1, <5>2, Facts
        <5> QED
          BY <5>1, <5>2, <5>3, Facts, Asking
      <4>2. /\ o.screen = Screen /\ o.row = cursor_row /\ o.col = reg[x]
        BY DEF Ask
      <4> HIDE DEF o
      <4>3. o.col < Width => RowOf(o) = o.row /\ ColOf(o) = o.col
        BY <4>1, Facts, AskedFits
      <4>4. Shown(before, o, Screen, cursor_row, reg[x])
        BY <4>1, <4>2, <4>3, Facts DEF Shown
      <4> QED
        BY <4>1, <4>4
    <3>3. Right(x, "sync", Screen, cursor_row, reg[x], reg[x], i[x], crtc_index, crtc)
      BY <3>1, <3>2 DEF Right, Tells, Exact, Sent, Fresh, Erasing, Syncing
    <3> QED
      BY <3>3
  <2> QED
    BY <1>2, <2>3, <2>4, StoreColKeeps DEF Within, Places, Fresh, Erasing, Syncing
<1> QED
  BY <1>1, <1>2 DEF MoveCursor

LEMMA FinishKeeps ==
    ASSUME ConsoleInv, NEW x \in Contexts, Finish(x)
    PROVE  ConsoleInv'
<1>1. /\ running = x /\ pc[x] = "done" /\ pc' = [pc EXCEPT ![x] = "idle"]
      /\ c' = [c EXCEPT ![x] = Blank] /\ reg' = [reg EXCEPT ![x] = 0]
      /\ i' = [i EXCEPT ![x] = 0] /\ mixed' = (mixed /\ x # 0)
      /\ UNCHANGED <<buf, cursor_row, cursor_col, crtc_index, crtc, current_color, enabled,
                     running, text, before>>
  BY DEF Finish, cursor, device, control
<1>2. Contexts = {0, 1} /\ pc \in [Contexts -> Places]
  BY DEF Contexts, ConsoleInv, Typed
<1>3. Typed'
  BY <1>1 DEF ConsoleInv, Typed, Places, Blank
<1>4. Nested'
  BY <1>1, <1>2 DEF ConsoleInv, Nested, Erasing
<1>5. CursorFits'
  <2>1. CASE x = 0
    <3>1. pc'[0] = "idle" /\ pc'[1] = "idle" /\ pc[1] = "idle"
      BY <1>1, <1>2, <2>1 DEF ConsoleInv, Nested
    <3>2. Near("done", cursor_row, cursor_col)
      BY <1>1, <2>1, <3>1 DEF ConsoleInv, CursorFits
    <3> QED
      BY <1>1, <3>1, <3>2 DEF CursorFits, Keeps, Near, Fresh, Erasing
  <2>2. CASE x = 1
    <3>1. pc'[0] = pc[0] /\ pc'[1] = "idle" /\ reg'[0] = reg[0] /\ i'[0] = i[0]
      BY <1>1, <1>2, <2>2 DEF ConsoleInv, Typed
    <3>2. cursor_row < Height /\ cursor_col < Width
      BY <1>1, <2>2 DEF ConsoleInv, CursorFits, Far, Syncing
    <3>3. pc[0] # "back"
      BY <1>1, <2>2 DEF ConsoleInv, Nested, Erasing
    <3> QED
      BY <1>1, <3>1, <3>2, <3>3 DEF ConsoleInv, CursorFits, Near
  <2> QED
    BY <1>2, <2>1, <2>2
<1>6. Undisturbed'
  <2>1. ~mixed' => \A y \in Contexts : pc'[y] = "idle"
    BY <1>1, <1>2 DEF ConsoleInv, Nested
  <2> QED
    BY <1>2, <2>1 DEF Undisturbed, Tells, Settled
<1> QED
  BY <1>3, <1>4, <1>5, <1>6 DEF ConsoleInv

LEMMA ProceedKeeps ==
    ASSUME ConsoleInv, NEW x \in Contexts, Proceed(x)
    PROVE  ConsoleInv'
BY PutNewLineKeeps, PutReturnKeeps, PutTabKeeps, PutBackspaceKeeps, PutLetterKeeps, WrapKeeps,
   ScrollKeeps, SyncCursorKeeps, FinishKeeps, ClearKeeps, MoveCursorKeeps DEF Proceed

----------------------------------------------------------------------------
(* Calls, and the handler between them *)

(* Between calls the console is a terminal. *)
LEMMA AtRest ==
    ASSUME ConsoleInv, Settled
    PROVE  /\ Picture \in Terminals /\ Picture.screen = Screen /\ Picture.row = cursor_row
           /\ Picture.col = cursor_col /\ Picture.color = current_color
<1>1. cursor_row < Height /\ cursor_col < Width
  BY DEF ConsoleInv, CursorFits, Settled, Near
<1>2. cursor_row \in 0..(Height - 1) /\ cursor_col \in 0..(Width - 1)
  BY <1>1, ScreenAssumption DEF ConsoleInv, Typed
<1>3. Screen \in Screens /\ current_color \in Colors
  BY Facts DEF Contexts, ConsoleInv, Typed
<1>4. Picture = [screen |-> Screen, row |-> cursor_row, col |-> cursor_col,
                 color |-> current_color]
  BY DEF Picture, Screen
<1> QED
  BY <1>2, <1>3, <1>4 DEF Terminals

LEMMA BeginKeeps ==
    ASSUME ConsoleInv, NEW x \in Contexts, NEW entry \in Within \ Syncing, NEW ch \in Nat,
           NEW r \in Nat, NEW k \in Nat, Begin(x, entry, ch, r, k),
           text' \in Seq(Nat), \A m \in 1..Len(text') : text'[m] \in Printable \cup Controls,
           entry \in Erasing => x = 1 \/ ~enabled,
           Fits(x, entry, cursor_row, cursor_col, k, r),
           Settled => Exact(Picture, entry, Screen, cursor_row, cursor_col, ch, k, r)
    PROVE  ConsoleInv'
<1>1. /\ running = x /\ pc[x] = "idle" /\ pc' = [pc EXCEPT ![x] = entry]
      /\ c' = [c EXCEPT ![x] = ch] /\ i' = [i EXCEPT ![x] = r] /\ reg' = [reg EXCEPT ![x] = k]
      /\ before' = IF Settled THEN Picture ELSE before
      /\ UNCHANGED <<buf, cursor_row, cursor_col, crtc_index, crtc, current_color, enabled,
                     running, mixed>>
  BY DEF Begin, cursor, device
<1>2. Contexts = {0, 1} /\ pc \in [Contexts -> Places]
  BY DEF Contexts, ConsoleInv, Typed
<1>3. /\ pc'[x] = entry /\ c'[x] = ch /\ i'[x] = r /\ reg'[x] = k
      /\ \A y \in Contexts \ {x} : pc'[y] = pc[y] /\ i'[y] = i[y] /\ reg'[y] = reg[y]
  BY <1>1, <1>2 DEF ConsoleInv, Typed
<1>4. before' \in Terminals
  BY <1>1, AtRest DEF ConsoleInv, Typed
<1>5. Typed'
  BY <1>1, <1>4 DEF ConsoleInv, Typed, Within
<1>6. Nested'
  <2>1. entry # "idle" /\ (running = 0 => pc[1] = "idle")
    BY DEF Within, ConsoleInv, Nested
  <2>2. CASE x = 0
    <3>1. pc'[0] = entry /\ pc'[1] = "idle" /\ ~mixed
      BY <1>1, <1>2, <1>3, <2>1, <2>2 DEF ConsoleInv, Nested
    <3> QED
      BY <1>1, <2>2, <3>1 DEF Nested
  <2>3. CASE x = 1
    <3>1. pc'[0] = pc[0]
      BY <1>2, <1>3, <2>3
    <3> QED
      BY <1>1, <2>3, <3>1 DEF ConsoleInv, Nested
  <2> QED
    BY <1>2, <2>2, <2>3
<1>7. CursorFits'
  <2>1. CASE x = 0
    BY <1>1, <1>2, <1>3, <2>1 DEF ConsoleInv, Nested, CursorFits, Fits, Within
  <2>2. CASE x = 1
    BY <1>1, <1>2, <1>3, <2>2 DEF ConsoleInv, Nested, CursorFits, Fits, Within
  <2> QED
    BY <1>2, <2>1, <2>2
<1>8. Undisturbed'
  <2>1. SUFFICES ASSUME ~mixed PROVE Undisturbed'
    BY <1>1 DEF Undisturbed, Tells
  <2>2. Settled
    BY <1>1, <1>2, <2>1 DEF ConsoleInv, Nested, Settled
  <2>3. before' = Picture /\ Picture.color = current_color /\ Screen' = Screen
    BY <1>1, <2>2, AtRest DEF Screen
  <2>4. \A y \in Contexts \ {x} : pc'[y] = "idle"
    BY <1>2, <1>3, <2>2 DEF Settled
  <2>5. Exact(before', entry, Screen', cursor_row', cursor_col', c'[x], reg'[x], i'[x])
    BY <1>1, <1>3, <2>2, <2>3
  <2>6. Sent(entry, cursor_row', cursor_col', reg'[x], crtc_index', crtc')
    BY DEF Sent, Syncing
  <2>7. Tells(x, entry, Screen, cursor_row, cursor_col, reg[x], i[x], crtc_index, crtc)'
    BY <2>5, <2>6 DEF Tells
  <2> QED
    BY <1>1, <1>3, <2>3, <2>4, <2>7 DEF Undisturbed, Tells
<1> QED
  BY <1>5, <1>6, <1>7, <1>8 DEF ConsoleInv

(* Where main is interrupted a handler can begin. *)
LEMMA NearBeside ==
    ASSUME NEW p, NEW r \in Nat, NEW k \in Nat
    PROVE  Near(p, r, k) => Beside(r, k)
BY ScreenAssumption DEF Near, Beside

(* What vga_putc begins with *)
LEMMA Entries ==
    ASSUME NEW ch \in Printable \cup Controls
    PROVE  /\ ch \in Nat
           /\ Entry(ch) \in {"newline", "return", "tab", "backspace", "letter"}
           /\ Entry(ch) = "letter" => ch \in Printable
           /\ Entry(ch) = "backspace" => ch = Backspace
BY PrintablesAreNumbers
   DEF Entry, Controls, NewLine, Return, TabStop, Backspace

LEMMA PutsKeep ==
    ASSUME ConsoleInv, NEW x \in Contexts, NEW ch \in Printable \cup Controls,
           Begin(x, Entry(ch), ch, 0, 0),
           text' \in Seq(Nat), \A m \in 1..Len(text') : text'[m] \in Printable \cup Controls,
           ch = Backspace => x = 1 \/ ~enabled
    PROVE  ConsoleInv'
<1> DEFINE entry == Entry(ch)
<1>1. /\ entry \in {"newline", "return", "tab", "backspace", "letter"} /\ ch \in Nat
      /\ entry = "letter" => ch \in Printable
      /\ entry = "backspace" => ch = Backspace
  BY Entries
<1>2. Begin(x, entry, ch, 0, 0)
  OBVIOUS
<1> HIDE DEF entry
<1>3. entry \in Within \ Syncing
  BY <1>1 DEF Within, Places, Fresh, Erasing, Syncing
<1>4. entry \in Erasing => x = 1 \/ ~enabled
  BY <1>1 DEF Erasing
<1>5. running = x /\ pc[x] = "idle" /\ x \in {0, 1}
  BY <1>2 DEF Begin, Contexts
<1>6. Near(pc[0], cursor_row, cursor_col)
  BY <1>5 DEF ConsoleInv, Nested, CursorFits
<1>7. Fits(x, entry, cursor_row, cursor_col, 0, 0)
  <2>1. CASE x = 0
    BY <1>1, <1>5, <1>6, <2>1 DEF Fits, Keeps, Near, Fresh, Erasing
  <2>2. CASE x = 1
    <3>1. Beside(cursor_row, cursor_col)
      BY <1>6, Facts, NearBeside, Zenon
    <3>2. Far(entry, cursor_row, cursor_col, 0, 0)
      BY <1>1, <3>1 DEF Far, Fresh, Erasing, Syncing
    <3> QED
      BY <2>2, <3>2 DEF Fits
  <2> QED
    BY <1>5, <2>1, <2>2
<1>8. ASSUME Settled
      PROVE  Exact(Picture, entry, Screen, cursor_row, cursor_col, ch, 0, 0)
  BY <1>1, <1>8, AtRest DEF Exact, Syncing
<1> QED
  BY <1>1, <1>2, <1>3, <1>4, <1>7, <1>8, BeginKeeps

LEMMA PutcKeeps ==
    ASSUME ConsoleInv, NEW ch \in Letters \cup Controls, Putc(ch)
    PROVE  ConsoleInv'
<1>1. Begin(0, Entry(ch), ch, 0, 0) /\ text' = text /\ (ch = Backspace => ~enabled)
  BY DEF Putc, MainCalls
<1>2. ch \in Printable \cup Controls
  BY DEF Printable
<1> QED
  BY <1>1, <1>2, PutsKeep DEF ConsoleInv, Typed, Contexts

LEMMA HandlerPutsKeeps ==
    ASSUME ConsoleInv, HandlerPuts
    PROVE  ConsoleInv'
<1>1. /\ text \in Seq(Nat) /\ text # << >> /\ text' = Tail(text)
      /\ \A m \in 1..Len(text) : text[m] \in Printable \cup Controls
      /\ Begin(1, Entry(Head(text)), Head(text), 0, 0)
  BY DEF ConsoleInv, Typed, HandlerPuts
<1>2. /\ Head(text) \in Printable \cup Controls
      /\ text' \in Seq(Nat) /\ \A m \in 1..Len(text') : text'[m] \in Printable \cup Controls
  <2>1. Head(text) = text[1] /\ Len(text) \in Nat \ {0}
    BY <1>1
  <2>2. /\ Tail(text) \in Seq(Nat) /\ Len(Tail(text)) = Len(text) - 1
        /\ \A m \in 1..Len(Tail(text)) : Tail(text)[m] = text[m + 1]
    BY <1>1
  <2> QED
    BY <1>1, <2>1, <2>2
<1> QED
  BY <1>1, <1>2, PutsKeep DEF Contexts

LEMMA CallClearKeeps ==
    ASSUME ConsoleInv, CallClear
    PROVE  ConsoleInv'
<1>1. Begin(0, "clear", Blank, 0, 0) /\ text' = text
  BY DEF CallClear, MainCalls
<1>2. Near("idle", cursor_row, cursor_col)
  BY <1>1 DEF Begin, ConsoleInv, Nested, CursorFits
<1>3. Fits(0, "clear", cursor_row, cursor_col, 0, 0)
  BY <1>2, Lines DEF Fits, Keeps, Near, Fresh, Erasing
<1>4. Settled => Exact(Picture, "clear", Screen, cursor_row, cursor_col, Blank, 0, 0)
  BY Lines DEF Exact, Syncing
<1>5. "clear" \in Within \ Syncing /\ "clear" \notin Erasing
  BY DEF Within, Places, Fresh, Erasing, Syncing
<1> QED
  BY <1>1, <1>3, <1>4, <1>5, BeginKeeps DEF ConsoleInv, Typed, Contexts, Blank

LEMMA CallMoveKeeps ==
    ASSUME ConsoleInv, NEW r \in 0..Height, NEW k \in 0..Width, CallMove(r, k)
    PROVE  ConsoleInv'
<1>1. Begin(0, "move_row", Blank, r, k) /\ text' = text /\ ~(r >= Height \/ k >= Width)
  BY DEF CallMove, MainCalls, OffScreen
<1>2. r \in Nat /\ k \in Nat /\ r < Height /\ k < Width
  <2>1. Width \in Nat /\ Height \in Nat
    BY ScreenAssumption
  <2>2. ~(r >= Height) /\ ~(k >= Width)
    BY <1>1
  <2> QED
    BY <2>1, <2>2
<1>3. Near("idle", cursor_row, cursor_col)
  BY <1>1 DEF Begin, ConsoleInv, Nested, CursorFits
<1>4. Fits(0, "move_row", cursor_row, cursor_col, k, r)
  BY <1>2, <1>3 DEF Fits, Keeps, Near, Fresh, Erasing
<1>5. Settled => Exact(Picture, "move_row", Screen, cursor_row, cursor_col, Blank, k, r)
  BY AtRest DEF Exact, Syncing
<1>6. "move_row" \in Within \ Syncing /\ "move_row" \notin Erasing
  BY DEF Within, Places, Fresh, Erasing, Syncing
<1> QED
  BY <1>1, <1>2, <1>4, <1>5, <1>6, BeginKeeps DEF ConsoleInv, Typed, Contexts, Blank

LEMMA SetColorKeeps ==
    ASSUME ConsoleInv, NEW a \in Colors, SetColor(a)
    PROVE  ConsoleInv'
<1>1. /\ running = 0 /\ pc[0] = "idle" /\ current_color' = a
      /\ UNCHANGED <<buf, cursor_row, cursor_col, crtc_index, crtc, enabled, running, text,
                     before, pc, c, reg, i, mixed>>
  BY DEF SetColor, MainCalls, cursor, device
<1>2. Contexts = {0, 1} /\ pc[1] = "idle"
  BY <1>1 DEF Contexts, ConsoleInv, Nested
<1>3. Typed' /\ Nested' /\ CursorFits'
  BY <1>1 DEF ConsoleInv, Typed, Nested, CursorFits
<1>4. Undisturbed'
  BY <1>1, <1>2 DEF Undisturbed, Settled
<1> QED
  BY <1>3, <1>4 DEF ConsoleInv

(* What starts and ends a handler leaves to the calls what is theirs. *)
LEMMA SwitchKeeps ==
    ASSUME ConsoleInv,
           UNCHANGED <<buf, cursor, device, current_color, before, pc, c, reg, i>>,
           enabled' \in BOOLEAN, mixed' \in BOOLEAN, running' \in Contexts,
           text' \in Seq(Nat), \A m \in 1..Len(text') : text'[m] \in Printable \cup Controls,
           Nested', mixed' \/ Settled \/ ~mixed
    PROVE  ConsoleInv'
<1>1. UNCHANGED <<buf, cursor_row, cursor_col, crtc_index, crtc, current_color, before, pc, c,
                  reg, i>>
  BY DEF cursor, device
<1>2. Typed' /\ CursorFits'
  BY <1>1 DEF ConsoleInv, Typed, CursorFits
<1>3. Screen' = Screen /\ (Settled' <=> Settled)
  BY <1>1 DEF Screen, Settled
<1>4. Undisturbed'
  <2>1. SUFFICES ASSUME ~mixed' PROVE Undisturbed'
    BY DEF Undisturbed, Tells
  <2>2. CASE Settled
    BY <1>1, <2>2 DEF Undisturbed, Settled, Contexts
  <2>3. CASE ~mixed
    BY <1>1, <1>3, <2>3 DEF ConsoleInv, Undisturbed, Tells
  <2> QED
    BY <2>1, <2>2, <2>3
<1> QED
  BY <1>2, <1>4 DEF ConsoleInv

LEMMA InterruptKeeps ==
    ASSUME ConsoleInv, EnableInterrupts \/ Interrupt \/ Iret
    PROVE  ConsoleInv'
<1>1. /\ enabled \in BOOLEAN /\ mixed \in BOOLEAN /\ running \in {0, 1} /\ Contexts = {0, 1}
      /\ text \in Seq(Nat) /\ \A m \in 1..Len(text) : text[m] \in Printable \cup Controls
  BY DEF ConsoleInv, Typed, Contexts
<1>2. CASE EnableInterrupts
  <2>1. /\ running = 0 /\ pc[0] = "idle" /\ enabled' = TRUE
        /\ UNCHANGED <<running, text, pc, mixed>>
        /\ UNCHANGED <<buf, cursor, device, current_color, before, pc, c, reg, i>>
    BY <1>2 DEF EnableInterrupts
  <2>2. Nested' /\ Settled
    BY <2>1 DEF ConsoleInv, Nested, Erasing, Settled
  <2> QED
    BY <1>1, <2>1, <2>2, SwitchKeeps
<1>3. CASE Interrupt
  <2>1. /\ enabled /\ running = 0 /\ running' = 1 /\ text' = HandlerText
        /\ mixed' = ~Settled /\ UNCHANGED <<enabled, pc>>
        /\ UNCHANGED <<buf, cursor, device, current_color, before, pc, c, reg, i>>
    BY <1>3 DEF Interrupt
  <2>2. Nested'
    BY <1>1, <2>1 DEF ConsoleInv, Nested, Settled
  <2>3. /\ text' \in Seq(Nat)
        /\ \A m \in 1..Len(text') : text'[m] \in Printable \cup Controls
    BY <2>1, ScreenAssumption DEF Printable
  <2>4. mixed' \in BOOLEAN
    BY <2>1 DEF Settled
  <2> QED
    BY <1>1, <2>1, <2>2, <2>3, <2>4, SwitchKeeps
<1>4. CASE Iret
  <2>1. /\ running = 1 /\ pc[1] = "idle" /\ running' = 0
        /\ UNCHANGED <<enabled, text, pc, mixed>>
        /\ UNCHANGED <<buf, cursor, device, current_color, before, pc, c, reg, i>>
    BY <1>4 DEF Iret
  <2>2. Nested'
    BY <2>1 DEF ConsoleInv, Nested
  <2> QED
    BY <1>1, <2>1, <2>2, SwitchKeeps
<1> QED
  BY <1>2, <1>3, <1>4

LEMMA NextKeeps ==
    ASSUME ConsoleInv, [Next]_vars
    PROVE  ConsoleInv'
<1>1. ASSUME UNCHANGED vars PROVE ConsoleInv'
  <2>1. UNCHANGED <<buf, cursor_row, cursor_col, crtc_index, crtc, current_color, enabled,
                    running, text, before, pc, c, reg, i, mixed>>
    BY <1>1 DEF vars, cursor, device, control
  <2> QED
    BY <2>1 DEF ConsoleInv, Typed, Nested, CursorFits, Undisturbed, Tells, Settled, Screen
<1> QED
  BY <1>1, PutcKeeps, CallClearKeeps, CallMoveKeeps, SetColorKeeps, InterruptKeeps,
     HandlerPutsKeeps, ProceedKeeps DEF Next, Idle

LEMMA InitKeeps == Init => ConsoleInv
<1> SUFFICES ASSUME Init PROVE ConsoleInv
  OBVIOUS
<1>1. /\ pc = [x \in Contexts |-> "idle"] /\ Contexts = {0, 1} /\ ~mixed
      /\ running = 0 /\ enabled = FALSE
  BY DEF Init, Contexts
<1>2. /\ cursor_row \in 0..(Height - 1) /\ cursor_col \in 0..(Width - 1)
      /\ current_color \in Colors /\ Width \in Nat \ {0} /\ Height \in Nat \ {0, 1}
  BY ScreenAssumption DEF Init
<1>3. buf \in [Memory -> Paint]
  <2>1. \A k \in Memory : 65 + k \in Nat
    BY DEF Memory
  <2> QED
    BY <1>2, <2>1 DEF Init, Cell, Paint
<1>4. crtc_index \in {"HI", "LO"} /\ crtc \in [{"HI", "LO"} -> Nat]
  <2>1. Location \in Nat
    BY <1>2, Positions DEF Location
  <2>2. High(Location) \in Nat /\ Low(Location) \in Nat
    BY <2>1, ScreenAssumption DEF High, Low
  <2> DEFINE h == High(Location)
             l == Low(Location)
  <2>3. crtc_index = "LO" /\ crtc = [HI |-> h, LO |-> l]
    BY DEF Init
  <2> HIDE DEF h, l
  <2>4. h \in Nat /\ l \in Nat
    BY <2>2 DEF h, l
  <2> QED
    BY <2>3, <2>4
<1>5. before \in Terminals
  <2>1. Screen \in Screens
    BY <1>3, Lines DEF Screen, Screens
  <2>2. before = [screen |-> Screen, row |-> cursor_row, col |-> cursor_col,
                  color |-> current_color]
    BY DEF Init, Picture, Screen
  <2> QED
    BY <1>2, <2>1, <2>2 DEF Terminals
<1>6. /\ text = << >> /\ c = [x \in Contexts |-> Blank] /\ reg = [x \in Contexts |-> 0]
      /\ i = [x \in Contexts |-> 0] /\ mixed = FALSE
  BY DEF Init
<1>7. Typed
  <2>1. pc \in [Contexts -> Places]
    BY <1>1 DEF Places
  <2>2. c \in [Contexts -> Nat] /\ reg \in [Contexts -> Nat] /\ i \in [Contexts -> Nat]
    BY <1>6 DEF Blank
  <2>3. cursor_row \in Nat /\ cursor_col \in Nat /\ running \in Contexts
    BY <1>1, <1>2
  <2>4. text \in Seq(Nat) /\ \A k \in 1..Len(text) : text[k] \in Printable \cup Controls
    BY <1>6
  <2> QED
    BY <1>1, <1>2, <1>3, <1>4, <1>5, <1>6, <2>1, <2>2, <2>3, <2>4 DEF Typed
<1>8. Nested
  BY <1>1 DEF Nested, Erasing
<1>9. CursorFits
  BY <1>1, <1>2, <1>6 DEF CursorFits, Keeps, Near, Fresh, Erasing
<1>10. Undisturbed
  BY <1>1 DEF Undisturbed, Settled
<1> QED
  BY <1>7, <1>8, <1>9, <1>10 DEF ConsoleInv

(* The invariant holds of every behaviour, mixed output or not. *)
THEOREM ConsoleInvariant == Spec => []ConsoleInv
<1>1. ConsoleInv /\ [Next]_vars => ConsoleInv'
  BY NextKeeps
<1> QED
  BY InitKeeps, <1>1, PTL DEF Spec

(* vga_putc computes the address of a cell from a row and a column that a  *)
(* handler may have changed in between: it stays in the video memory.      *)
THEOREM ConsoleStoresStayInTheBuffer == Spec => []StoresStayInTheBuffer
<1>1. ConsoleInv => StoresStayInTheBuffer
  <2> SUFFICES ASSUME ConsoleInv, NEW x \in Contexts, pc[x] \in {"letter_cell", "erase_cell"}
               PROVE  reg[x] \in Memory
    BY DEF StoresStayInTheBuffer
  <2>1. x \in {0, 1}
    BY DEF Contexts
  <2> QED
    BY <2>1 DEF ConsoleInv, CursorFits, Keeps, Far
<1> QED
  BY ConsoleInvariant, <1>1, PTL

(* The cursor is on the screen whenever no call is under way, and a call   *)
(* that nothing interrupted has told the CRTC where it is.                 *)
THEOREM ConsoleCursorComesBack == Spec => []CursorComesBack
<1>1. ConsoleInv => CursorComesBack
  <2> SUFFICES ASSUME ConsoleInv PROVE CursorComesBack
    OBVIOUS
  <2>1. Settled => cursor_row < Height /\ cursor_col < Width
    BY DEF ConsoleInv, CursorFits, Settled, Near
  <2>2. ASSUME NEW x \in Contexts, pc[x] = "done", ~mixed
        PROVE  crtc = [HI |-> High(Location), LO |-> Low(Location)]
    <3>1. Sent("done", cursor_row, cursor_col, reg[x], crtc_index, crtc)
      BY <2>2 DEF ConsoleInv, Undisturbed, Tells
    <3> QED
      BY <3>1 DEF Sent, Location
  <2> QED
    BY <2>1, <2>2 DEF CursorComesBack
<1> QED
  BY ConsoleInvariant, <1>1, PTL

----------------------------------------------------------------------------
(* The calls are those of Terminal *)

(* Inside a call the terminal is as it was before it. *)
LEMMA SilentSteps ==
    ASSUME NEW x \in Contexts, pc \in [Contexts -> Places], pc[x] # "idle", pc'[x] # "idle",
           UNCHANGED <<before, current_color, mixed>>
    PROVE  UNCHANGED Promise!vars
<1>1. ~Settled /\ ~Settled'
  BY DEF Settled, Contexts
<1> QED
  BY <1>1 DEF Promise!vars

(* Every step of a call but its last is one from a place within it to another. *)
LEMMA InnerSteps ==
    ASSUME ConsoleInv, NEW x \in Contexts, Proceed(x), ~Finish(x)
    PROVE  UNCHANGED Promise!vars
<1>1. ASSUME NEW from \in Within, NEW to \in Within, Step(x, from, to)
      PROVE  UNCHANGED Promise!vars
  <2>1. /\ pc \in [Contexts -> Places] /\ pc[x] = from /\ pc' = [pc EXCEPT ![x] = to]
        /\ UNCHANGED <<before, current_color, mixed>>
    BY <1>1 DEF Step, control, ConsoleInv, Typed
  <2> QED
    BY <1>1, <2>1, SilentSteps DEF Within
<1>2. CASE PutNewLine(x) \/ PutReturn(x) \/ PutTab(x)
  BY <1>1, <1>2 DEF PutNewLine, IncreaseRow, PutReturn, PutTab, Load, StoreRow, StoreCol,
     Within, Places, Fresh, Erasing, Syncing
<1>3. CASE PutBackspace(x) \/ PutLetter(x)
  <2>1. \E from \in Within, to \in Within : Step(x, from, to)
    BY <1>3 DEF PutBackspace, PutLetter, Test, Load, StoreCol, StoreCell,
       Within, Places, Fresh, Erasing, Syncing
  <2> QED
    BY <1>1, <2>1
<1>4. CASE Wrap(x) \/ Scroll(x)
  <2>1. \E from \in Within, to \in Within : Step(x, from, to)
    BY <1>4 DEF Wrap, Scroll, IncreaseRow, Test, Load, StoreRow, StoreCol,
       Within, Places, Fresh, Erasing, Syncing
  <2> QED
    BY <1>1, <2>1
<1>5. CASE SyncCursor(x) \/ Clear(x) \/ MoveCursor(x)
  <2>1. \E from \in Within, to \in Within : Step(x, from, to)
    BY <1>5 DEF SyncCursor, Clear, MoveCursor, SelectRegister, Load, StoreRow, StoreCol,
       Within, Places, Fresh, Erasing, Syncing
  <2> QED
    BY <1>1, <2>1
<1> QED
  BY <1>2, <1>3, <1>4, <1>5 DEF Proceed

(* What Terminal sees of a call that returns *)
LEMMA CallReturns ==
    ASSUME ConsoleInv, ~Settled, Settled', ~mixed, before.color = current_color,
           UNCHANGED <<buf, cursor_row, cursor_col, current_color, mixed>>,
           NEW o \in Asked(before), Shown(before, o, Screen, cursor_row, cursor_col)
    PROVE  Promise!Call
<1> DEFINE scr == IF Settled THEN Picture.screen ELSE before.screen
           row == IF Settled THEN Picture.row ELSE before.row
           col == IF Settled THEN Picture.col ELSE before.col
<1>1. scr = before.screen /\ row = before.row /\ col = before.col
  OBVIOUS
<1>2. scr' = Screen /\ row' = cursor_row /\ col' = cursor_col
  BY DEF Picture, Screen
<1>3. ~mixed /\ UNCHANGED <<current_color, mixed>>
  OBVIOUS
<1>4. Promise!Cells = Cells
  BY DEF Promise!Cells, Cells
<1>5. Promise!Empty = Empty(before)
  BY DEF Promise!Empty, Promise!Cell, Empty, Mark
<1>6. /\ o.screen \in Screens /\ RowOf(o) \in 0..Height /\ ColOf(o) \in 0..(Width - 1)
      /\ o.col < Width => RowOf(o) = o.row /\ ColOf(o) = o.col
  BY AskedFits DEF ConsoleInv, Typed
<1>7. Promise!Show(o.screen, o.row, o.col)
  BY <1>2, <1>4, <1>5 DEF Promise!Show, Shown, RowOf, ColOf, Moved
<1>8. Here(before) = Promise!Here
  BY <1>1 DEF Promise!Here, Here
<1>9. before \in Terminals
  BY DEF ConsoleInv, Typed
<1>10. CASE o = Ask(before.screen, before.row + 1, 0)
  <2>1. Promise!NewLine
    BY <1>1, <1>7, <1>10 DEF Promise!NewLine, Ask
  <2> QED
    BY <1>3, <2>1 DEF Promise!Call
<1>11. CASE o = Ask(before.screen, before.row, 0)
  <2>1. Promise!Return
    BY <1>1, <1>7, <1>11 DEF Promise!Return, Ask
  <2> QED
    BY <1>3, <2>1 DEF Promise!Call
<1>12. CASE o = Ask(before.screen, before.row, (before.col \div Tab + 1) * Tab)
  <2>1. Promise!Tabulate
    BY <1>1, <1>7, <1>12 DEF Promise!Tabulate, Ask
  <2> QED
    BY <1>3, <2>1 DEF Promise!Call
<1>13. CASE o = Ask(AllEmpty(before), 0, 0)
  <2>1. o.screen = AllEmpty(before) /\ o.row = 0 /\ o.col = 0
    BY <1>13 DEF Ask
  <2>2. RowOf(o) = 0 /\ ColOf(o) = 0 /\ 0 < Height
    BY <1>6, <2>1, Facts DEF Contexts
  <2>3. Screen = AllEmpty(before) /\ cursor_row = 0 /\ cursor_col = 0
    BY <2>1, <2>2 DEF Shown
  <2>4. Promise!Clear
    BY <1>2, <1>4, <1>5, <2>3 DEF Promise!Clear, AllEmpty
  <2> QED
    BY <1>3, <2>4 DEF Promise!Call
<1>14. CASE o = Ask(Erasure(before), before.row, before.col - 1) /\ before.col > 0
  <2>1. Promise!Show(Erasure(before), before.row, before.col - 1)
    BY <1>7, <1>14 DEF Ask
  <2>2. Promise!Backspace
    BY <1>1, <1>5, <1>8, <1>14, <2>1 DEF Promise!Backspace, Erasure
  <2> QED
    BY <1>3, <2>2 DEF Promise!Call
<1>15. ASSUME NEW ch \in Printable, o = Ask(Typing(before, ch), before.row, before.col + 1)
       PROVE  Promise!Call
  <2>1. Promise!Show(Typing(before, ch), before.row, before.col + 1)
    BY <1>7, <1>15 DEF Ask
  <2>2. Promise!Letter(ch)
    BY <1>1, <1>8, <2>1 DEF Promise!Letter, Promise!Cell, Typing, Mark
  <2> QED
    BY <1>3, <2>2 DEF Promise!Call
<1>16. ASSUME NEW r \in 0..(Height - 1), NEW k \in 0..(Width - 1),
              o = Ask(before.screen, r, k)
       PROVE  Promise!Call
  <2>1. o.screen = before.screen /\ o.row = r /\ o.col = k
    BY <1>16 DEF Ask
  <2>2. k < Width /\ r < Height
    BY <1>16, ScreenAssumption
  <2>3. RowOf(o) = r /\ ColOf(o) = k
    BY <1>6, <2>1, <2>2
  <2>4. Screen = before.screen /\ cursor_row = r /\ cursor_col = k
    BY <2>1, <2>2, <2>3 DEF Shown
  <2>5. Promise!Move(r, k)
    BY <1>1, <1>2, <2>4 DEF Promise!Move
  <2> QED
    BY <1>3, <2>5 DEF Promise!Call
<1> QED
  BY <1>10, <1>11, <1>12, <1>13, <1>14, <1>15, <1>16 DEF Asked

LEMMA FinishImplements ==
    ASSUME ConsoleInv, NEW x \in Contexts, Finish(x)
    PROVE  [Promise!Next]_Promise!vars
<1>1. /\ running = x /\ pc[x] = "done" /\ pc' = [pc EXCEPT ![x] = "idle"]
      /\ mixed' = (mixed /\ x # 0)
      /\ UNCHANGED <<buf, cursor_row, cursor_col, current_color, before>>
  BY DEF Finish, cursor, control
<1>2. Contexts = {0, 1} /\ pc \in [Contexts -> Places] /\ mixed \in BOOLEAN
  BY DEF Contexts, ConsoleInv, Typed
<1>3. ~Settled
  BY <1>1, <1>2 DEF Settled
<1>4. CASE ~mixed
  <2>1. Settled' /\ mixed' = mixed
    BY <1>1, <1>2, <1>4 DEF ConsoleInv, Nested, Settled
  <2>2. before.color = current_color
    BY <1>3, <1>4 DEF ConsoleInv, Undisturbed
  <2>3. Tells(x, "done", Screen, cursor_row, cursor_col, reg[x], i[x], crtc_index, crtc)
    BY <1>1 DEF ConsoleInv, Undisturbed
  <2>4. PICK o \in Asked(before) : Shown(before, o, Screen, cursor_row, cursor_col)
    BY <1>4, <2>3 DEF Tells, Exact, Syncing
  <2>5. Promise!Call
    BY <1>1, <1>3, <1>4, <2>1, <2>2, <2>4, CallReturns
  <2> QED
    BY <2>5 DEF Promise!Next
<1>5. CASE mixed /\ x = 0
  <2>1. Settled' /\ ~mixed' /\ pc[1] = "idle"
    BY <1>1, <1>2, <1>5 DEF ConsoleInv, Nested, Settled
  <2>2. cursor_row < Height /\ cursor_col < Width
    BY <1>1, <1>5, <2>1 DEF ConsoleInv, CursorFits, Near
  <2>3. cursor_row \in 0..(Height - 1) /\ cursor_col \in 0..(Width - 1) /\ Screen \in Screens
    BY <2>2, Facts
  <2>4. Picture' = [screen |-> Screen, row |-> cursor_row, col |-> cursor_col,
                    color |-> current_color]
    BY <1>1 DEF Picture, Screen
  <2>5. Promise!Unmix
    BY <1>1, <1>5, <2>1, <2>3, <2>4
       DEF Promise!Unmix, Promise!Cells, Cells, Screens, Paint
  <2> QED
    BY <2>5 DEF Promise!Next
<1>6. CASE mixed /\ x # 0
  <2>1. ~Settled' /\ mixed' = mixed
    BY <1>1, <1>2, <1>6 DEF ConsoleInv, Nested, Settled
  <2> QED
    BY <1>1, <1>3, <2>1 DEF Promise!vars
<1> QED
  BY <1>2, <1>4, <1>5, <1>6

(* A call begins where the last one ended. *)
LEMMA BeginImplements ==
    ASSUME ConsoleInv, NEW x \in Contexts, NEW entry \in Within, NEW ch, NEW r, NEW k,
           Begin(x, entry, ch, r, k)
    PROVE  UNCHANGED Promise!vars
<1>1. /\ pc[x] = "idle" /\ pc' = [pc EXCEPT ![x] = entry]
      /\ before' = IF Settled THEN Picture ELSE before
      /\ UNCHANGED <<current_color, mixed>>
  BY DEF Begin
<1>2. ~Settled'
  BY <1>1 DEF ConsoleInv, Typed, Contexts, Settled, Within
<1> QED
  BY <1>1, <1>2 DEF Promise!vars

LEMMA PutsImplement ==
    ASSUME ConsoleInv, NEW x \in Contexts, NEW ch \in Printable \cup Controls,
           Begin(x, Entry(ch), ch, 0, 0)
    PROVE  UNCHANGED Promise!vars
<1>1. Entry(ch) \in Within
  BY Entries DEF Within, Places, Fresh, Erasing, Syncing
<1> QED
  BY <1>1, BeginImplements

LEMMA SwitchImplements ==
    ASSUME UNCHANGED <<buf, cursor, current_color, before, pc>>, mixed' = mixed
    PROVE  UNCHANGED Promise!vars
BY DEF cursor, Promise!vars, Picture, Settled

LEMMA NextImplements ==
    ASSUME ConsoleInv, [Next]_vars
    PROVE  [Promise!Next]_Promise!vars
<1>1. ASSUME NEW ch \in Letters \cup Controls, Putc(ch) PROVE UNCHANGED Promise!vars
  <2>1. ch \in Printable \cup Controls
    BY DEF Printable
  <2> QED
    BY <1>1, <2>1, PutsImplement DEF Putc, Contexts
<1>2. ASSUME HandlerPuts PROVE UNCHANGED Promise!vars
  <2>1. Head(text) \in Printable \cup Controls
    BY <1>2 DEF ConsoleInv, Typed, HandlerPuts
  <2> QED
    BY <1>2, <2>1, PutsImplement DEF HandlerPuts, Contexts
<1>3. ASSUME CallClear PROVE UNCHANGED Promise!vars
  BY <1>3, BeginImplements DEF CallClear, Contexts, Within, Places
<1>4. ASSUME NEW r, NEW k, CallMove(r, k) PROVE UNCHANGED Promise!vars
  BY <1>4, BeginImplements DEF CallMove, Contexts, Within, Places
<1>5. ASSUME NEW a \in Colors, SetColor(a) PROVE Promise!Next
  <2>1. /\ running = 0 /\ pc[0] = "idle" /\ current_color' = a
        /\ UNCHANGED <<buf, cursor_row, cursor_col, before, pc, mixed>>
    BY <1>5 DEF SetColor, cursor
  <2>2. Settled /\ Settled'
    BY <2>1 DEF ConsoleInv, Nested, Settled
  <2>3. Picture'.screen = Picture.screen /\ Picture'.row = Picture.row
        /\ Picture'.col = Picture.col
    BY <2>1 DEF Picture
  <2>4. Promise!SetColor
    BY <1>5, <2>1, <2>2, <2>3 DEF Promise!SetColor
  <2> QED
    BY <2>4 DEF Promise!Next
<1>6. ASSUME Interrupt PROVE [Promise!Next]_Promise!vars
  <2>1. /\ mixed' = ~Settled /\ running = 0
        /\ UNCHANGED <<buf, cursor, current_color, before, pc>>
    BY <1>6 DEF Interrupt
  <2>2. CASE Settled
    <3>1. mixed' = mixed
      BY <2>1, <2>2 DEF ConsoleInv, Typed, Nested, Settled
    <3> QED
      BY <2>1, <3>1, SwitchImplements
  <2>3. CASE ~Settled
    <3>1. ~Settled' /\ mixed' = TRUE
      BY <2>1, <2>3 DEF Settled
    <3>2. Promise!Mix
      BY <2>1, <2>3, <3>1 DEF Promise!Mix
    <3> QED
      BY <3>2 DEF Promise!Next
  <2> QED
    BY <2>2, <2>3
<1>7. ASSUME EnableInterrupts \/ Iret \/ Idle \/ UNCHANGED vars PROVE UNCHANGED Promise!vars
  <2>1. UNCHANGED <<buf, cursor, current_color, before, pc, mixed>>
    BY <1>7 DEF EnableInterrupts, Iret, Idle, vars, control
  <2> QED
    BY <2>1, SwitchImplements
<1>8. ASSUME NEW x \in Contexts, Proceed(x) PROVE [Promise!Next]_Promise!vars
  BY <1>8, FinishImplements, InnerSteps
<1> QED
  BY <1>1, <1>2, <1>3, <1>4, <1>5, <1>6, <1>7, <1>8 DEF Next

LEMMA InitImplements == Init => Promise!Init
<1> SUFFICES ASSUME Init PROVE Promise!Init
  OBVIOUS
<1>1. Settled /\ mixed = FALSE /\ current_color \in Colors
  BY InitKeeps DEF Init, Contexts, Settled, ConsoleInv, Typed
<1>2. Picture \in Terminals
  BY <1>1, InitKeeps, AtRest
<1> QED
  BY <1>1, <1>2 DEF Promise!Init, Promise!Cells, Terminals, Screens, Paint, Cells

(* Calls that nothing interrupts change the screen and the cursor as       *)
(* Terminal says, whatever the calls before them were mixed with.          *)
THEOREM ConsoleImplementsTerminal == Spec => ImplementsTerminal
<1>1. ConsoleInv /\ [Next]_vars => [Promise!Next]_Promise!vars
  BY NextImplements
<1> QED
  BY InitImplements, <1>1, ConsoleInvariant, PTL DEF Spec, ImplementsTerminal, Promise!Spec
=============================================================================
