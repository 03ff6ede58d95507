------------------------------- MODULE Console -------------------------------
(***************************************************************************)
(* The console of kernel/drivers/vga.c as the build makes it: the cursor   *)
(* is in static variables, every access to them is an instruction of its   *)
(* own, and an interrupt handler that prints (irq_handler does, for a line *)
(* without a handler) may come between any two of them.                    *)
(*                                                                         *)
(* Context 0 is main, context 1 the handler.  One step is one access to    *)
(* the cursor, to the video memory or to a port; only the copy of a cell,  *)
(* a load and a store, is one step.  No handler sets the color, so when it *)
(* is read makes no difference.                                            *)
(***************************************************************************)
EXTENDS Naturals, Sequences

CONSTANTS
    Width, Height,      \* VGA_WIDTH and VGA_HEIGHT
    Tab,                \* 4, a divisor of the width
    Byte,               \* 256: a register of the CRTC holds one
    Colors, Letters,    \* attributes and printable characters
    HandlerText,        \* what the handler prints
    MaxCalls,           \* bound: calls of main
    MaxInterrupts       \* bound: runs of the handler

NewLine   == 10
Return    == 13
TabStop   == 9
Backspace == 8
Blank     == 32
Controls  == {NewLine, Return, TabStop, Backspace}

ASSUME ScreenAssumption ==
    /\ Width \in Nat \ {0} /\ Height \in Nat \ {0, 1}
    /\ Tab \in Nat \ {0} /\ Width % Tab = 0
    /\ Byte \in Nat \ {0, 1}
    /\ Letters \subseteq Nat \ Controls /\ HandlerText \in Seq(Nat)
    /\ Colors # {}

VARIABLES
    buf,                \* VGA_BUF, as far as the line below the screen
    cursor_row, cursor_col, current_color,
    crtc_index, crtc,   \* the selected register, and the two cursor registers
    enabled,            \* main has enabled interrupts
    running,            \* the context that runs
    text,               \* what the handler has yet to print
    pc, c, reg, i,      \* of each context: position, character, register, index
    calls, interrupts,  \* what the bounds count
    before, mixed       \* the terminal before the call, and whether calls mix

cursor  == <<cursor_row, cursor_col>>
device  == <<crtc_index, crtc>>
control == <<current_color, enabled, running, text, calls, interrupts, before>>
vars    == <<buf, cursor, device, control, pc, c, reg, i, mixed>>

Contexts == {0, 1}
Cells    == 0..(Width * Height - 1)
Memory   == 0..(Width * (Height + 1) - 1)
Cell(ch) == [color |-> current_color, ch |-> ch]

High(location) == (location \div Byte) % Byte
Low(location)  == location % Byte
Location       == cursor_row * Width + cursor_col

Picture == [screen |-> [k \in Cells |-> buf[k]], row |-> cursor_row,
            col |-> cursor_col, color |-> current_color]
Settled == pc[0] = "idle" /\ pc[1] = "idle"

(* The console after some output: the cursor anywhere, no two cells alike. *)
Init ==
    /\ current_color = CHOOSE a \in Colors : TRUE
    /\ buf = [k \in Memory |-> Cell(65 + k)]
    /\ cursor_row \in 0..(Height - 1) /\ cursor_col \in 0..(Width - 1)
    /\ crtc_index = "LO" /\ crtc = [HI |-> High(Location), LO |-> Low(Location)]
    /\ enabled = FALSE /\ running = 0 /\ text = << >>
    /\ pc = [x \in Contexts |-> "idle"] /\ c = [x \in Contexts |-> Blank]
    /\ reg = [x \in Contexts |-> 0] /\ i = [x \in Contexts |-> 0]
    /\ calls = 0 /\ interrupts = 0
    /\ before = Picture /\ mixed = FALSE

----------------------------------------------------------------------------
(* One access of context x, on its way from one place of its code to another *)

Step(x, from, to) ==
    /\ running = x /\ pc[x] = from /\ pc' = [pc EXCEPT ![x] = to]
    /\ UNCHANGED <<control, c, mixed>>

Test(x, from, condition, yes, no) ==
    Step(x, from, IF condition THEN yes ELSE no) /\ UNCHANGED <<buf, cursor, device, reg, i>>

Load(x, from, to, value) ==
    Step(x, from, to) /\ reg' = [reg EXCEPT ![x] = value] /\ UNCHANGED <<buf, cursor, device, i>>

StoreRow(x, from, to, value) ==
    Step(x, from, to) /\ cursor_row' = value /\ UNCHANGED <<buf, cursor_col, device, reg, i>>

StoreCol(x, from, to, value) ==
    Step(x, from, to) /\ cursor_col' = value /\ UNCHANGED <<buf, cursor_row, device, reg, i>>

StoreCell(x, from, to, ch) ==
    /\ Step(x, from, to)
    /\ buf' = [buf EXCEPT ![reg[x]] = Cell(ch)] /\ UNCHANGED <<cursor, device, reg, i>>

(* The address of the cursor's cell: the row is loaded first. *)
Address(x) == reg[x] * Width + cursor_col

----------------------------------------------------------------------------
(* vga_putc *)

OneMore(n) == n + 1

IncreaseRow(x, from, with, to) ==
    Load(x, from, with, cursor_row) \/ StoreRow(x, with, to, OneMore(reg[x]))

PutNewLine(x) == IncreaseRow(x, "newline", "newline_row", "return")
PutReturn(x)  == StoreCol(x, "return", "check", 0)

PutTab(x) ==
    \/ Load(x, "tab", "tab_col", cursor_col)
    \/ StoreCol(x, "tab_col", "wrap", ((reg[x] + Tab) \div Tab) * Tab)

PutBackspace(x) ==
    \/ Test(x, "backspace", cursor_col > 0, "back", "check")
    \/ Load(x, "back", "back_col", cursor_col)
    \/ StoreCol(x, "back_col", "erase", reg[x] - 1)
    \/ Load(x, "erase", "erase_at", cursor_row)
    \/ Load(x, "erase_at", "erase_cell", Address(x))
    \/ StoreCell(x, "erase_cell", "check", Blank)

PutLetter(x) ==
    \/ Load(x, "letter", "letter_at", cursor_row)
    \/ Load(x, "letter_at", "letter_cell", Address(x))
    \/ StoreCell(x, "letter_cell", "advance", c[x])
    \/ Load(x, "advance", "advance_col", cursor_col)
    \/ StoreCol(x, "advance_col", "wrap", OneMore(reg[x]))

PastEnd(k)   == k > Width                               \* mutant
AtEnd(k)     == k >= Width

Wrap(x) ==
    \/ Test(x, "wrap", AtEnd(cursor_col), "wrap_col", "check")
    \/ StoreCol(x, "wrap_col", "wrap_row", 0)
    \/ IncreaseRow(x, "wrap_row", "wrap_set", "check")

(* The two loops of the scrolling, the second of which clears a line. *)
CopiedTooFar(k) == k + Width + 1                        \* mutant
CopiedFrom(k)   == k + Width

JustBelow(r) == r = Height                              \* mutant
Below(r)     == r >= Height

Scroll(x) ==
    \/ Test(x, "check", Below(cursor_row), "scroll", "sync")
    \/ /\ Step(x, "scroll", IF i[x] + 1 \in Cells THEN "scroll" ELSE "scrolled")
       /\ buf' = [buf EXCEPT ![i[x]] =
              IF i[x] < (Height - 1) * Width THEN buf[CopiedFrom(i[x])] ELSE Cell(Blank)]
       /\ i' = [i EXCEPT ![x] = @ + 1]
       /\ UNCHANGED <<cursor, device, reg>>
    \/ StoreRow(x, "scrolled", "sync", Height - 1)

----------------------------------------------------------------------------
(* vga_sync_cursor *)

SelectRegister(x, from, to, register) ==
    Step(x, from, to) /\ crtc_index' = register /\ UNCHANGED <<buf, cursor, crtc, reg, i>>

LowByte(location)     == Low(location)

SyncCursor(x) ==
    \/ Load(x, "sync", "sync_at", cursor_row)
    \/ Load(x, "sync_at", "select_high", Address(x))
    \/ SelectRegister(x, "select_high", "high", "HI")
    \/ /\ Step(x, "high", "select_low")
       /\ crtc' = [crtc EXCEPT ![crtc_index] = High(reg[x])]
       /\ UNCHANGED <<buf, cursor, crtc_index, reg, i>>
    \/ SelectRegister(x, "select_low", "low", "LO")
    \/ /\ Step(x, "low", "done")
       /\ crtc' = [crtc EXCEPT ![crtc_index] = LowByte(reg[x])]
       /\ UNCHANGED <<buf, cursor, crtc_index, reg, i>>

(* The function returns: what its locals held is gone. *)
Finish(x) ==
    /\ running = x /\ pc[x] = "done"
    /\ pc' = [pc EXCEPT ![x] = "idle"] /\ c' = [c EXCEPT ![x] = Blank]
    /\ reg' = [reg EXCEPT ![x] = 0] /\ i' = [i EXCEPT ![x] = 0]
    /\ mixed' = (mixed /\ x # 0)
    /\ UNCHANGED <<buf, cursor, device, control>>

----------------------------------------------------------------------------
(* vga_clear and vga_move_cursor, whose arguments are in i and reg *)

Clear(x) ==
    \/ /\ Step(x, "clear", IF i[x] + 1 \in Cells THEN "clear" ELSE "clear_row")
       /\ buf' = [buf EXCEPT ![i[x]] = Cell(Blank)] /\ i' = [i EXCEPT ![x] = @ + 1]
       /\ UNCHANGED <<cursor, device, reg>>
    \/ StoreRow(x, "clear_row", "clear_col", 0)
    \/ StoreCol(x, "clear_col", "sync", 0)

MoveCursor(x) ==
    \/ StoreRow(x, "move_row", "move_col", i[x])
    \/ StoreCol(x, "move_col", "sync", reg[x])

Proceed(x) ==
    \/ PutNewLine(x) \/ PutReturn(x) \/ PutTab(x) \/ PutBackspace(x) \/ PutLetter(x)
    \/ Wrap(x) \/ Scroll(x) \/ SyncCursor(x) \/ Finish(x) \/ Clear(x) \/ MoveCursor(x)

----------------------------------------------------------------------------
(* Calls *)

Printable == (Letters \cup {HandlerText[k] : k \in 1..Len(HandlerText)}) \ Controls

Entry(ch) ==
    CASE ch = NewLine   -> "newline"
      [] ch = Return    -> "return"
      [] ch = TabStop   -> "tab"
      [] ch = Backspace -> "backspace"
      [] OTHER          -> "letter"

Begin(x, entry, ch, r, k) ==
    /\ running = x /\ pc[x] = "idle"
    /\ pc' = [pc EXCEPT ![x] = entry] /\ c' = [c EXCEPT ![x] = ch]
    /\ i' = [i EXCEPT ![x] = r] /\ reg' = [reg EXCEPT ![x] = k]
    /\ before' = IF Settled THEN Picture ELSE before
    /\ UNCHANGED <<buf, cursor, device, current_color, enabled, running, interrupts, mixed>>

MainCalls == calls < MaxCalls /\ calls' = calls + 1 /\ UNCHANGED text

(* Nothing prints a backspace once interrupts are enabled. *)
Putc(ch) ==
    /\ ch = Backspace => ~enabled
    /\ MainCalls /\ Begin(0, Entry(ch), ch, 0, 0)

CallClear == MainCalls /\ Begin(0, "clear", Blank, 0, 0)

OffScreen(r, k) == r >= Height \/ k >= Width

(* A position that is not on the screen is ignored. *)
CallMove(r, k) ==
    /\ ~OffScreen(r, k)
    /\ MainCalls /\ Begin(0, "move_row", Blank, r, k)

SetColor(a) ==
    /\ running = 0 /\ pc[0] = "idle" /\ MainCalls
    /\ current_color' = a
    /\ UNCHANGED <<buf, cursor, device, enabled, running, interrupts, before, pc, c, reg,
                   i, mixed>>

EnableInterrupts ==
    /\ running = 0 /\ pc[0] = "idle" /\ ~enabled /\ enabled' = TRUE
    /\ UNCHANGED <<buf, cursor, device, current_color, running, text, calls, interrupts,
                   before, pc, c, reg, i, mixed>>

(* irq_handler prints from the interrupt gate: nothing interrupts it. *)
Interrupt ==
    /\ enabled /\ running = 0 /\ interrupts < MaxInterrupts
    /\ running' = 1 /\ text' = HandlerText /\ interrupts' = interrupts + 1
    /\ mixed' = ~Settled
    /\ UNCHANGED <<buf, cursor, device, current_color, enabled, calls, before, pc, c, reg, i>>

HandlerPuts ==
    /\ text # << >> /\ text' = Tail(text)
    /\ Begin(1, Entry(Head(text)), Head(text), 0, 0)
    /\ UNCHANGED calls

Iret ==
    /\ running = 1 /\ pc[1] = "idle" /\ text = << >>
    /\ running' = 0
    /\ UNCHANGED <<buf, cursor, device, current_color, enabled, text, calls, interrupts,
                   before, pc, c, reg, i, mixed>>

(* The endless loop of main, when its calls are done *)
Idle == running = 0 /\ pc[0] = "idle" /\ calls = MaxCalls /\ UNCHANGED vars

Next ==
    \/ \E ch \in Letters \cup Controls : Putc(ch)
    \/ CallClear
    \/ \E r \in 0..Height, k \in 0..Width : CallMove(r, k)
    \/ \E a \in Colors : SetColor(a)
    \/ EnableInterrupts
    \/ Interrupt
    \/ HandlerPuts
    \/ \E x \in Contexts : Proceed(x)
    \/ Iret
    \/ Idle

Spec == Init /\ [][Next]_vars

----------------------------------------------------------------------------
(* Properties *)

(* However output of a handler mixes with output of main, no store misses  *)
(* the screen by more than the line below it: VGA_BUF[cursor_row *         *)
(* VGA_WIDTH + cursor_col] is computed from two values of different times. *)
StoresStayInTheBuffer ==
    \A x \in Contexts : pc[x] \in {"letter_cell", "erase_cell"} => reg[x] \in Memory

(* When no call is under way the cursor is on the screen, even after calls *)
(* that mixed: main does not go on from a row its scrolling never saw.     *)
(* The hardware cursor is where the next character goes: the two bytes of  *)
(* its position may come from different calls while output mixes, but the  *)
(* next call that nothing interrupts puts both right.                      *)
CursorComesBack ==
    /\ Settled => cursor_row < Height /\ cursor_col < Width
    /\ \A x \in Contexts :
           pc[x] = "done" /\ ~mixed => crtc = [HI |-> High(Location), LO |-> Low(Location)]

(* Calls that nothing interrupts do to screen and cursor what Terminal     *)
(* says, after calls that mixed as well.                                   *)
Promise == INSTANCE Terminal WITH
    Texts  <- Printable,
    screen <- IF Settled THEN Picture.screen ELSE before.screen,
    row    <- IF Settled THEN Picture.row ELSE before.row,
    col    <- IF Settled THEN Picture.col ELSE before.col,
    color  <- current_color
ImplementsTerminal == Promise!Spec
=============================================================================
