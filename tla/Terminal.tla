------------------------------ MODULE Terminal ------------------------------
(* What kernel/drivers/vga.c promises its callers: a screen with a cursor,  *)
(* changed by one call at a time.  Of calls that interrupted each other it  *)
(* promises only that the cursor is on the screen afterwards.               *)
EXTENDS Naturals

CONSTANTS Width, Height, Tab, Colors, Texts, Blank

VARIABLES screen, row, col, color, mixed
vars == <<screen, row, col, color, mixed>>

Cells      == 0..(Width * Height - 1)
Cell(a, c) == [color |-> a, ch |-> c]
Empty      == Cell(color, Blank)

Init ==
    /\ screen \in [Cells -> [color : Colors, ch : Nat]]
    /\ row \in 0..(Height - 1) /\ col \in 0..(Width - 1) /\ color \in Colors
    /\ mixed = FALSE

(* The picture, moved up by a line when the cursor has left it. *)
Show(picture, r, c) ==
    LET below == c \div Width + r
    IN  /\ col' = c % Width
        /\ IF below < Height
           THEN row' = below /\ screen' = picture
           ELSE /\ row' = Height - 1
                /\ screen' = [i \in Cells |->
                       IF i + Width \in Cells THEN picture[i + Width] ELSE Empty]

Here == row * Width + col

NewLine   == Show(screen, row + 1, 0)
Return    == Show(screen, row, 0)
Tabulate  == Show(screen, row, (col \div Tab + 1) * Tab)
Backspace == IF col = 0 THEN UNCHANGED <<screen, row, col>>
             ELSE Show([screen EXCEPT ![Here - 1] = Empty], row, col - 1)
Letter(c) == Show([screen EXCEPT ![Here] = Cell(color, c)], row, col + 1)

Clear      == screen' = [i \in Cells |-> Empty] /\ row' = 0 /\ col' = 0
Move(r, c) == row' = r /\ col' = c /\ UNCHANGED screen

Call ==
    /\ ~mixed /\ UNCHANGED <<color, mixed>>
    /\ \/ NewLine \/ Return \/ Tabulate \/ Backspace \/ Clear
       \/ \E c \in Texts : Letter(c)
       \/ \E r \in 0..(Height - 1), c \in 0..(Width - 1) : Move(r, c)

SetColor == color' \in Colors /\ UNCHANGED <<screen, row, col, mixed>>

Mix == mixed' = TRUE /\ UNCHANGED <<screen, row, col, color>>

Unmix ==
    /\ mixed /\ mixed' = FALSE
    /\ screen' \in [Cells -> [color : Colors, ch : Nat]]
    /\ row' \in 0..(Height - 1) /\ col' \in 0..(Width - 1)
    /\ UNCHANGED color

Next == Call \/ SetColor \/ Mix \/ Unmix

Spec == Init /\ [][Next]_vars
=============================================================================
