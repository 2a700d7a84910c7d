--------------------------- MODULE LineDiscipline ---------------------------
(* What the console promises about input: the line being typed can be        *)
(* edited until it is ended; then it is handed over, in order and complete.  *)
EXTENDS Naturals, Sequences, SequencesExt

CONSTANTS Chars,       \* the characters that can be typed into a line
          Terminators, \* those that end a line
          Capacity

VARIABLES line,    \* what is being typed
          ready,   \* the lines that were ended and not read yet
          given    \* the character that a reader got last

lineVars == <<line, ready, given>>

LineInit == line = <<>> /\ ready = <<>> /\ given \in Chars

Type(c) ==
    LET typed == Append(line, c) IN
    /\ Len(line) + Len(ready) < Capacity
    /\ IF c \in Terminators \/ Len(typed) + Len(ready) = Capacity
       THEN ready' = ready \o typed /\ line' = <<>>
       ELSE line' = typed /\ UNCHANGED ready
    /\ UNCHANGED given

Erase == line # <<>> /\ line' = Front(line) /\ UNCHANGED <<ready, given>>

EraseLine == line' = <<>> /\ UNCHANGED <<ready, given>>

Take == ready # <<>> /\ given' = Head(ready) /\ ready' = Tail(ready) /\ UNCHANGED line

LineNext == Erase \/ EraseLine \/ Take \/ \E c \in Chars : Type(c)

LineSpec == LineInit /\ [][LineNext]_lineVars
=============================================================================
