------------------------------ MODULE Console ------------------------------
(* The console (kernel/console.c) and its UART (kernel/uart.c): processes    *)
(* that read and write, the interrupt handler that edits the input line and  *)
(* feeds the transmitter, and the device as an external actor.  A slot of a  *)
(* ring outside its indices is dead until it is written again; the model     *)
(* resets it, so that states that differ only there are the same.            *)
EXTENDS Naturals, Sequences, FiniteSets

CONSTANTS Readers, Writers,
          INPUT_BUF_SIZE, UART_TX_BUF_SIZE,
          ConsMod,   \* the indices count modulo this (2^32 and 2^64 in the code)
          ReadSizes, \* the n of a read
          MaxKeys,   \* bound: characters typed
          ConsStart  \* where the indices are after earlier use

ASSUME ConsoleAssumption ==
    /\ INPUT_BUF_SIZE \in Nat \ {0} /\ UART_TX_BUF_SIZE \in Nat \ {0}
    /\ ConsMod \in Nat /\ ConsMod % INPUT_BUF_SIZE = 0 /\ ConsMod % UART_TX_BUF_SIZE = 0
    /\ ConsMod > INPUT_BUF_SIZE /\ ConsMod > UART_TX_BUF_SIZE
    /\ ReadSizes \subseteq Nat \ {0} /\ MaxKeys \in Nat
    /\ ConsStart \in 0..(ConsMod - 1)

\* "x" stands for every ordinary character, "nl" for '\n', "cr" for '\r',
\* "D", "U" and "H" for control-D, control-U and backspace.
LineChars == {"x", "nl", "D"}
Keys == LineChars \union {"cr", "U", "H", "nul"}
OutChars == {"o1", "o2"}
NoChar == "none"
DeadChar == "x"
DeadOut == "o1"

VARIABLES
    cons,     \* cons.buf, cons.r, cons.w, cons.e
    got,      \* the character a reader got last
    rpc,      \* consoleread of each reader
    rleft, rdone,  \* its n, and whether it has copied something already
    echo,     \* characters the handler still has to echo, cons.lock held
    rx, keys, \* the character in the receive register, how many have come
    tx,       \* uart_tx_buf, uart_tx_r, uart_tx_w
    sent,     \* the last character the transmit buffer gave to the device
    thr,      \* the transmit register is busy
    intr,     \* the device has raised its interrupt
    wpc       \* uartputc of each writer

inVars == <<cons, got, rpc, rleft, rdone>>
outVars == <<tx, sent, wpc>>
consVars == <<inVars, outVars, echo, rx, keys, thr, intr>>

ConsInit ==
    /\ cons = [buf |-> [i \in 0..(INPUT_BUF_SIZE - 1) |-> DeadChar],
               r |-> ConsStart, w |-> ConsStart, e |-> ConsStart]
    /\ got = "x"
    /\ rpc = [p \in Readers |-> "user"]
    /\ rleft = [p \in Readers |-> 0] /\ rdone = [p \in Readers |-> FALSE]
    /\ echo = 0 /\ rx = NoChar /\ keys = 0
    /\ tx = [buf |-> [i \in 0..(UART_TX_BUF_SIZE - 1) |-> DeadOut], r |-> ConsStart, w |-> ConsStart]
    /\ sent = "o1" /\ thr = FALSE /\ intr = FALSE
    /\ wpc = [p \in Writers |-> "user"]

Minus(a, b) == (a + ConsMod - b) % ConsMod
Plus1(a) == (a + 1) % ConsMod

-----------------------------------------------------------------------------
(* Input: the handler of the receive interrupt.                              *)

WakeCons(f) == [p \in Readers |-> IF f[p] = "asleep" THEN "read" ELSE f[p]]

\* cons.e-- and its echo, for backspace and for the whole line.
CanErase == cons.e # cons.w
Erased(k) ==
    [cons EXCEPT !.e = Minus(@, k),
                 !.buf = [i \in DOMAIN @ |->
                            IF \E j \in 1..k : i = Minus(cons.e, j) % INPUT_BUF_SIZE THEN DeadChar ELSE @[i]]]
EraseChar == IF CanErase THEN Erased(1) ELSE cons

\* The characters after the last newline, back to cons.w.
KillFrom ==
    CHOOSE k \in 0..Minus(cons.e, cons.w) :
        LET at(i) == cons.buf[Minus(cons.e, i) % INPUT_BUF_SIZE] IN
        /\ \A i \in 1..k : at(i) # "nl"
        /\ k = Minus(cons.e, cons.w) \/ at(k + 1) = "nl"

\* There is room for one more character of the line.
HasRoom_OneMore == Minus(cons.e, cons.r) <= INPUT_BUF_SIZE
HasRoom == Minus(cons.e, cons.r) < INPUT_BUF_SIZE

\* The default case: '\r' becomes '\n', and the end of a line, of the file or
\* of the buffer hands the line over to the readers.
Store(c) ==
    LET next == [cons EXCEPT !.buf[cons.e % INPUT_BUF_SIZE] = c, !.e = Plus1(@)] IN
    IF c \in {"nl", "D"} \/ Minus(next.e, next.r) = INPUT_BUF_SIZE
    THEN [next EXCEPT !.w = next.e] ELSE next

\* consoleintr; its echo is sent in the steps that follow, under cons.lock.
ConsoleIntr ==
    LET c == IF rx = "cr" THEN "nl" ELSE rx IN
    /\ rx # NoChar /\ echo = 0
    /\ rx' = NoChar
    /\ CASE rx = "U" -> cons' = Erased(KillFrom) /\ echo' = 3 * KillFrom
         [] rx = "H" -> cons' = EraseChar /\ echo' = IF CanErase THEN 3 ELSE 0
         [] OTHER    -> IF rx # "nul" /\ HasRoom
                        THEN cons' = Store(c) /\ echo' = 1
                        ELSE UNCHANGED <<cons, echo>>
    /\ rpc' = IF cons'.w # cons.w THEN WakeCons(rpc) ELSE rpc
    /\ UNCHANGED <<got, rleft, rdone, outVars, thr, intr, keys>>

\* uartputc_sync: wait until the register is empty, then use it.
EchoChar ==
    /\ echo > 0 /\ ~thr
    /\ echo' = echo - 1
    /\ thr' = TRUE
    /\ UNCHANGED <<inVars, outVars, rx, intr, keys>>

-----------------------------------------------------------------------------
(* consoleread                                                               *)

ReadCall(p, n) ==
    /\ rpc[p] = "user"
    /\ rpc' = [rpc EXCEPT ![p] = "read"]
    /\ rleft' = [rleft EXCEPT ![p] = n]
    /\ rdone' = [rdone EXCEPT ![p] = FALSE]
    /\ UNCHANGED <<cons, got, outVars, echo, rx, thr, intr, keys>>

ReadSleeps(p) ==
    /\ rpc[p] = "read" /\ echo = 0 /\ cons.r = cons.w
    /\ rpc' = [rpc EXCEPT ![p] = "asleep"]
    /\ UNCHANGED <<cons, got, rleft, rdone, outVars, echo, rx, thr, intr, keys>>

\* One character: control-D ends the read and stays for the next one unless it
\* is the first; a newline is delivered and ends the read; so does a full or an
\* invalid user buffer.
ReadChar(p) ==
    LET c == cons.buf[cons.r % INPUT_BUF_SIZE] IN
    /\ rpc[p] = "read" /\ echo = 0 /\ cons.r # cons.w
    /\ IF c = "D" /\ rdone[p]
       THEN UNCHANGED <<got, cons>>
       ELSE got' = c /\ cons' = [cons EXCEPT !.r = Plus1(@), !.buf[cons.r % INPUT_BUF_SIZE] = DeadChar]
    /\ \/ rpc' = [rpc EXCEPT ![p] = IF c \in {"D", "nl"} \/ rleft[p] = 1 THEN "user" ELSE "read"]
       \/ c # "D" /\ rpc' = [rpc EXCEPT ![p] = "user"]
    /\ rleft' = [rleft EXCEPT ![p] = IF rpc'[p] = "user" THEN 0 ELSE @ - 1]
    /\ rdone' = [rdone EXCEPT ![p] = rpc'[p] # "user"]
    /\ UNCHANGED <<outVars, echo, rx, thr, intr, keys>>

\* A killed reader, woken by kill, gives up when there is nothing to read.
ReadKilled(p) ==
    /\ rpc[p] \in {"read", "asleep"} /\ echo = 0 /\ cons.r = cons.w
    /\ rpc' = [rpc EXCEPT ![p] = "user"]
    /\ rleft' = [rleft EXCEPT ![p] = 0]
    /\ rdone' = [rdone EXCEPT ![p] = FALSE]
    /\ UNCHANGED <<cons, got, outVars, echo, rx, thr, intr, keys>>

-----------------------------------------------------------------------------
(* Output.                                                                   *)

TxEmpty(t) == t.w = t.r
TxFull == tx.w = (tx.r + UART_TX_BUF_SIZE) % ConsMod

WakeTx(f) == [p \in Writers |-> IF f[p] = "asleep" THEN "put" ELSE f[p]]

\* uartstart on the buffer t: an idle device takes the next character.
StartTx_Sleepy(t, f) ==
    IF TxEmpty(t) \/ thr
    THEN tx' = t /\ wpc' = f /\ UNCHANGED <<sent, thr>>
    ELSE /\ sent' = t.buf[t.r % UART_TX_BUF_SIZE]
         /\ tx' = [t EXCEPT !.r = Plus1(@), !.buf[t.r % UART_TX_BUF_SIZE] = DeadOut]
         /\ wpc' = f
         /\ thr' = TRUE

StartTx(t, f) ==
    IF TxEmpty(t) \/ thr
    THEN tx' = t /\ wpc' = f /\ UNCHANGED <<sent, thr>>
    ELSE /\ sent' = t.buf[t.r % UART_TX_BUF_SIZE]
         /\ tx' = [t EXCEPT !.r = Plus1(@), !.buf[t.r % UART_TX_BUF_SIZE] = DeadOut]
         /\ wpc' = WakeTx(f)
         /\ thr' = TRUE

\* consolewrite, one character at a time.
WriteCall(p) ==
    /\ wpc[p] = "user"
    /\ wpc' = [wpc EXCEPT ![p] = "put"]
    /\ UNCHANGED <<inVars, tx, sent, echo, rx, thr, intr, keys>>

UartPutcSleeps(p) ==
    /\ wpc[p] = "put" /\ TxFull
    /\ wpc' = [wpc EXCEPT ![p] = "asleep"]
    /\ UNCHANGED <<inVars, tx, sent, echo, rx, thr, intr, keys>>

UartPutc(p, c) ==
    /\ wpc[p] = "put" /\ ~TxFull
    /\ StartTx([tx EXCEPT !.buf[tx.w % UART_TX_BUF_SIZE] = c, !.w = Plus1(@)],
               [wpc EXCEPT ![p] = "user"])
    /\ UNCHANGED <<inVars, echo, rx, intr, keys>>

\* The second half of uartintr, once no input is left.
UartIntr ==
    /\ intr /\ rx = NoChar /\ echo = 0
    /\ intr' = FALSE
    /\ StartTx(tx, wpc)
    /\ UNCHANGED <<inVars, echo, rx, keys>>

-----------------------------------------------------------------------------
(* The device.                                                               *)

Typed(c) ==
    /\ rx = NoChar /\ keys < MaxKeys
    /\ rx' = c
    /\ keys' = keys + 1
    /\ intr' = TRUE
    /\ UNCHANGED <<inVars, outVars, echo, thr>>

Transmitted ==
    /\ thr
    /\ thr' = FALSE
    /\ intr' = TRUE
    /\ UNCHANGED <<inVars, outVars, echo, rx, keys>>

-----------------------------------------------------------------------------
ReadStep(p) == ReadSleeps(p) \/ ReadChar(p)
WriteStep(p) == UartPutcSleeps(p) \/ \E c \in OutChars : UartPutc(p, c)

ConsNext ==
    \/ \E c \in Keys : Typed(c)
    \/ ConsoleIntr \/ EchoChar \/ UartIntr \/ Transmitted
    \/ \E p \in Readers : ReadStep(p) \/ ReadKilled(p)
    \/ \E p \in Readers, n \in ReadSizes : ReadCall(p, n)
    \/ \E p \in Writers : WriteCall(p) \/ WriteStep(p)

ConsSpec == ConsInit /\ [][ConsNext]_consVars

-----------------------------------------------------------------------------
(* Properties.                                                               *)

Stored(from, to) ==
    [i \in 1..Minus(to, from) |-> cons.buf[((from + i - 1) % ConsMod) % INPUT_BUF_SIZE]]

ConsoleInput == INSTANCE LineDiscipline WITH
    Chars <- LineChars, Terminators <- {"nl", "D"}, Capacity <- INPUT_BUF_SIZE,
    line <- Stored(cons.w, cons.e), ready <- Stored(cons.r, cons.w), given <- got

Waiting == [i \in 1..Minus(tx.w, tx.r) |-> tx.buf[((tx.r + i - 1) % ConsMod) % UART_TX_BUF_SIZE]]
ConsoleOutput == INSTANCE BoundedQueue WITH
    Bytes <- OutChars, Capacity <- UART_TX_BUF_SIZE, queue <- Waiting, out <- sent

\* The console implements a line discipline and an output queue: erasing never
\* reaches a line that was handed over, the rings never overwrite what has not
\* been read or sent, also where their indices wrap; readers get the ended
\* lines in order, and the characters of write() leave in order.
ConsoleImplements == ConsoleInput!LineSpec /\ ConsoleOutput!QueueSpec

\* A reader sleeps only when no ended line is left, a writer only while the
\* transmit buffer is full, and what waits in that buffer always has a
\* completion to come that sends more of it.
NoForgottenWork ==
    /\ (\E p \in Readers : rpc[p] = "asleep") => cons.r = cons.w
    /\ (\E p \in Writers : wpc[p] = "asleep") => TxFull
    /\ ~TxEmpty(tx) => thr \/ intr
=============================================================================
