---------------------------- MODULE BoundedQueue ----------------------------
(* What a ring buffer of the kernel promises: bytes leave in the order in    *)
(* which they came, none is lost, repeated or invented, and at most Capacity *)
(* of them are inside.                                                       *)
EXTENDS Naturals, Sequences

CONSTANTS Bytes, Capacity

VARIABLES queue,  \* the bytes inside
          out     \* the byte that left last

QueueInit ==
    /\ queue = <<>>
    /\ out \in Bytes

Put(c) ==
    /\ Len(queue) < Capacity
    /\ queue' = Append(queue, c)
    /\ UNCHANGED out

Get ==
    /\ queue # <<>>
    /\ out' = Head(queue)
    /\ queue' = Tail(queue)

\* uartputc on an idle device: the byte goes in and the first one out.
PutGet(c) ==
    /\ Len(queue) < Capacity
    /\ out' = Head(Append(queue, c))
    /\ queue' = Tail(Append(queue, c))

QueueNext == Get \/ \E c \in Bytes : Put(c) \/ PutGet(c)

QueueSpec == QueueInit /\ [][QueueNext]_<<queue, out>>
=============================================================================
