------------------------------ MODULE KeyFifo ------------------------------
(***************************************************************************)
(* What a buffered keyboard driver promises: the bytes a keyboard sends    *)
(* are read in the order they were sent, each as it was sent; a byte that  *)
(* completes while Size bytes are waiting is dropped, never a waiting one. *)
(***************************************************************************)
EXTENDS Naturals, Sequences

CONSTANTS Codes, Size, NoCode

VARIABLES
  typing,    \* the byte being sent, NoCode between bytes
  queue      \* bytes sent and not read

fvars == <<typing, queue>>

FifoInit == typing = NoCode /\ queue = <<>>

Type(c) == typing = NoCode /\ typing' = c /\ UNCHANGED queue

Arrive ==
  /\ typing # NoCode
  /\ typing' = NoCode
  /\ queue' = IF Len(queue) < Size THEN Append(queue, typing) ELSE queue

Read ==
  /\ queue # <<>>
  /\ queue' = Tail(queue)
  /\ UNCHANGED typing

FifoNext == (\E c \in Codes : Type(c)) \/ Arrive \/ Read

FifoSpec == FifoInit /\ [][FifoNext]_fvars
=============================================================================
