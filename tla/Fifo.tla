-------------------------------- MODULE Fifo --------------------------------
(***************************************************************************)
(* What an output queue promises to the threads that write to it and to    *)
(* the interrupt that drains it, whatever its pointers and waiting threads *)
(* do: the bytes accepted leave in the order of their acceptance, no byte  *)
(* leaves twice, and at most Size are inside.                              *)
(***************************************************************************)
EXTENDS Naturals, Sequences

CONSTANTS Bytes, Size

VARIABLE
  content     (* accepted and not yet taken                                *)

Init == content = <<>>

Put(b) == Len(content) < Size /\ content' = Append(content, b)

Get == content # <<>> /\ content' = Tail(content)

Next == (\E b \in Bytes : Put(b)) \/ Get

Spec == Init /\ [][Next]_content
=============================================================================
