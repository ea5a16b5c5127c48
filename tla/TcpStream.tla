----------------------------- MODULE TcpStream ------------------------------
(***************************************************************************)
(* recv on a TCP stream: it waits for something to read and takes any part *)
(* of it, up to the length asked for, from the front. The parts of a       *)
(* stream stand for as many bytes as the programs tell apart.              *)
(***************************************************************************)
EXTENDS Integers, Sequences, SequencesExt

\* The ways in which a recv of up to n parts may return: what it got, what is left.
Recv(stream, n) ==
  {[got  |-> SubSeq(stream, 1, k), left |-> SubSeq(stream, k + 1, Len(stream))] :
     k \in 1..Min({n, Len(stream)})}
==============================================================================
