------------------------------- MODULE MCBuffer -------------------------------
(* The small instances of Buffer.tla that TLC explores. *)
EXTENDS Buffer

\* A limited buffer and an unlimited one.
MCSizes == {<<2, 8>>, <<2, 0>>}

\* Capacities that are, and that are not, what doubling steps add up to.
MCOddSizes == {<<3, 24>>, <<2, 9>>, <<4, 4>>, <<5, 0>>}

\* The calls of test_evbuffsock.c, with its sizes and texts, end as its two
\* assertions say: of the allocation and of what the buffer holds.
Real == INSTANCE BufferOps WITH IntHalf <- 1048576, MaxRead <- 4096

AfterAdding(b, text) == CHOOSE r \in Real!Added(b, text) : TRUE

ASSUME EvbuffsockTest ==
  LET digits == <<"1", "2", "3", "4", "5", "6", "7", "8", "9", "0">>
      ghjk == <<"g", "h", "j", "k">>
      signs == <<"!", "@", "#", "$", "%", "^">>
      b0 == Real!new_buffer(16, 64)
      b1 == AfterAdding(AfterAdding(AfterAdding(b0, <<"a", "s", "d", "f">>), digits), ghjk)
      b2 == AfterAdding(AfterAdding(Real!Drained(b1, 8), digits), signs)
  IN  /\ b2.length = 32
      /\ b2.bytes = SubSeq(digits, 5, 10) \o ghjk \o digits \o signs
===============================================================================
