----------------------------- MODULE MCNetChan -----------------------------
(* Bounds for model-checking NetChan. *)
EXTENDS NetChan

\* One packet; two full fragments, which an empty one must follow (3, 3, 0);
\* three uneven fragments that fill the buffer (3, 2, 2).
MCLengths == {1, 6, 7}
MCMaxSent == [client |-> 1, server |-> 2]
=============================================================================
