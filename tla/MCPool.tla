------------------------------- MODULE MCPool -------------------------------
(* Pool with three items, two POIs and a limit of two: a third item would  *)
(* break the limit, and two borrowers can fill it and leave a third        *)
(* asynchronous borrower waiting for a put_back.                           *)
EXTENDS Pool

CONSTANTS i1, i2, i3, c1, c2

MCItems == {i1, i2, i3}
MCIds == {c1, c2}
=============================================================================
