------------------------------ MODULE MCDecPlay ------------------------------
(* Model checking of DecPlay: an empty file, one that ends in a short unit and *)
(* one that ends with a full unit.                                             *)
EXTENDS DecPlay

MCFiles == {[units |-> 0, tail |-> 0], [units |-> 1, tail |-> 1], [units |-> 2, tail |-> 0]}
=============================================================================
