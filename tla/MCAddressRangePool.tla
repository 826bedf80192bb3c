-------------------------- MODULE MCAddressRangePool --------------------------
(* Three areas: two that touch, and one after a hole. *)
EXTENDS AddressRangePool

Areas == {[base |-> 1, pages |-> 2], [base |-> 3, pages |-> 2], [base |-> 7, pages |-> 2]}
===============================================================================
