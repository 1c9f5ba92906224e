------------------------------ MODULE MCDeleter ------------------------------
(* Three deleter variables, three actions and four impl addresses: enough *)
(* for a chain of two impls shared by a second variable while a third     *)
(* appends to it, and for the wrapper append allocates.                    *)
EXTENDS Deleter
================================================================================
