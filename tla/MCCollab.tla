------------------------------ MODULE MCCollab ------------------------------
(***************************************************************************)
(* Two tabs of the overlay's owner on a file of one letter.                *)
(***************************************************************************)
EXTENDS Collab

CONSTANTS c1, c2, letter

MCOriginal == <<letter>>

\* The file is emptied.
MCOutside == {<<>>}
=============================================================================
