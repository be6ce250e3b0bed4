------------------------- MODULE MCAccountLifecycle -------------------------
(***************************************************************************)
(* Instances of AccountLifecycle for TLC: a password account, and a GNOME  *)
(* online account that two frontends may set up, each under an id of its   *)
(* own.                                                                    *)
(***************************************************************************)
EXTENDS AccountLifecycle

CONSTANTS personal, again, work

MCAddressOf == [a \in Account |-> IF a = personal THEN "personal" ELSE "work"]

MCBrokered == Account \ {personal}

MCOrder == SelectSeq(<<personal, again, work>>, LAMBDA a : a \in Account)
=============================================================================
