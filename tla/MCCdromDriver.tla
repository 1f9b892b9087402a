----------------------------- MODULE MCCdromDriver -----------------------------
(* The sectors the model checker's clients ask for, and how. *)
EXTENDS CdromDriver

OneLBA == {16}
TwoLBAs == {16, 20}
AllReads == {<<1, TRUE>>, <<1, FALSE>>, <<2, FALSE>>, <<3, FALSE>>}
OneSector == {<<1, TRUE>>}
TwoSectors == {<<2, TRUE>>}
===============================================================================
