---------------------------- MODULE MCBlockState ----------------------------
(* A logical volume on a partition on a disk, of two sectors each; a       *)
(* complete trace of all of them, or an incomplete one of the first        *)
(* sectors.                                                                *)
EXTENDS BlockState

CONSTANTS lv, part, disk

MCDevs    == {lv, part, disk}
MCSectors == {0, 1}

At(d, s) == [dev |-> d, sector |-> s]

\* The volume is laid out on the partition in the reverse order.
Linear ==
    [p \in Places |->
        CASE p = At(lv, 0)   -> At(part, 1)
          [] p = At(lv, 1)   -> At(part, 0)
          [] p = At(part, 0) -> At(disk, 0)
          [] p = At(part, 1) -> At(disk, 1)
          [] OTHER           -> None]

MCTraces == {[lossless |-> TRUE, places |-> Places, events |-> 8],
             [lossless |-> FALSE, places |-> {At(lv, 0), At(disk, 0)},
              events |-> 6]}
=============================================================================
