----------------------- MODULE MCAttachmentPreparation -----------------------
(* Limits on both sides of the sizes that occur, for TLC. *)
EXTENDS AttachmentPreparation

MCBodySizes == {0, 2, 3}
MCPartLimits == {NoLimit, 2}
MCTotalLimits == {NoLimit, 4}
MCReadLimits == {1, 3, MaxUsize}
===============================================================================
