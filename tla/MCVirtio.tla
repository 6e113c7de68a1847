------------------------------ MODULE MCVirtio ------------------------------
(* A block device or a network card.  A disk request has 3 descriptors and *)
(* the table 8 regions: the third request wraps around it, and three that  *)
(* are new at once, which the ring has room for, meet the limit of an      *)
(* update after 7 descriptors.                                             *)
EXTENDS Virtio, TLC

MCQueueNum == 0 :> 9 @@ 1 :> 2
MCMaxRequests == "blk" :> 4 @@ "net" :> 2
MCNet == "net" :> 2
MCParts == 0 :> 3 @@ 1 :> 1
=============================================================================
