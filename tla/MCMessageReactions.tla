------------------------ MODULE MCMessageReactions ------------------------
(* MessageReactions for TLC: a list mounted with one message, to which     *)
(* another user has reacted, and a second message that may evict it.       *)
EXTENDS MessageReactions

CONSTANTS m1, other, e1

MCMounted == <<m1>>
MCEarlier == {{<<other, e1>>}}
=============================================================================
