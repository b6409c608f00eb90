------------------------------ MODULE MCSignup ------------------------------
(* One mailbox under two spellings, and a leaked password beside a fine    *)
(* one that shares its range, on a line padded in.                         *)
EXTENDS Signup, TLC

CONSTANTS ann, Ann, mailbox, letmein1, xkcd936, range

MCMailbox == ann :> mailbox @@ Ann :> mailbox

MCPrefix == letmein1 :> range @@ xkcd936 :> range
=============================================================================
