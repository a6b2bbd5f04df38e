----------------------------- MODULE MCMailbox ------------------------------
(* Mailbox on small instances: messages from x to y, and broadcasts by x. *)
EXTENDS Mailbox

CONSTANTS x, y, z, m2

FromX     == [m \in Msg |-> x]
ToY       == [m \in Msg |-> y]
ToAll     == [m \in Msg |-> Everyone]

NoLegacy  == {}
OldMail   == {<<m2, y>>}

NoMoves   == {}
Withdraw  == {"revoked"}
AllMoves  == {"acted", "verified", "deferred", "expired", "dead_lettered", "revoked"}
=============================================================================
