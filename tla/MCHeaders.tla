------------------------------ MODULE MCHeaders ------------------------------
(* Headers for TLC: up to two values of Connection and of Upgrade. *)
EXTENDS Headers

Lists == SUBSET {"upgrade", "x", "te"}

MCConnections == {<<>>} \cup {<<a>> : a \in Lists} \cup (Lists \X Lists)

Protocols == {"", "websocket", "h2c"}

MCUpgrades == {<<>>} \cup {<<a>> : a \in Protocols} \cup (Protocols \X Protocols)
=============================================================================
