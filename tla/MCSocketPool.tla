---------------------------- MODULE MCSocketPool ----------------------------
(* The values of the constants of SocketPool that a cfg cannot write.       *)
EXTENDS SocketPool

CONSTANT f1

Both == [f \in Fds |-> {"CAN_READ", "CAN_WRITE"}]
=============================================================================
