------------------------------ MODULE MCRuntime ------------------------------
(* Two or three task slots, one of which reads the transport channel and     *)
(* another the UART; priorities as app_configure_route sets them.           *)
EXTENDS Runtime

MCSources == {1, 2}
MCPriority == [s \in {1, 2} |-> 1]
MCReader == [e \in {1, 2} |-> {e - 1}]
=============================================================================
