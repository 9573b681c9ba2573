------------------------------ MODULE MCPorts ------------------------------
(* Ports on a scale TLC can exhaust: ports 0..12 written in base 3, words up  *)
(* to 49, so that (as with 2^32 and base 10) the widest suffixes have a power *)
(* that wraps to a modulus above every port, below some of those suffixes and *)
(* above others.                                                              *)
EXTENDS Ports

SomeTyped == 0..(MaxPort + 2)

Ends == {Unset, 0, 1, 2, MaxPort, MaxPort + 1, MaxPort + 2}
PortLists == {Unset, <<>>, <<0>>, <<MaxPort>>, <<4, 2>>, <<2, 4, 2>>}

SomeHandWritten ==
    [start : Ends, end : Ends, suffix : {Unset, 0, 1, 3}, ports : PortLists]
=============================================================================
