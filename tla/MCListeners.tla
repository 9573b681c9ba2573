----------------------------- MODULE MCListeners -----------------------------
(* Listeners on the scale of MCPorts: one address of each family on this host, *)
(* a target of each kind, and files with each kind of fault.                   *)
EXTENDS Listeners

CONSTANTS
    lan4, lan6, srv4, srv6, doc4, lo4, lo6, web, any4, any6, net4, near4, far4, near6,
    x, y, todo

SomeTyped == {0, 1, 4, MaxPort, MaxPort + 1, MaxPort + 2}
Ends == {Unset, 0, 2, MaxPort, MaxPort + 1, MaxPort + 2}
SomeHandWritten ==
    [start : Ends, end : Ends, suffix : {Unset, 0, 1, 3},
     ports : {Unset, <<>>, <<0>>, <<MaxPort>>, <<4, 2>>, <<2, 4, 2>>}]

Families ==
    [p \in {lan4, srv4, doc4, lo4, any4, net4, near4, far4} |-> Inet4] @@
    [p \in {lan6, srv6, lo6, any6, near6} |-> Inet6]
Anywhere == [f \in {Inet4, Inet6} |-> IF f = Inet4 THEN any4 ELSE any6]
Clients ==
    [n \in {any4, any6, net4} |->
       CASE n = any4 -> {near4, far4} [] n = any6 -> {near6} [] n = net4 -> {near4}]

A4 == [name |-> web, family |-> Inet4, address |-> lan4, protocols |-> <<"tcp">>,
       sources |-> <<net4>>, localnet |-> FALSE, listen |-> Explicit(<<4>>),
       target |-> RemoteTarget(srv4, "masquerade")]
B6 == [name |-> y, family |-> Inet6, address |-> lan6, protocols |-> <<"tcp", "udp">>,
       sources |-> <<>>, localnet |-> FALSE, listen |-> Suffixed(2, MaxPort, 1),
       target |-> Redirect]
L4 == [A4 EXCEPT !.target = RemoteTarget(lo4, Unset)]
L6 == [B6 EXCEPT !.target = RemoteTarget(Localhost, Unset)]
X6 == [B6 EXCEPT !.target = RemoteTarget(lo4, Unset)]

SomeFiles == {<<>>, <<B6, A4>>, <<L4, L6>>, <<A4, X6>>}

\* What an editor may write: another target, other sources, and mistakes.
SomeProfiles ==
    LET H == [A4 EXCEPT !.name = todo, !.sources = <<>>]
        Z == [H EXCEPT !.name = x]
    IN  {H, Z,
         [Z EXCEPT !.target = RemoteTarget(srv4, "preserve")],
         [Z EXCEPT !.target = LoopbackDnat], [Z EXCEPT !.target = LoopbackDnat, !.localnet = TRUE],
         [Z EXCEPT !.target = RemoteTarget(web, "masquerade"), !.sources = <<net4, any4>>],
         [Z EXCEPT !.target = RemoteTarget(lo4, "preserve"), !.protocols = <<"udp">>],
         [Z EXCEPT !.target = RemoteTarget(lan4, "preserve"), !.protocols = <<"udp">>],
         [Z EXCEPT !.sources = <<any6>>], [Z EXCEPT !.sources = <<Malformed>>],
         [Z EXCEPT !.protocols = <<"tcp", "tcp">>], [Z EXCEPT !.protocols = <<>>],
         [Z EXCEPT !.target = RemoteTarget(doc4, "masquerade")],
         [Z EXCEPT !.address = lan6, !.family = Inet6],
         [Z EXCEPT !.address = lan6, !.family = Inet6, !.target = RemoteTarget(srv6, Unset)]}
=============================================================================
