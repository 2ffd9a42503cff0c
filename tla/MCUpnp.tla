------------------------------- MODULE MCUpnp -------------------------------
(* A host with two addresses: one mapping that is wanted for good at a port   *)
(* of its own, and one gated mapping that leaves the port to the router.  On  *)
(* its LAN, beside the router: a device whose descriptor does not parse and   *)
(* one whose WAN service has no control URL, each of which may hang.  Eight   *)
(* seconds outlast one that hangs, and not two.                               *)
EXTENDS Upnp

Web  == [internal |-> 1, external |-> 2, address |-> Unknown, gated |-> FALSE]
Game == [internal |-> 3, external |-> 0, address |-> Unknown, gated |-> TRUE]

MCRequests == {Web, Game}
OnlyWeb    == {Web}

Service(type, host, path) == [type |-> type, control |-> [host |-> host, path |-> path]]
Device(services, children) == [services |-> services, children |-> children]

\* The IGDv2 service is in the deepest and last device of the tree.
Gateway(control) ==
    [parses |-> TRUE, hangs |-> FALSE, base |-> "base",
     devices |-> <<Device(<<Service("Layer3Forwarding:1", "", "/l3f")>>, <<2, 3>>),
                   Device(<<Service("WANPPPConnection:1", "", "/ppp"),
                            Service("WANIPConnection:1", "", "/ip1")>>, <<>>),
                   Device(<<>>, <<4>>),
                   Device(<<control>>, <<>>)>>]
Garbled == [parses |-> FALSE, hangs |-> FALSE, base |-> "",
            devices |-> <<Device(<<Service("WANIPConnection:1", "", "/ip")>>, <<>>)>>]
Silent  == [parses |-> TRUE, hangs |-> FALSE, base |-> "",
            devices |-> <<Device(<<Service("WANIPConnection:1", "", "")>>, <<>>)>>]

Hanging(d) == [d EXCEPT !.hangs = TRUE]

Lan(control) == [igd |-> Gateway(control), tv |-> Garbled, nas |-> Silent]

Here    == Service("WANIPConnection:2", "", "/ip2")
Prompt  == Lan(Here)
OneHangs  == [Prompt EXCEPT !.tv = Hanging(Garbled)]
BothHang  == [OneHangs EXCEPT !.nas = Hanging(Silent)]
SomeLans  == {Prompt, OneHangs, BothHang}

\* A reboot moves the control URL of the router.
TwoLans == {Prompt, Lan(Service("WANIPConnection:2", "other", "/ip2"))}
=============================================================================
