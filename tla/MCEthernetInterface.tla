------------------------ MODULE MCEthernetInterface -------------------------
(* Instances of EthernetInterface for TLC.                                 *)
EXTENDS EthernetInterface

MCNames == {"eth1", "eth1:0", "eth1:1", "eth10", "eth10:0", "null", "null:0"}
MCIsBinding(name) == name \notin {"eth1", "eth10", "null"}
MCNumbered(name, n) == name \o ":" \o ToString(n)
MCStartsWith(name, start) ==
    /\ Len(start) <= Len(name)
    /\ SubSeq(name, 1, Len(start)) = start
MCLastNum(name) ==
    CASE name = "eth1" -> 1
      [] name \in {"eth10", "null"} -> 0
      [] OTHER -> -1

\* Every file says its own name, but for one: a main file that says nothing, or
\* another device or a binding of its own; a copy of a main file as a binding's,
\* and bindings that say nothing or another's name.
InitialFiles == {"eth1", "eth1:0", "eth10:0"}
Own == [name \in InitialFiles |-> name]
MCDeviceLines ==
    {[Own EXCEPT ![line[1]] = line[2]] :
        line \in {<<"eth1", "eth1">>, <<"eth1", NoName>>, <<"eth1", "eth10">>, <<"eth1", "eth1:0">>,
                  <<"eth1:0", "eth1">>, <<"eth1:0", NoName>>, <<"eth10:0", "eth1:0">>}}
=============================================================================
