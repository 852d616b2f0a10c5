---------------------------- MODULE MCLinuxCalls ----------------------------
(* LinuxCalls with a handful of routes over addresses of two bits: a        *)
(* default route, a net behind a gateway with twins that differ in the      *)
(* device or in the metric, and a host on a link.                           *)
EXTENDS LinuxCalls

Route(dst, len, gw, metric, dev) ==
    [dst |-> dst, len |-> len, gw |-> gw, metric |-> metric, dev |-> dev]

MCRoutes ==
    {Route(0, 0, 9, 0, 1),
     Route(2, 1, 9, 1, 1), Route(2, 1, 9, 1, 2), Route(2, 1, 9, 2, 1),
     Route(2, 2, 0, 1, 1)}
=============================================================================
