--------------------------- MODULE MCNodeSettings ---------------------------
(***************************************************************************)
(* A small instance of NodeSettings: two addresses, two powers, two hosts, *)
(* requests that touch one setting and the combinations that matter (a     *)
(* static address with its mode, an address with a power).                 *)
(***************************************************************************)
EXTENDS NodeSettings, TLC

CONSTANTS a1, a2

MCDefault == [live |-> "l0", power |-> "p0", host |-> "h0", mode |-> "dhcp", addr |-> NoAddr]
MCValues == {"l0", "l1", "p0", "p1", "h0", "h1", "dhcp", "static", NoAddr, a1, a2}

MCAddrs == {a1, a2}

MCRequests ==
    {"live" :> "l1", "power" :> "p0", "power" :> "p1", "host" :> "h1",
     "mode" :> "dhcp", "mode" :> "static", "addr" :> NoAddr, "addr" :> a1, "addr" :> a2,
     "mode" :> "static" @@ "addr" :> a1,
     "mode" :> "static" @@ "addr" :> a2 @@ "power" :> "p1"}
==============================================================================
