--------------------------- MODULE MCPluginReapply ---------------------------
(***************************************************************************)
(* A box with two physical interfaces e and f, a VLAN v on one of them and *)
(* an access point h (hostapd) on the VLAN.                                *)
(***************************************************************************)
EXTENDS PluginReapply, TLC

CONSTANTS e, f, v, h,      \* instances
          a, b, c          \* configurations

MCInstance == {e, f, v, h}
MCCfgVal == {a, b, c}

\* config.json: interface.phy, interface.vlan, hostapd
MCPos == (e :> 0) @@ (f :> 0) @@ (v :> 2) @@ (h :> 9)
MCConcurrent == {9}

\* the VLAN is on e (a) or on f (b); hostapd bridges the VLAN
MCUses == (e :> [x \in MCCfgVal |-> {}])
       @@ (f :> [x \in MCCfgVal |-> {}])
       @@ (v :> [x \in MCCfgVal |-> IF x = b THEN {f} ELSE {e}])
       @@ (h :> [x \in MCCfgVal |-> {v}])

\* interfaces: unchanged, or e's addresses only (a and b)
Same == {<<x, x>> : x \in MCCfgVal}
MCFastFlush == (e :> Same \cup {<<a, b>>, <<b, a>>}) @@ (f :> Same)
            @@ (v :> Same) @@ (h :> {})
MCInPlace == [p \in MCInstance |-> {}]

Net(x, y, z, w) == (e :> x) @@ (f :> y) @@ (v :> z) @@ (h :> w)
Net1 == Net(a, a, a, a)
Net2 == Net(b, a, a, a)          \* e: other addresses
Net3 == Net(None, a, b, a)       \* e removed, the VLAN moved to f
Net4 == Net(c, None, a, None)    \* e rebuilt, no access point
MCNetConfigs == {Net1, Net2, Net3, Net4}

\* e is removed although the VLAN is still on it
BadNet == Net(None, a, a, None)
Net5 == Net(a, None, None, None)
MCNetConfigsBad == {Net1, BadNet, Net5}
=============================================================================
