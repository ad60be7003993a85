----------------------------- MODULE MCServices -----------------------------
(* Two instances of each plugin.                                           *)
EXTENDS Services, TLC

CONSTANTS a, b, ip1, ip2, w1, w2

C(on, w, v) == [on |-> on, wan |-> w, v |-> v]
Plan(ca, cb, on) == [conf |-> (a :> ca @@ b :> cb), on |-> (a :> on @@ b :> TRUE)]

Setup(k, plans, moves, protoA, protoB) ==
  [kind |-> k, plans |-> plans, moves |-> moves \cup {"config"}, limit |-> 2,
   proto |-> (a :> protoA @@ b :> protoB), spare |-> w1]

On == C(TRUE, FALSE, 1)
Off == C(FALSE, FALSE, 1)
More == C(TRUE, FALSE, 2)
Auto == C(TRUE, TRUE, 1)

\* both; one of them changed, its interface disabled; the other one alone
Plans(one, other) ==
  {Plan(one, one, TRUE), Plan(other, one, FALSE), Plan(None, other, TRUE)}

MCSetups ==
  {Setup("dns", Plans(Auto, On), {"ip", "wan"}, "pptp", "sip"),
   Setup("default", {Plan(Auto, None, TRUE), Plan(More, None, TRUE)}, {"wan"}, "pptp", "sip"),
   Setup("dhcp", Plans(On, More), {"plug"}, "pptp", "sip"),
   Setup("mdns", Plans(On, Off), {"plug"}, "pptp", "sip"),
   Setup("sshd", Plans(On, Off), {"ip"}, "pptp", "sip"),
   Setup("upnp", Plans(Auto, On), {"wan"}, "pptp", "sip"),
   Setup("igmp", {Plan(On, None, TRUE), Plan(None, More, TRUE), Plan(Off, None, TRUE)},
         {"plug"}, "pptp", "sip"),
   Setup("mroute", Plans(On, More), {"plug"}, "pptp", "sip"),
   Setup("icmp", Plans(On, Off), {}, "pptp", "sip"),
   Setup("docker", Plans(On, Off), {}, "pptp", "sip"),
   Setup("nat", Plans(On, Off) \cup {Plan(More, More, TRUE)}, {"prefix"}, "pptp", "sip"),
   Setup("pass", Plans(On, Off), {}, "pptp", "sip"),
   Setup("pass", Plans(On, Off), {}, "l2tp", "h323"),
   Setup("pass", Plans(On, Off), {}, "ipsec", "pptp")}
=============================================================================
