--------------------------- MODULE MCWireguardMesh ---------------------------
(* Three boxes: relays, boxes that move, faults.                           *)
EXTENDS WireguardMesh, TLC

S(routers, origin, down, slow, links, boxes, f) ==
  [willing |-> routers, origin |-> origin, down |-> down, slow |-> slow, links |-> links, boxes |-> boxes,
   faults |-> [k \in Faults |-> IF k \in DOMAIN f THEN f[k] ELSE 0]]

MCNodes == 1..3

Fixed == [n \in MCNodes |-> "fixed"]
Mixed == [Fixed EXCEPT ![1] = "none", ![2] = "name"]

\* two boxes that relay for each other lose the same third one
Loops == S({1, 2}, Fixed, {}, {}, {{1, 3}, {2, 3}}, {}, [link |-> 3])
\* a box loses the two others, which relay for each other
Alone == S({2, 3}, Fixed, {}, {}, {{1, 2}, {1, 3}}, {}, [link |-> 2])
Lossy == S({1, 2}, Fixed, {}, {}, {{1, 3}, {2, 3}}, {}, [link |-> 2, loss |-> 1])
Failing == S({3}, Fixed, {}, {}, {{1, 2}}, {}, [link |-> 2, fail |-> 1])
\* a box that asks for a relay is configured while its reapply() runs
Replaced == S({3}, Fixed, {{1, 2}}, {1}, {}, {1}, [recreate |-> 1])
\* the relay is configured anew, and may no longer want to be one
Unwilling == S({3}, Fixed, {{1, 2}}, {}, {}, {3}, [recreate |-> 1])
Roaming == S({}, Mixed, {}, {}, {{1, 3}}, {2}, [link |-> 1, move |-> 1, dns |-> 1])
\* two boxes move before they meet again
Moving == S({}, Fixed, {}, {}, {}, {1, 3}, [move |-> 2])

MCSetups == {Loops, Alone, Lossy, Failing, Replaced, Unwilling, Roaming, Moving}
=============================================================================
