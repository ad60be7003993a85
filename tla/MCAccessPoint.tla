---------------------------- MODULE MCAccessPoint ----------------------------
(* Two access points and two networks.                                     *)
EXTENDS AccessPoint, TLC

CONSTANTS a1, a2, s1, s2

On(c) == [channel |-> c, enabled |-> TRUE]
Off(c) == [channel |-> c, enabled |-> FALSE]
Pair(x, y) == a1 :> x @@ a2 :> y

S(w, changes, channels, works, known, switches, temp, restarts, lines, failures) ==
  [want |-> w, changes |-> changes, channel |-> s1 :> channels[1] @@ s2 :> channels[2],
   works |-> works, known |-> known, switches |-> switches, temp |-> temp,
   restarts |-> restarts, lines |-> lines, failures |-> failures]

MCAps == {a1, a2}
MCSsids == {s1, s2}

\* two networks on the channels of one band, one of which does not work
Silence == S(Pair(On(36), None), {}, <<149, 44>>, {s1}, {s1, s2}, {}, FALSE, 1, 2, 0)
\* a network on each band
BothBands == S(Pair(On(36), On(6)), {}, <<149, 1>>, {}, {s1, s2}, {}, FALSE, 0, 1, 0)
\* clients move, disable and remove the access point
Changes == S(Pair(On(36), None), {Pair(On(149), None), Pair(Off(6), None), Pair(None, None)},
             <<149, 44>>, {s1}, {s1}, {}, FALSE, 0, 1, 0)
\* clients move one access point to the channel of the other
Two == S(Pair(On(36), On(6)), {Pair(On(1), On(6))}, <<36, 44>>, {}, {s2}, {}, FALSE, 0, 1, 0)
\* the station is switched to a network that is not configured
Switches == S(Pair(On(36), None), {}, <<149, 149>>, {s2}, {s1}, {<<s2, FALSE>>}, FALSE, 0, 1, 0)
\* between two that are configured, one of which does not work
Failing == S(Pair(None, None), {}, <<36, 149>>, {s1}, {s1, s2},
             {s1, s2} \X BOOLEAN, TRUE, 1, 1, 0)
\* commands fail unnoticed, and wpa_supplicant is restarted
Unnoticed == S(Pair(None, None), {}, <<36, 149>>, {s1}, {s1, s2},
               {s1, s2} \X BOOLEAN, FALSE, 1, 1, 2)
\* the same, to and from a network that is not configured
Unlisted == [Unnoticed EXCEPT !.known = {s1}]

MCSetups == {Silence, BothBands, Changes, Two, Switches, Failing, Unnoticed, Unlisted}
=============================================================================
