------------------------------ MODULE ActiveWan ------------------------------
(***************************************************************************)
(* What the global routing plugin promises: given the WANs that pass their *)
(* connectivity test, which of them carry the traffic.  How the choice is  *)
(* made, in how many steps and with which delays, is WanFailover's matter. *)
(*                                                                         *)
(* "settled" says that no change of the routes is under way or scheduled.  *)
(* While it is false the active WANs may be anything on the way to the     *)
(* next choice; once it is true they are the right ones, and they stay     *)
(* until something is unsettled again.                                     *)
(***************************************************************************)
EXTENDS Integers, FiniteSets, Sequences

CONSTANTS Wan, Configs

VARIABLES conf,     \* the type of the routing and the WANs in their order
          ready,    \* the WANs that are connected, as far as is known
          active,   \* the WANs that carry traffic
          settled   \* nothing is under way

vars == <<conf, ready, active, settled>>

\* The WANs of the configuration that come before w in its order
Before(c, w) ==
  LET n == Len(c.order) IN
  {c.order[i] : i \in {j \in 1..n : \E k \in 1..n : j < k /\ c.order[k] = w}}

First(c, rdy) == {w \in rdy : Before(c, w) \cap rdy = {}}

\* The first ready WAN in order carries the traffic, or all of them share it;
\* a WAN that failed just now may keep its share
Acceptable ==
  IF conf.type = "load_balance" THEN ready \subseteq active
                                ELSE active = First(conf, ready)

Init ==
  /\ conf \in Configs /\ ready \subseteq Wan /\ active \subseteq Wan
  /\ settled = FALSE

\* A test found a WAN connected or not; this may or may not ask for a choice
Report ==
  /\ \E w \in Wan : ready' \in {ready \cup {w}, ready \ {w}}
  /\ settled' \in BOOLEAN
  /\ settled' => Acceptable'
  /\ UNCHANGED <<conf, active>>

\* One WAN is made active or inactive, or the choice is declared done
Choose ==
  /\ ~settled
  /\ \E w \in Wan : active' \in {active, active \cup {w}, active \ {w}}
  /\ settled' \in BOOLEAN
  /\ settled' => Acceptable'
  /\ UNCHANGED <<conf, ready>>

\* Something else than a test asks for a new choice
Unsettle ==
  /\ settled' = FALSE
  /\ UNCHANGED <<conf, ready, active>>

\* A configuration takes effect; what is known of its WANs is a guess
Reconfigure ==
  /\ ~settled /\ settled' = FALSE
  /\ conf' \in Configs /\ ready' \subseteq Wan /\ active' \subseteq Wan

Next == Report \/ Choose \/ Unsettle \/ Reconfigure

\* whatever was asked for, the choice is made in the end
Spec == Init /\ [][Next]_vars /\ []<>settled
=============================================================================
