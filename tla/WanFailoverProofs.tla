-------------------------- MODULE WanFailoverProofs --------------------------
(***************************************************************************)
(* Theorems about WanFailover, for any box, configurations and events: the *)
(* queue, what subscribers know, the LED and what is in use; where the     *)
(* default routes are, and that the active WANs are the ones that          *)
(* ActiveWan promises.                                                     *)
(***************************************************************************)
EXTENDS WanFailover, FiniteSetTheorems, TLAPS

(***************************************************************************)
(* Types                                                                   *)
(***************************************************************************)
Record == [seq : Nat, ready : BOOLEAN, active : BOOLEAN, inUse : BOOLEAN,
           carrier : BOOLEAN \cup {None}]

IsTable(t) == t \in [DOMAIN t -> Record] /\ DOMAIN t \subseteq Wan

Jobs == [op : {"switch", "apply", "flush", "flush6", "refresh"},
         af : SUBSET Families, arg : Configs \cup Wan \cup {None}]

IsRun(r) ==
  /\ r \in [pc : {"idle", "build", "begin", "loop", "refresh"},
            todo : Seq(Wan), new : {r.new}, before : SUBSET Wan,
            current : Wan \cup {None}, last : Wan \cup {None}, inUseFound : BOOLEAN,
            read : BOOLEAN \cup {None}, hops : SUBSET Wan, metric : Nat]
  /\ IsTable(r.new)

Types ==
  /\ setup \in Setups /\ conf \in setup.configs
  /\ hw \in [Wan -> {"gone", "down", "up"}]
  /\ IsTable(status)
  /\ route \in [Families -> [Wan -> Nat]] /\ multi \in [Families -> SUBSET Wan]
  /\ jobs \in Seq(Jobs) /\ IsRun(run)
  /\ timer \in BOOLEAN /\ reapply \in {"no", "flushing", "flushed", "applying"}
  /\ subs \subseteq Wan

\* A job is for what its operation is for, and the plugin loader waits for it.
Proper(j, phase) ==
  /\ j.op = "switch" => j.af \in {Families, {6}}
  /\ j.op \in {"apply", "flush"} => j.af = Families
  /\ j.op = "flush6" => j.af = {6}
  /\ j.op = "refresh" => j.af = {4} /\ j.arg \in Wan /\ setup.smooth
  /\ j.op = "flush" => j.arg \in setup.configs /\ phase = "flushing"
  /\ j.op = "apply" => phase = "applying"

Loaders(j) == j.op \in {"apply", "flush"}

\* Who is where in the queue: at most one flush or apply, as the plugin
\* loader has one reapply at a time.
Queue ==
  /\ \A i \in 1..Len(jobs) : Proper(jobs[i], reapply)
  /\ \A i, j \in 1..Len(jobs) :
       jobs[i].op = jobs[j].op /\ Loaders(jobs[i]) => i = j
  /\ jobs = <<>> => run.pc = "idle"
  /\ run.pc \in {"build", "begin"} => Holder.op = "apply"
  /\ run.pc = "loop" => Holder.op \in {"switch", "apply"}
  /\ run.pc = "refresh" => Holder.op = "refresh" /\ Holder.arg \in Known

-----------------------------------------------------------------------------
(* The operators                                                           *)

\* A box has one of its configurations, which lists some of its interfaces.
LEMMA ConfFacts ==
  ASSUME setup \in Setups, NEW c \in setup.configs
  PROVE  /\ c \in Configs
         /\ c.type \in {"single", "primary_standby", "load_balance"}
         /\ c.order \in Seq(setup.wans) /\ c.order \in Seq(Wan) /\ Len(c.order) \in Nat
         /\ Len(c.order) > 0
         /\ \A i \in 1..Len(c.order) : c.order[i] \in Wan
         /\ \A i, j \in 1..Len(c.order) : c.order[i] = c.order[j] => i = j
BY SetupAssumption DEF Configs

\* A table stays one when records of its WANs are replaced.
LEMMA TableExcept ==
  ASSUME NEW st, IsTable(st), NEW w \in DOMAIN st, NEW r \in Record
  PROVE  IsTable([st EXCEPT ![w] = r])
BY DEF IsTable

\* The loop goes through the WANs of the table.
IsOrder(o, st) ==
  /\ o \in Seq(Wan)
  /\ DOMAIN st = {o[i] : i \in 1..Len(o)}
  /\ \A i \in 1..Len(o) : st[o[i]].seq = i - 1

\* Sorted by rank they are in the order of the configuration.
LEMMA RankIsOrder ==
  ASSUME NEW o, NEW st, IsOrder(o, st)
  PROVE  ByRank(st) = o
<1>1. /\ o \in Seq(Wan) /\ Len(o) \in Nat /\ DOMAIN st = {o[i] : i \in 1..Len(o)}
      /\ o = [i \in 1..Len(o) |-> o[i]]
      /\ \A i \in 1..Len(o) : st[o[i]].seq = i - 1
  BY DEF IsOrder
<1>2. Cardinality(DOMAIN st) = Len(o)
  <2>1. o \in Bijection(1..Len(o), DOMAIN st)
    <3>1. o \in [1..Len(o) -> DOMAIN st]
      BY <1>1
    <3>2. \A i, j \in 1..Len(o) : o[i] = o[j] => i = j
      <4> TAKE i, j \in 1..Len(o)
      <4> HAVE o[i] = o[j]
      <4>1. st[o[i]].seq = i - 1 /\ st[o[j]].seq = j - 1
        BY <1>1
      <4> QED BY <4>1, <1>1
    <3>3. \A w \in DOMAIN st : \E i \in 1..Len(o) : o[i] = w
      BY <1>1
    <3> QED BY <3>1, <3>2, <3>3 DEF Bijection, Injection, Surjection, IsInjective
  <2>2. IsFiniteSet(1..Len(o)) /\ Cardinality(1..Len(o)) = Len(o)
    BY <1>1, FS_Interval
  <2>3. ExistsBijection(1..Len(o), DOMAIN st)
    BY <2>1 DEF ExistsBijection
  <2> QED BY <2>2, <2>3, FS_Bijection
<1>3. ASSUME NEW i \in 1..Len(o)
      PROVE  (CHOOSE w \in DOMAIN st : st[w].seq = i - 1) = o[i]
  <2>1. \A w \in DOMAIN st : st[w].seq = i - 1 => w = o[i]
    <3> TAKE w \in DOMAIN st
    <3> HAVE st[w].seq = i - 1
    <3>1. PICK j \in 1..Len(o) : w = o[j]
      BY <1>1
    <3>2. j - 1 = i - 1
      BY <3>1, <1>1
    <3> QED BY <3>1, <3>2, <1>1
  <2>2. o[i] \in DOMAIN st /\ st[o[i]].seq = i - 1
    BY <1>1
  <2> QED BY <2>1, <2>2
<1>4. ByRank(st) = [i \in 1..Len(o) |-> CHOOSE w \in DOMAIN st : st[w].seq = i - 1]
  BY <1>2 DEF ByRank
<1> QED BY <1>1, <1>3, <1>4

-----------------------------------------------------------------------------
(* What the steps do to the types                                          *)

\* The routes and their metrics stay what they are.
LEMMA RouteFacts ==
  ASSUME Types
  PROVE  /\ \A gone, af : Without(gone, af) \in [Families -> [Wan -> Nat]]
         /\ \A gone, af : \A f \in Families, w \in Wan :
              Without(gone, af)[f][w] = IF f \in af /\ w \in gone THEN 0 ELSE route[f][w]
         /\ \A w \in Wan, n \in Nat : \A af : With(w, n, af) \in [Families -> [Wan -> Nat]]
         /\ \A w \in Wan, n \in Nat : \A af : \A f \in Families, v \in Wan :
              With(w, n, af)[f][v] = IF f \in af /\ v = w THEN n ELSE route[f][v]
         /\ \A w \in Known, b \in BOOLEAN : Metric(w, b) \in Nat
<1> USE DEF Families
<1>1. route \in [Families -> [Wan -> Nat]]
  BY DEF Types
<1>2. \A gone, af : Without(gone, af) \in [Families -> [Wan -> Nat]]
  BY <1>1 DEF Without
<1>3. \A gone, af : \A f \in Families, w \in Wan :
        Without(gone, af)[f][w] = IF f \in af /\ w \in gone THEN 0 ELSE route[f][w]
  BY <1>1 DEF Without
<1>4. ASSUME NEW w \in Wan, NEW n \in Nat, NEW af
      PROVE  /\ With(w, n, af) \in [Families -> [Wan -> Nat]]
             /\ \A f \in Families, v \in Wan :
                  With(w, n, af)[f][v] = IF f \in af /\ v = w THEN n ELSE route[f][v]
  <2>1. route[4] \in [Wan -> Nat] /\ route[6] \in [Wan -> Nat]
    BY <1>1
  <2>2. With(w, n, af) = [[route EXCEPT ![4] = [route[4] EXCEPT ![w] = IF 4 \in af THEN n ELSE @]]
                            EXCEPT ![6] = [route[6] EXCEPT ![w] = IF 6 \in af THEN n ELSE @]]
    BY <1>1 DEF With
  <2>3. With(w, n, af)[4] = [route[4] EXCEPT ![w] = IF 4 \in af THEN n ELSE @]
        /\ With(w, n, af)[6] = [route[6] EXCEPT ![w] = IF 6 \in af THEN n ELSE @]
    BY <2>2, <1>1
  <2>4. With(w, n, af)[4] \in [Wan -> Nat] /\ With(w, n, af)[6] \in [Wan -> Nat]
    BY <2>1, <2>3
  <2>5. With(w, n, af) = [f \in Families |-> With(w, n, af)[f]]
    BY <2>2, <1>1
  <2>6. With(w, n, af) \in [Families -> [Wan -> Nat]]
    BY <2>4, <2>5
  <2>7. \A f \in Families, v \in Wan :
          With(w, n, af)[f][v] = IF f \in af /\ v = w THEN n ELSE route[f][v]
    BY <2>1, <2>3
  <2> QED BY <2>6, <2>7
<1>5. \A w \in Known, b \in BOOLEAN : Metric(w, b) \in Nat
  BY DEF Types, Metric, Known, IsTable, Record
<1> QED BY <1>2, <1>3, <1>4, <1>5

\* A turn changes the flags of the records, and nothing else in them.
LEMMA TurnFacts ==
  ASSUME Types, InLoop, Len(run.todo) > 0, Head(run.todo) \in Known, Turn
  PROVE  LET w == Head(run.todo) IN
         /\ IsTable(status') /\ DOMAIN status' = Known
         /\ \A v \in Known : /\ status'[v].seq = status[v].seq
                             /\ status'[v].ready = status[v].ready
                             /\ status'[v].carrier = status[v].carrier
                             /\ v # w => status'[v].active = status[v].active
         /\ status'[w].active = (status[w].ready /\ run.current = None)
<1> DEFINE w == Head(run.todo)
           s == status[w]
           act == s.ready /\ run.current = None
           found == act \/ run.current # None
           inUse == IF found THEN act ELSE Linked(w) /\ ~run.inUseFound
<1>1. status' = [v \in Known |->
                   IF v = w THEN [s EXCEPT !.active = act, !.inUse = inUse]
                   ELSE [status[v] EXCEPT !.inUse = @ /\ ~act]]
  BY DEF Turn
<1>2. w \in Known /\ Known \subseteq Wan /\ \A v \in Known : status[v] \in Record
  BY DEF Types, IsTable, Known
<1>3. act \in BOOLEAN /\ inUse \in BOOLEAN
  BY <1>2 DEF Record, Types, IsRun, Linked
<1> HIDE DEF act, inUse
<1>4. [s EXCEPT !.active = act, !.inUse = inUse] \in Record
      /\ [s EXCEPT !.active = act, !.inUse = inUse].seq = s.seq
      /\ [s EXCEPT !.active = act, !.inUse = inUse].ready = s.ready
      /\ [s EXCEPT !.active = act, !.inUse = inUse].carrier = s.carrier
      /\ [s EXCEPT !.active = act, !.inUse = inUse].active = act
  BY <1>2, <1>3 DEF Record
<1>5. ASSUME NEW v \in Known
      PROVE  /\ [status[v] EXCEPT !.inUse = @ /\ ~act] \in Record
             /\ [status[v] EXCEPT !.inUse = @ /\ ~act].seq = status[v].seq
             /\ [status[v] EXCEPT !.inUse = @ /\ ~act].ready = status[v].ready
             /\ [status[v] EXCEPT !.inUse = @ /\ ~act].carrier = status[v].carrier
             /\ [status[v] EXCEPT !.inUse = @ /\ ~act].active = status[v].active
  BY <1>2, <1>3 DEF Record
<1> HIDE DEF w, s
<1>6. \A v \in Known : status'[v] \in Record
  BY <1>1, <1>4, <1>5
<1>7. DOMAIN status' = Known /\ status' = [v \in Known |-> status'[v]]
  BY <1>1
<1>8. IsTable(status')
  BY <1>2, <1>6, <1>7 DEF IsTable
<1>9. \A v \in Known : /\ status'[v].seq = status[v].seq
                       /\ status'[v].ready = status[v].ready
                       /\ status'[v].carrier = status[v].carrier
                       /\ v # w => status'[v].active = status[v].active
  <2> TAKE v \in Known
  <2>1. CASE v = w
    BY <1>1, <1>4, <2>1, <1>2 DEF s
  <2>2. CASE v # w
    <3>1. status'[v] = [status[v] EXCEPT !.inUse = @ /\ ~act]
      BY <1>1, <2>2
    <3> QED BY <3>1, <1>5, <2>2
  <2> QED BY <2>1, <2>2
<1>10. status'[w].active = act
  <2>1. status'[w] = [s EXCEPT !.active = act, !.inUse = inUse]
    BY <1>1, <1>2
  <2> QED BY <2>1, <1>4
<1> QED BY <1>7, <1>8, <1>9, <1>10 DEF w, s, act

\* So does the end of the loop, which looks only for who is in use,
LEMMA EndFacts ==
  ASSUME Types, IsOrder(ByRank(status), status), End
  PROVE  /\ IsTable(status') /\ DOMAIN status' = Known
         /\ \A v \in Known : /\ status'[v].seq = status[v].seq
                             /\ status'[v].ready = status[v].ready
                             /\ status'[v].carrier = status[v].carrier
                             /\ status'[v].active = status[v].active
<1>1. status' = Tentative
  BY DEF End
<1>2. Known \subseteq Wan /\ (\A v \in Known : status[v] \in Record)
      /\ status = [v \in Known |-> status[v]]
  BY DEF Types, IsTable, Known
<1>3. CASE Tentative = status
  BY <1>1, <1>2, <1>3 DEF IsTable
<1>4. CASE /\ Tentative = [status EXCEPT ![ByRank(status)[1]].inUse = TRUE]
  <2> DEFINE w == ByRank(status)[1]
             r == [status[w] EXCEPT !.inUse = TRUE]
  <2>1. CASE w \in Known
    <3>1. r \in Record /\ r.seq = status[w].seq /\ r.ready = status[w].ready
          /\ r.carrier = status[w].carrier /\ r.active = status[w].active
      BY <1>2, <2>1 DEF Record
    <3>2. status' = [status EXCEPT ![w] = r]
      BY <1>1, <1>4
    <3> HIDE DEF r, w
    <3> QED BY <1>2, <3>1, <3>2 DEF IsTable
  <2>2. CASE w \notin Known
    BY <1>1, <1>2, <1>4, <2>2 DEF IsTable
  <2> QED BY <2>1, <2>2
<1>5. CASE \E plugged \in SUBSET Known :
             Tentative = [w \in Known |-> [status[w] EXCEPT
                            !.inUse = w \in plugged /\ Outranks(w, plugged \ {w})]]
  <2>1. PICK plugged \in SUBSET Known :
          status' = [w \in Known |-> [status[w] EXCEPT
                       !.inUse = w \in plugged /\ Outranks(w, plugged \ {w})]]
    BY <1>1, <1>5
  <2>2. ASSUME NEW w \in Known
        PROVE  /\ status'[w] \in Record /\ status'[w].seq = status[w].seq
               /\ status'[w].ready = status[w].ready
               /\ status'[w].carrier = status[w].carrier
               /\ status'[w].active = status[w].active
    <3> DEFINE b == w \in plugged /\ Outranks(w, plugged \ {w})
    <3>1. b \in BOOLEAN
      BY DEF Outranks
    <3>2. status'[w] = [status[w] EXCEPT !.inUse = b]
      BY <2>1
    <3> HIDE DEF b
    <3> QED BY <1>2, <3>1, <3>2 DEF Record
  <2>3. status' = [v \in Known |-> status'[v]] /\ DOMAIN status' = Known
    BY <2>1
  <2> QED BY <1>2, <2>2, <2>3 DEF IsTable
<1>6. \/ Tentative = status
      \/ Tentative = [status EXCEPT ![ByRank(status)[1]].inUse = TRUE]
      \/ \E plugged \in SUBSET Known :
           Tentative = [w \in Known |-> [status[w] EXCEPT
                          !.inUse = w \in plugged /\ Outranks(w, plugged \ {w})]]
  BY DEF Tentative, FirstInUse, PluggedInUse, Known
<1> QED BY <1>3, <1>4, <1>5, <1>6

\* and a test.
LEMMA CheckFacts ==
  ASSUME Types, NEW w, NEW b \in BOOLEAN, Check(w, b)
  PROVE  /\ IsTable(status') /\ DOMAIN status' = Known
         /\ \A v \in Known : /\ status'[v].seq = status[v].seq
                             /\ v # w => status'[v].ready = status[v].ready
                             /\ status'[v].active = status[v].active
                             /\ status'[v].inUse = status[v].inUse
         /\ w \in Known \cap subs => status'[w].ready = b
         /\ w \notin Known \cap subs => status' = status
<1>1. Known \subseteq Wan /\ (\A v \in Known : status[v] \in Record)
      /\ status = [v \in Known |-> status[v]]
  BY DEF Types, IsTable, Known
<1>2. CASE w \notin Known \cap subs
  BY <1>1, <1>2 DEF Check, IsTable
<1>3. CASE w \in Known \cap subs
  <2> DEFINE r == [status[w] EXCEPT !.ready = b, !.carrier = Linked(w)]
  <2>1. status' = [status EXCEPT ![w] = r]
    BY <1>1, <1>3 DEF Check
  <2>2. Linked(w) \in BOOLEAN
    BY DEF Linked
  <2>3. r \in Record /\ r.seq = status[w].seq /\ r.ready = b
        /\ r.active = status[w].active /\ r.inUse = status[w].inUse
    BY <1>1, <1>3, <2>2 DEF Record
  <2> HIDE DEF r
  <2> QED BY <1>1, <1>3, <2>1, <2>3 DEF IsTable
<1> QED BY <1>2, <1>3

\* load_balance makes a WAN active or not as it was read.
LEMMA TurnWriteFacts ==
  ASSUME Types, Len(run.todo) > 0, Head(run.todo) \in Known, TurnWrite
  PROVE  LET w == Head(run.todo) IN
         /\ IsTable(status') /\ DOMAIN status' = Known
         /\ \A v \in Known : /\ status'[v].seq = status[v].seq
                             /\ status'[v].ready = status[v].ready
                             /\ v # w => status'[v].active = status[v].active
         /\ status'[w].active = run.read
<1> DEFINE w == Head(run.todo)
           r == [status[w] EXCEPT !.active = run.read, !.inUse = run.read,
                                  !.carrier = Linked(w)]
<1>1. Known \subseteq Wan /\ (\A v \in Known : status[v] \in Record)
      /\ status = [v \in Known |-> status[v]] /\ w \in Known
  BY DEF Types, IsTable, Known
<1>2. status' = [status EXCEPT ![w] = r]
  BY <1>1 DEF TurnWrite
<1>3. Linked(w) \in BOOLEAN /\ run.read \in BOOLEAN
  BY DEF Linked, TurnWrite, Types, IsRun
<1>4. r \in Record /\ r.seq = status[w].seq /\ r.ready = status[w].ready
      /\ r.active = run.read
  BY <1>1, <1>3 DEF Record
<1> HIDE DEF r, w
<1>5. /\ IsTable(status') /\ DOMAIN status' = Known
      /\ \A v \in Known : /\ status'[v].seq = status[v].seq
                          /\ status'[v].ready = status[v].ready
                          /\ v # w => status'[v].active = status[v].active
      /\ status'[w].active = run.read
  BY <1>1, <1>2, <1>4 DEF IsTable
<1> QED BY <1>5 DEF w

-----------------------------------------------------------------------------
(* The order of the WANs, and what is left of a loop                       *)

Order == ByRank(status)

Suffix(t, o) ==
  Len(t) =< Len(o) /\ \A i \in 1..Len(t) : t[i] = o[Len(o) - Len(t) + i]

Looping == run.pc = "loop"

\* _wanStatus is for the configuration, and not for the one before
Fresh ==
  \/ reapply \in {"no", "flushing"}
  \/ run.pc = "begin"
  \/ Looping /\ Holder.op = "apply"

Ranked ==
  /\ IsOrder(Order, status)
  /\ Fresh => Order = conf.order
  /\ Looping => Suffix(run.todo, Order)
  /\ run.pc = "build" =>
       /\ Suffix(run.todo, conf.order)
       /\ DOMAIN run.new = {conf.order[i] : i \in 1..Rank}
       /\ \A i \in 1..Rank : run.new[conf.order[i]].seq = i - 1

\* the WANs whose turn has come
Done == Len(Order) - Len(run.todo)
Past == {w \in Known : status[w].seq < Done}

Base == Types /\ Queue /\ Ranked

\* No two WANs have the same rank.
LEMMA OrderFacts ==
  ASSUME Base
  PROVE  /\ Order \in Seq(Wan) /\ Len(Order) \in Nat
         /\ Known = {Order[i] : i \in 1..Len(Order)}
         /\ \A i \in 1..Len(Order) : Order[i] \in Known /\ status[Order[i]].seq = i - 1
         /\ \A w \in Known : status[w].seq \in 0..Len(Order) - 1 /\ w = Order[status[w].seq + 1]
         /\ \A v, w \in Known : status[v].seq = status[w].seq => v = w
         /\ \A w \in Known : w \in Wan /\ status[w] \in Record
<1>1. /\ Order \in Seq(Wan) /\ Len(Order) \in Nat
      /\ Known = {Order[i] : i \in 1..Len(Order)}
      /\ \A i \in 1..Len(Order) : Order[i] \in Known /\ status[Order[i]].seq = i - 1
  BY DEF Base, Ranked, IsOrder, Known
<1>2. ASSUME NEW w \in Known
      PROVE  /\ status[w].seq \in 0..Len(Order) - 1 /\ w = Order[status[w].seq + 1]
             /\ w \in Wan /\ status[w] \in Record
  <2>1. PICK i \in 1..Len(Order) : w = Order[i]
    BY <1>1
  <2>2. status[w].seq = i - 1
    BY <1>1, <2>1
  <2>3. status[w].seq + 1 = i
    BY <2>2
  <2>4. w \in Wan /\ status[w] \in Record
    BY DEF Base, Types, IsTable, Known
  <2> QED BY <2>1, <2>2, <2>3, <2>4, <1>1
<1>3. \A v, w \in Known : status[v].seq = status[w].seq => v = w
  <2> TAKE v, w \in Known
  <2> HAVE status[v].seq = status[w].seq
  <2>1. v = Order[status[v].seq + 1] /\ w = Order[status[w].seq + 1]
    BY <1>2
  <2> QED BY <2>1
<1> QED BY <1>1, <1>2, <1>3

\* The next WAN of the loop is the first one that is not past.
LEMMA TodoFacts ==
  ASSUME Base, Looping, run.todo # <<>>
  PROVE  LET w == Head(run.todo) IN
         /\ w \in Known /\ w \in Wan /\ status[w] \in Record
         /\ status[w].seq = Done /\ Done \in Nat /\ Len(run.todo) \in Nat \ {0}
         /\ w \notin Past
<1>1. Len(run.todo) \in Nat \ {0} /\ Head(run.todo) = run.todo[1] /\ run.todo \in Seq(Wan)
  BY DEF Base, Types, IsRun
<1>2. Suffix(run.todo, Order)
  BY DEF Base, Ranked
<1>3. Done \in Nat /\ Done + 1 \in 1..Len(Order) /\ Head(run.todo) = Order[Done + 1]
  <2>1. Len(Order) \in Nat
    BY OrderFacts
  <2>2. Len(run.todo) =< Len(Order)
        /\ run.todo[1] = Order[Len(Order) - Len(run.todo) + 1]
    <3>1. 1 \in 1..Len(run.todo)
      BY <1>1
    <3> QED BY <1>2, <3>1 DEF Suffix
  <2> DEFINE d == Len(Order) - Len(run.todo)
  <2>3. d \in Nat /\ d + 1 \in 1..Len(Order)
    BY <1>1, <2>1, <2>2
  <2> QED BY <1>1, <2>2, <2>3 DEF Done
<1>4. status[Order[Done + 1]].seq = Done /\ Order[Done + 1] \in Known
  BY <1>3, OrderFacts
<1> QED BY <1>1, <1>3, <1>4, OrderFacts DEF Past

\* After its turn it is past, and no other.
LEMMA PastFacts ==
  ASSUME Base, Looping, run.todo # <<>>,
         run'.todo = Tail(run.todo), Order' = Order, DOMAIN status' = Known,
         \A v \in Known : status'[v].seq = status[v].seq
  PROVE  /\ Past' = Past \cup {Head(run.todo)}
         /\ Suffix(run'.todo, Order)
<1> DEFINE w == Head(run.todo)
<1>1. Len(Tail(run.todo)) = Len(run.todo) - 1
      /\ \A i \in 1..Len(run.todo) - 1 : Tail(run.todo)[i] = run.todo[i + 1]
      /\ Len(run.todo) \in Nat \ {0}
  BY DEF Base, Types, IsRun
<1>2. Done' = Done + 1
  <2>1. Len(Order) \in Nat /\ Len(run.todo) \in Nat /\ Len(run'.todo) = Len(run.todo) - 1
    BY <1>1, OrderFacts
  <2>2. Done' = Len(Order) - Len(run'.todo)
    BY DEF Done
  <2>3. Done = Len(Order) - Len(run.todo)
    BY DEF Done
  <2> QED BY <2>1, <2>2, <2>3
<1>3. Past' = {v \in Known : status[v].seq < Done + 1}
  BY <1>2 DEF Past, Known
<1> HIDE DEF w
<1>4. \A v \in Known : status[v].seq < Done + 1 <=> status[v].seq < Done \/ v = w
  <2> TAKE v \in Known
  <2>1. w \in Known /\ status[w].seq = Done /\ Done \in Nat
    BY TodoFacts DEF w
  <2>2. status[v].seq \in Nat /\ (status[v].seq = status[w].seq => v = w)
    BY <2>1, OrderFacts
  <2> QED BY <2>1, <2>2
<1>5. Past' = Past \cup {w}
  <2>1. w \in Known
    BY TodoFacts DEF w
  <2> QED BY <1>3, <1>4, <2>1 DEF Past
<1>6. Suffix(Tail(run.todo), Order)
  <2>1. Suffix(run.todo, Order) /\ Len(Order) \in Nat
    BY OrderFacts DEF Base, Ranked
  <2> DEFINE t == Tail(run.todo)
             n == Len(run.todo)
  <2>2. Len(t) = n - 1 /\ Len(t) =< Len(Order) /\ n \in Nat \ {0}
    BY <1>1, <2>1 DEF Suffix
  <2>3. ASSUME NEW i \in 1..n - 1
        PROVE  t[i] = Order[Len(Order) - (n - 1) + i]
    <3>1. t[i] = run.todo[i + 1] /\ i + 1 \in 1..n
      BY <1>1
    <3>2. run.todo[i + 1] = Order[Len(Order) - n + (i + 1)]
      BY <3>1, <2>1 DEF Suffix
    <3>3. Len(Order) - n + (i + 1) = Len(Order) - (n - 1) + i
      BY <2>1, <2>2
    <3> QED BY <3>1, <3>2, <3>3
  <2> HIDE DEF t, n
  <2>4. Suffix(t, Order)
    BY <2>2, <2>3 DEF Suffix
  <2> QED BY <2>4 DEF t
<1> QED BY <1>5, <1>6 DEF w

\* Before the loop none is past, and after it all are.
LEMMA EndsFacts ==
  ASSUME Base, Looping
  PROVE  /\ Past \subseteq Known
         /\ run.todo = <<>> => Past = Known
         /\ run.todo = Order => Past = {}
BY OrderFacts DEF Past, Done

\* An order that fits the table is the order.
LEMMA SameOrder ==
  ASSUME Base, IsTable(status'), DOMAIN status' = Known,
         \A v \in Known : status'[v].seq = status[v].seq
  PROVE  Order' = Order /\ IsOrder(Order', status') /\ Known' = Known
<1>1. IsOrder(Order, status')
  BY OrderFacts DEF IsOrder
<1>2. ByRank(status') = Order
  BY <1>1, RankIsOrder
<1> QED BY <1>1, <1>2 DEF Order, Known

\* The local variables at first.
LEMMA IdleRun ==
  /\ IsRun(Idle) /\ IsTable(<<>>) /\ DOMAIN <<>> = {}
  /\ Idle.pc = "idle" /\ Idle.todo = <<>> /\ Idle.new = <<>>
<1>1. IsTable(<<>>) /\ DOMAIN <<>> = {}
  BY DEF IsTable
<1>2. Idle \in [pc : {"idle", "build", "begin", "loop", "refresh"},
            todo : Seq(Wan), new : {<<>>}, before : SUBSET Wan,
            current : Wan \cup {None}, last : Wan \cup {None}, inUseFound : BOOLEAN,
            read : BOOLEAN \cup {None}, hops : SUBSET Wan, metric : Nat]
  BY DEF Idle
<1>3. Idle.pc = "idle" /\ Idle.todo = <<>> /\ Idle.new = <<>>
  BY DEF Idle
<1> QED BY <1>1, <1>2, <1>3 DEF IsRun

\* Every record that apply() makes is one.
LEMMA BuildFacts ==
  ASSUME Base, ApplyBuild
  PROVE  LET w == Head(run.todo) IN
         /\ IsRun(run') /\ run'.pc = "build" /\ run'.todo = Tail(run.todo)
         /\ w \in Wan
         /\ DOMAIN run'.new = DOMAIN run.new \cup {w}
         /\ \A v \in DOMAIN run.new : v # w => run'.new[v] = run.new[v]
         /\ run'.new[w].seq = Rank
         /\ run'.new[w].active = (hw[w] # "gone" /\
              \E v \in Known : status[v].seq = Rank /\ status[v].active)
<1> DEFINE w == Head(run.todo)
           old == {v \in Known : status[v].seq = Rank}
           there == hw[w] # "gone"
           a == there /\ \E v \in old : status[v].active
           r == there /\ \A v \in old : status[v].ready
           rec == [seq |-> Rank, inUse |-> FALSE, carrier |-> None,
                   active |-> a, ready |-> r]
           new == [v \in DOMAIN run.new \cup {w} |-> IF v = w THEN rec ELSE run.new[v]]
<1>1. run.todo # <<>> /\ run.pc = "build" /\ run' = [run EXCEPT !.todo = Tail(@), !.new = new]
  BY DEF ApplyBuild, Holds
<1>2. Rank \in Nat
  <2>1. Suffix(run.todo, conf.order) /\ Len(run.todo) \in Nat
    BY <1>1 DEF Base, Ranked, Types, IsRun
  <2>2. Len(conf.order) \in Nat
    BY ConfFacts DEF Base, Types
  <2> QED BY <2>1, <2>2 DEF Rank, Suffix
<1>3. a \in BOOLEAN /\ r \in BOOLEAN
  OBVIOUS
<1> HIDE DEF a, r
<1>4. rec \in Record /\ rec.seq = Rank /\ rec.active = a
  BY <1>2, <1>3 DEF Record
<1>5. w \in Wan /\ Tail(run.todo) \in Seq(Wan) /\ IsTable(run.new)
  BY <1>1 DEF Base, Types, IsRun
<1> HIDE DEF rec, w
<1>6. /\ IsTable(new) /\ DOMAIN new = DOMAIN run.new \cup {w}
      /\ \A v \in DOMAIN run.new : v # w => new[v] = run.new[v]
      /\ new[w] = rec
  BY <1>4, <1>5 DEF IsTable
<1> HIDE DEF new
<1>7. IsRun(run') /\ run'.new = new /\ run'.pc = "build" /\ run'.todo = Tail(run.todo)
  BY <1>1, <1>5, <1>6 DEF Base, Types, IsRun
<1> QED BY <1>4, <1>5, <1>6, <1>7 DEF w, a

\* The queue
LEMMA QueueFacts ==
  ASSUME Types
  PROVE  /\ jobs # <<>> => /\ Holder = jobs[1] /\ Len(jobs) \in Nat \ {0}
                           /\ Tail(jobs) \in Seq(Jobs) /\ Len(Tail(jobs)) = Len(jobs) - 1
                           /\ \A i \in 1..Len(jobs) - 1 : Tail(jobs)[i] = jobs[i + 1]
                           /\ Holder \in Jobs
         /\ \A j \in Jobs : /\ Append(jobs, j) \in Seq(Jobs) /\ Append(jobs, j) # <<>>
                            /\ Len(Append(jobs, j)) = Len(jobs) + 1
                            /\ \A i \in 1..Len(jobs) : Append(jobs, j)[i] = jobs[i]
                            /\ Append(jobs, j)[Len(jobs) + 1] = j
                            /\ Head(Append(jobs, j)) = IF jobs = <<>> THEN j ELSE Holder
         /\ Len(jobs) \in Nat
BY DEF Types, Holder

\* The jobs that are asked for
LEMMA JobFacts ==
  ASSUME Types
  PROVE  /\ Job("switch", Families, None) \in Jobs
         /\ Job("switch", {6}, None) \in Jobs
         /\ Job("apply", Families, None) \in Jobs
         /\ Job("flush6", {6}, None) \in Jobs
         /\ \A w \in Wan : Job("refresh", {4}, w) \in Jobs
         /\ \A c \in setup.configs : Job("flush", Families, c) \in Jobs
         /\ \A op, af, arg : /\ Job(op, af, arg).op = op /\ Job(op, af, arg).af = af
                             /\ Job(op, af, arg).arg = arg
BY DEF Jobs, Job, Types, Configs, Families

\* Every variable keeps its type.
LEMMA TypesKeep ==
  ASSUME Base, Next
  PROVE  Types'
<1> USE DEF Base, env, leaves
<1>0. Types /\ setup' = setup
  BY DEF Next, System, Environment, Begin, Turn, TurnRead, TurnWrite, End, TimerFires,
         Flush, Apply, ApplyStart, ApplyBuild, ApplyCommit, RefreshRead, RefreshWrite,
         Flush6, Notified, DeviceChange, Check, IpChange, Ip6Change, Reconfigure, Happens
<1>1. CASE Begin
  <2>1. Without(Gone, Holder.af) \in [Families -> [Wan -> Nat]]
    BY RouteFacts
  <2>2. run' = [Idle EXCEPT !.pc = "loop", !.todo = Order, !.before = Active(status)]
    BY <1>1 DEF Begin, Order
  <2>3. Order \in Seq(Wan) /\ Active(status) \subseteq Wan
    BY OrderFacts DEF Active, Known
  <2>4. IsRun(run')
    BY <2>2, <2>3, IdleRun DEF IsRun
  <2>5. multi' \in [Families -> SUBSET Wan]
    BY <1>1 DEF Begin, Types
  <2> QED BY <1>0, <1>1, <2>1, <2>4, <2>5 DEF Begin, Types
<1>2. CASE Turn
  <2>1. Looping /\ run.todo # <<>> /\ Len(run.todo) > 0
    BY <1>2 DEF Turn, InLoop, Looping, Types, IsRun
  <2>2. Head(run.todo) \in Known /\ Head(run.todo) \in Wan
    BY <2>1, TodoFacts
  <2>3. IsTable(status')
    BY <1>2, <2>1, <2>2, TurnFacts DEF Turn
  <2>4. PICK n, af : n \in Nat /\ route' = With(Head(run.todo), n, af)
    <3>1. Metric(Head(run.todo), Linked(Head(run.todo))) \in Nat
      BY <2>2, RouteFacts DEF Linked
    <3> QED BY <1>2, <3>1 DEF Turn
  <2>5. route' \in [Families -> [Wan -> Nat]]
    BY <2>2, <2>4, RouteFacts
  <2>6. IsRun(run')
    <3>1. PICK c \in Wan \cup {None}, l \in Wan \cup {None}, b \in BOOLEAN :
            run' = [run EXCEPT !.todo = Tail(@), !.current = c, !.last = l, !.inUseFound = b]
      <4> DEFINE w == Head(run.todo)
                 act == status[w].ready /\ run.current = None
                 found == act \/ run.current # None
                 inUse == IF found THEN act ELSE Linked(w) /\ ~run.inUseFound
      <4>1. run' = [run EXCEPT !.todo = Tail(@),
                       !.current = IF act THEN w ELSE @,
                       !.last = IF status[w].active THEN w ELSE @,
                       !.inUseFound = @ \/ (inUse /\ ~found)]
        BY <1>2 DEF Turn
      <4>2. run.inUseFound \/ (inUse /\ ~found) \in BOOLEAN
        OBVIOUS
      <4> HIDE DEF act, found, inUse
      <4> run.current \in Wan \cup {None} /\ run.last \in Wan \cup {None} /\ w \in Wan
        BY <2>2 DEF Types, IsRun
      <4> WITNESS (IF act THEN w ELSE run.current) \in Wan \cup {None},
                  (IF status[w].active THEN w ELSE run.last) \in Wan \cup {None},
                  (run.inUseFound \/ (inUse /\ ~found)) \in BOOLEAN
      <4> QED BY <4>1
    <3>2. Tail(run.todo) \in Seq(Wan)
      BY <2>1 DEF Types, IsRun
    <3> QED BY <3>1, <3>2 DEF Types, IsRun
  <2> QED BY <1>0, <1>2, <2>3, <2>5, <2>6 DEF Turn, Types
<1>3. CASE TurnRead
  <2>1. Looping /\ run.todo # <<>>
    BY <1>3 DEF TurnRead, InLoop, Looping
  <2>2. status[Head(run.todo)].ready \in BOOLEAN
    BY <2>1, TodoFacts DEF Record
  <2>3. IsRun(run')
    BY <1>3, <2>2 DEF TurnRead, Types, IsRun
  <2> QED BY <1>0, <1>3, <2>3 DEF TurnRead, Types
<1>4. CASE TurnWrite
  <2>1. Looping /\ run.todo # <<>> /\ Len(run.todo) > 0
    BY <1>4 DEF TurnWrite, InLoop, Looping, Types, IsRun
  <2>2. Head(run.todo) \in Known /\ Head(run.todo) \in Wan /\ status[Head(run.todo)].seq \in Nat
    BY <2>1, TodoFacts DEF Record
  <2>3. IsTable(status')
    BY <1>4, <2>1, <2>2, TurnWriteFacts
  <2>4. route' = route \/ \E n \in Nat : \E af : route' = With(Head(run.todo), n, af)
    <3> DEFINE metric == status[Head(run.todo)].seq + 1 + (IF run.read THEN 0 ELSE 100)
                                     + (IF Linked(Head(run.todo)) THEN 0 ELSE 10)
    <3>1. metric \in Nat
      BY <2>2
    <3>2. route' = route \/ route' = With(Head(run.todo), metric, Holder.af \cap {4})
      BY <1>4 DEF TurnWrite
    <3> HIDE DEF metric
    <3> QED BY <3>1, <3>2
  <2>5. route' \in [Families -> [Wan -> Nat]]
    BY <2>2, <2>4, RouteFacts DEF Types
  <2>6. IsRun(run')
    <3>1. PICK h \in SUBSET Wan :
            run' = [run EXCEPT !.todo = Tail(@), !.read = None, !.hops = h]
      BY <1>4, <2>2 DEF TurnWrite, Types, IsRun
    <3>2. Tail(run.todo) \in Seq(Wan)
      BY <2>1 DEF Types, IsRun
    <3> QED BY <3>1, <3>2 DEF Types, IsRun
  <2> QED BY <1>0, <1>4, <2>3, <2>5, <2>6 DEF TurnWrite, Types
<1>5. CASE End
  <2>1. IsTable(status')
    BY <1>5, EndFacts DEF Ranked, Order
  <2>2. route' \in [Families -> [Wan -> Nat]]
    BY <1>5, RouteFacts DEF End
  <2>3. multi' \in [Families -> SUBSET Wan]
    BY <1>5 DEF End, Types, IsRun
  <2>4. jobs' \in Seq(Jobs) /\ run' = Idle /\ reapply' \in {"no", reapply}
    BY <1>5, QueueFacts DEF End, InLoop
  <2> QED BY <1>0, <1>5, <2>1, <2>2, <2>3, <2>4, IdleRun DEF End, Types
<1>6. CASE TimerFires
  BY <1>0, <1>6, QueueFacts, JobFacts DEF TimerFires, Types
<1>7. CASE Flush
  <2>1. Holder.op = "flush" /\ jobs # <<>>
    BY <1>7 DEF Flush, Holds
  <2>0. Holder = jobs[1] /\ 1 \in 1..Len(jobs) /\ Tail(jobs) \in Seq(Jobs)
    BY <2>1, QueueFacts
  <2>2. Holder.arg \in setup.configs /\ jobs' \in Seq(Jobs)
    BY <1>7, <2>0, <2>1 DEF Flush, Queue, Proper
  <2>3. route' \in [Families -> [Wan -> Nat]] /\ multi' \in [Families -> SUBSET Wan]
    BY <1>7, RouteFacts DEF Flush
  <2> QED BY <1>0, <1>7, <2>2, <2>3 DEF Flush, Types
<1>8. CASE Apply
  BY <1>0, <1>8, QueueFacts, JobFacts DEF Apply, Types
<1>9. CASE ApplyStart
  <2>1. conf.order \in Seq(Wan)
    BY ConfFacts DEF Types
  <2>2. IsRun(run')
    BY <1>9, <2>1, IdleRun DEF ApplyStart, IsRun
  <2> QED BY <1>0, <1>9, <2>2 DEF ApplyStart, Types
<1>10. CASE ApplyBuild
  <2>1. subs' \subseteq Wan
    BY <1>10, BuildFacts DEF ApplyBuild, Types
  <2> QED BY <1>0, <1>10, <2>1, BuildFacts DEF ApplyBuild, Types
<1>11. CASE ApplyCommit
  <2>1. IsRun(run')
    BY <1>11, IdleRun DEF ApplyCommit, IsRun
  <2> QED BY <1>0, <1>11, <2>1 DEF ApplyCommit, Types, IsRun
<1>12. CASE RefreshRead
  <2>1. jobs # <<>>
    BY <1>12 DEF RefreshRead, Holds
  <2>2. CASE Holder.arg \notin Known
    BY <1>0, <1>12, <2>1, <2>2, QueueFacts DEF RefreshRead, Types
  <2>3. CASE Holder.arg \in Known
    <3>1. Metric(Holder.arg, TRUE) \in Nat
      BY <2>3, RouteFacts
    <3> DEFINE n == Metric(Holder.arg, TRUE)
    <3>0. run' = [run EXCEPT !.pc = "refresh", !.metric = n] /\ jobs' = jobs
      BY <1>12, <2>3 DEF RefreshRead
    <3> HIDE DEF n
    <3>2. IsRun(run')
      BY <3>0, <3>1 DEF Types, IsRun, n
    <3> QED BY <1>0, <1>12, <3>0, <3>2 DEF RefreshRead, Types
  <2> QED BY <2>2, <2>3
<1>13. CASE RefreshWrite
  <2>1. jobs # <<>> /\ Holder.op = "refresh"
    BY <1>13 DEF RefreshWrite, Holds
  <2>0. Holder = jobs[1] /\ 1 \in 1..Len(jobs) /\ Tail(jobs) \in Seq(Jobs)
    BY <2>1, QueueFacts
  <2>2. Holder.arg \in Wan /\ run.metric \in Nat /\ jobs' \in Seq(Jobs)
    BY <1>13, <2>1, <2>0 DEF RefreshWrite, Queue, Proper, Types, IsRun
  <2>3. route' \in [Families -> [Wan -> Nat]]
    BY <1>13, <2>2, RouteFacts DEF RefreshWrite, Types
  <2> QED BY <1>0, <1>13, <2>2, <2>3, IdleRun DEF RefreshWrite, Types
<1>14. CASE Flush6
  <2>1. jobs # <<>> /\ Tail(jobs) \in Seq(Jobs)
    BY <1>14, QueueFacts DEF Flush6, Holds
  <2>2. jobs' \in Seq(Jobs)
    BY <1>14, <2>1, JobFacts DEF Flush6
  <2>3. route' \in [Families -> [Wan -> Nat]] /\ multi' \in [Families -> SUBSET Wan]
    BY <1>14, RouteFacts DEF Flush6, Types
  <2> QED BY <1>0, <1>14, <2>2, <2>3 DEF Flush6, Types
<1>15. ASSUME NEW b \in BOOLEAN, Notified(b) PROVE Types'
  BY <1>0, <1>15 DEF Notified, Types
<1>16. ASSUME NEW w \in setup.wans, NEW s \in {"gone", "down", "up"}, DeviceChange(w, s)
       PROVE  Types'
  <2>1. route' \in [Families -> [Wan -> Nat]] /\ multi' \in [Families -> SUBSET Wan]
    BY <1>16, RouteFacts DEF DeviceChange, Types
  <2> QED BY <1>0, <1>16, <2>1 DEF DeviceChange, Happens, Types
<1>17. ASSUME NEW w \in setup.wans, NEW b \in BOOLEAN, Check(w, b) PROVE Types'
  <2>1. IsTable(status')
    BY <1>17, CheckFacts
  <2>2. timer' \in BOOLEAN
    BY <1>17 DEF Check, Types, ChangeActiveNeeded, CarrierSwitchNeeded
  <2> QED BY <1>0, <1>17, <2>1, <2>2 DEF Check, Happens, Types
<1>18. ASSUME NEW w \in setup.wans, IpChange(w) PROVE Types'
  <2>1. w \in Wan
    BY SetupAssumption DEF Types
  <2> QED BY <1>0, <1>18, <2>1, QueueFacts, JobFacts DEF IpChange, Happens, Types
<1>19. CASE Ip6Change
  BY <1>0, <1>19, QueueFacts, JobFacts DEF Ip6Change, Happens, Types
<1>20. ASSUME NEW c \in setup.configs, Reconfigure(c) PROVE Types'
  BY <1>0, <1>20, QueueFacts, JobFacts DEF Reconfigure, Happens, Types
<1> QED BY <1>1, <1>2, <1>3, <1>4, <1>5, <1>6, <1>7, <1>8, <1>9, <1>10, <1>11, <1>12,
           <1>13, <1>14, <1>15, <1>16, <1>17, <1>18, <1>19, <1>20
        DEF Next, System, Environment

-----------------------------------------------------------------------------
(* What the steps do to the queue                                          *)

\* The holder is one of the queue.
LEMMA HolderFacts ==
  ASSUME Base, jobs # <<>>
  PROVE  /\ Holder = jobs[1] /\ 1 \in 1..Len(jobs) /\ Proper(Holder, reapply)
         /\ Loaders(Holder) =>
              \A i \in 2..Len(jobs) : jobs[i].op # Holder.op
<1>1. Holder = jobs[1] /\ 1 \in 1..Len(jobs) /\ Len(jobs) \in Nat
  BY QueueFacts DEF Base
<1>2. Proper(Holder, reapply)
  BY <1>1 DEF Base, Queue
<1>3. ASSUME Loaders(Holder), NEW i \in 2..Len(jobs), jobs[i].op = Holder.op PROVE FALSE
  <2>1. i \in 1..Len(jobs) /\ i # 1
    BY <1>1
  <2> QED BY <1>1, <1>3, <2>1 DEF Base, Queue
<1> QED BY <1>1, <1>2, <1>3

\* A job is appended,
LEMMA QueueAppend ==
  ASSUME Base, NEW j \in Jobs, jobs' = Append(jobs, j), run' = run, setup' = setup,
         status' = status, Proper(j, reapply'),
         \A i \in 1..Len(jobs) : Loaders(jobs[i]) => reapply' = reapply /\ j.op # jobs[i].op
  PROVE  Queue'
<1>1. /\ Len(jobs) \in Nat /\ Len(jobs') = Len(jobs) + 1
      /\ \A i \in 1..Len(jobs) : jobs'[i] = jobs[i]
      /\ jobs'[Len(jobs) + 1] = j /\ jobs' # <<>>
      /\ jobs # <<>> => Head(jobs') = Head(jobs)
  BY QueueFacts DEF Base, Holder
<1>2. ASSUME NEW i \in 1..Len(jobs) PROVE Proper(jobs[i], reapply)'
  BY <1>1 DEF Base, Queue, Proper, Loaders
<1>3. ASSUME NEW i \in 1..Len(jobs') PROVE Proper(jobs[i], reapply)'
  <2>1. i \in 1..Len(jobs) \/ i = Len(jobs) + 1
    BY <1>1
  <2>3. CASE i = Len(jobs) + 1
    BY <1>1, <2>3 DEF Proper
  <2> QED BY <1>2, <2>1, <2>3
<1>4. ASSUME NEW i \in 1..Len(jobs'), NEW k \in 1..Len(jobs'),
             jobs'[i].op = jobs'[k].op, Loaders(jobs'[i])
      PROVE  i = k
  <2>1. CASE i \in 1..Len(jobs) /\ k \in 1..Len(jobs)
    BY <1>1, <1>4, <2>1 DEF Base, Queue, Loaders
  <2>2. CASE i = Len(jobs) + 1 /\ k \in 1..Len(jobs)
    BY <1>1, <1>4, <2>2 DEF Loaders
  <2>3. CASE i \in 1..Len(jobs) /\ k = Len(jobs) + 1
    BY <1>1, <1>4, <2>3 DEF Loaders
  <2> QED BY <1>1, <2>1, <2>2, <2>3
<1>5. CASE jobs = <<>>
  BY <1>1, <1>3, <1>4, <1>5 DEF Base, Queue, Loaders
<1>6. CASE jobs # <<>>
  BY <1>1, <1>3, <1>4, <1>6 DEF Base, Queue, Loaders, Holder, Known
<1> QED BY <1>5, <1>6

\* or the holder leaves.
LEMMA QueueTail ==
  ASSUME Base, jobs # <<>>, jobs' = Tail(jobs), run'.pc = "idle", setup' = setup,
         \A i \in 2..Len(jobs) : Loaders(jobs[i]) => reapply' = reapply
  PROVE  Queue'
<1>1. /\ Len(jobs) \in Nat \ {0} /\ Len(jobs') = Len(jobs) - 1
      /\ \A i \in 1..Len(jobs') : jobs'[i] = jobs[i + 1] /\ i + 1 \in 2..Len(jobs)
      /\ \A i \in 2..Len(jobs) : i \in 1..Len(jobs)
  BY QueueFacts DEF Base
<1>2. ASSUME NEW i \in 1..Len(jobs') PROVE Proper(jobs[i], reapply)'
  <2>1. i + 1 \in 2..Len(jobs) /\ jobs'[i] = jobs[i + 1]
    BY <1>1
  <2>2. Proper(jobs[i + 1], reapply)
    BY <1>1, <2>1 DEF Base, Queue
  <2> QED BY <2>1, <2>2 DEF Proper, Loaders
<1>3. ASSUME NEW i \in 1..Len(jobs'), NEW k \in 1..Len(jobs'),
             jobs'[i].op = jobs'[k].op, Loaders(jobs'[i])
      PROVE  i = k
  <2>1. i + 1 = k + 1
    BY <1>1, <1>3 DEF Base, Queue, Loaders
  <2> QED BY <2>1, <1>1
<1> QED BY <1>2, <1>3 DEF Queue, Loaders

\* The others leave it as it is.
LEMMA QueueStays ==
  ASSUME Base, jobs' = jobs, setup' = setup, reapply' = reapply,
         jobs = <<>> => run'.pc = "idle",
         run'.pc \in {"build", "begin"} => Holder.op = "apply",
         run'.pc = "loop" => Holder.op \in {"switch", "apply"},
         run'.pc = "refresh" => Holder.op = "refresh" /\ Holder.arg \in DOMAIN status'
  PROVE  Queue'
BY DEF Base, Queue, Proper, Loaders, Holder, Known

\* The queue stays proper.
LEMMA QueueKeep ==
  ASSUME Base, Next
  PROVE  Queue'
<1> USE DEF env, leaves
<1>0. Types /\ Queue /\ Ranked /\ setup' = setup /\ run \in [pc : {run.pc}, todo : {run.todo},
        new : {run.new}, before : {run.before}, current : {run.current}, last : {run.last},
        inUseFound : {run.inUseFound}, read : {run.read}, hops : {run.hops}, metric : {run.metric}]
  BY DEF Next, System, Environment, Begin, Turn, TurnRead, TurnWrite, End, TimerFires,
         Flush, Apply, ApplyStart, ApplyBuild, ApplyCommit, RefreshRead, RefreshWrite,
         Flush6, Notified, DeviceChange, Check, IpChange, Ip6Change, Reconfigure, Happens,
         Base, Types, IsRun
<1>1. CASE Begin \/ TurnRead \/ ApplyStart \/ ApplyCommit
  BY <1>0, <1>1, QueueStays, IdleRun
     DEF Begin, TurnRead, ApplyStart, ApplyCommit, InLoop, Holds, Idle
<1>2. CASE Turn
  <2>1. Looping /\ run.todo # <<>> /\ Len(run.todo) > 0
    BY <1>2 DEF Turn, InLoop, Looping, Base, Types, IsRun
  <2>2. DOMAIN status' = Known
    BY <1>0, <1>2, <2>1, TodoFacts, TurnFacts DEF Turn
  <2>3. run'.pc = run.pc
    BY <1>0, <1>2 DEF Turn
  <2> QED BY <1>0, <1>2, <2>1, <2>2, <2>3, QueueStays DEF Turn, InLoop, Looping
<1>4. CASE TurnWrite
  <2>1. Looping /\ run.todo # <<>> /\ Len(run.todo) > 0
    BY <1>4 DEF TurnWrite, InLoop, Looping, Base, Types, IsRun
  <2>3. run'.pc = run.pc
    BY <1>0, <1>4 DEF TurnWrite
  <2> QED BY <1>0, <1>4, <2>1, <2>3, QueueStays DEF TurnWrite, InLoop, Looping
<1>5. CASE End
  <2>1. jobs # <<>> /\ Holder.op \in {"switch", "apply"} /\ jobs' = Tail(jobs)
        /\ run'.pc = "idle" /\ reapply' = IF Holder.op = "apply" THEN "no" ELSE reapply
    BY <1>5, IdleRun DEF End, InLoop
  <2>2. ASSUME NEW i \in 2..Len(jobs), Loaders(jobs[i]) PROVE reapply' = reapply
    <3>1. CASE Holder.op = "apply"
      <4>1. Proper(Holder, reapply) /\ jobs[i].op # "apply"
        BY <2>1, <3>1, HolderFacts DEF Loaders
      <4>2. Proper(jobs[i], reapply)
        BY <1>0, <2>1, HolderFacts, QueueFacts DEF Queue
      <4> QED BY <2>2, <3>1, <4>1, <4>2 DEF Loaders, Proper
    <3>2. CASE Holder.op # "apply"
      BY <2>1, <3>2
    <3> QED BY <3>1, <3>2
  <2> QED BY <1>0, <2>1, <2>2, QueueTail
<1>6. CASE TimerFires
  BY <1>0, <1>6, QueueAppend, JobFacts DEF TimerFires, Proper, Loaders
<1>7. CASE Flush
  <2>1. jobs # <<>> /\ Holder.op = "flush" /\ jobs' = Tail(jobs) /\ run'.pc = "idle"
    BY <1>7 DEF Flush, Holds
  <2>2. ASSUME NEW i \in 2..Len(jobs), Loaders(jobs[i]) PROVE FALSE
    <3>1. Proper(Holder, reapply) /\ jobs[i].op # "flush"
      BY <2>1, HolderFacts DEF Loaders
    <3>2. Proper(jobs[i], reapply)
      BY <1>0, <2>1, HolderFacts, QueueFacts DEF Queue
    <3> QED BY <2>1, <2>2, <3>1, <3>2 DEF Loaders, Proper
  <2> QED BY <1>0, <2>1, <2>2, QueueTail
<1>8. CASE Apply
  <2>1. ASSUME NEW i \in 1..Len(jobs), Loaders(jobs[i]) PROVE FALSE
    BY <1>0, <1>8, <2>1 DEF Queue, Proper, Loaders, Apply
  <2> QED BY <1>0, <1>8, <2>1, QueueAppend, JobFacts DEF Apply, Proper, Loaders
<1>10. CASE ApplyBuild
  BY <1>0, <1>10, QueueStays, BuildFacts DEF ApplyBuild, Holds
<1>12. CASE RefreshRead
  <2>1. jobs # <<>> /\ Holder.op = "refresh" /\ run.pc = "idle"
    BY <1>12 DEF RefreshRead, Holds
  <2>2. CASE Holder.arg \notin Known
    BY <1>0, <1>12, <2>1, <2>2, QueueTail DEF RefreshRead
  <2>3. CASE Holder.arg \in Known
    <3>1. run'.pc = "refresh" /\ jobs' = jobs
      BY <1>0, <1>12, <2>3 DEF RefreshRead
    <3> QED BY <1>0, <1>12, <2>1, <2>3, <3>1, QueueStays DEF RefreshRead, Known
  <2> QED BY <2>2, <2>3
<1>13. CASE RefreshWrite
  BY <1>0, <1>13, QueueTail, IdleRun DEF RefreshWrite, Holds
<1>14. CASE Flush6
  <2> DEFINE j == Job("switch", {6}, None)
  <2>1. jobs # <<>> /\ Holder.op = "flush6" /\ run.pc = "idle" /\ run' = run
        /\ jobs' = Append(Tail(jobs), j) /\ reapply' = reapply
    BY <1>14 DEF Flush6, Holds
  <2>2. /\ Len(jobs) \in Nat \ {0} /\ Tail(jobs) \in Seq(Jobs)
        /\ Len(Tail(jobs)) = Len(jobs) - 1
        /\ \A i \in 1..Len(jobs) - 1 : Tail(jobs)[i] = jobs[i + 1]
    BY <1>0, <2>1, QueueFacts
  <2>3. j \in Jobs /\ j.op = "switch" /\ j.af = {6}
    BY <1>0, JobFacts
  <2> HIDE DEF j
  <2>4. /\ Len(jobs') = Len(jobs) /\ jobs' # <<>>
        /\ \A i \in 1..Len(jobs) - 1 : jobs'[i] = jobs[i + 1]
        /\ jobs'[Len(jobs)] = j
    BY <2>1, <2>2, <2>3
  <2>5. ASSUME NEW i \in 1..Len(jobs) PROVE Proper(jobs[i], reapply)'
    <3>1. CASE i = Len(jobs)
      BY <2>3, <2>4, <3>1 DEF Proper
    <3>2. CASE i \in 1..Len(jobs) - 1
      <4>1. i + 1 \in 1..Len(jobs) /\ jobs'[i] = jobs[i + 1]
        BY <2>2, <2>4, <3>2
      <4> QED BY <1>0, <2>1, <4>1 DEF Queue, Proper
    <3> QED BY <2>2, <3>1, <3>2
  <2>6. ASSUME NEW i \in 1..Len(jobs), NEW k \in 1..Len(jobs),
               jobs'[i].op = jobs'[k].op, Loaders(jobs'[i])
        PROVE  i = k
    <3>1. i # Len(jobs) /\ k # Len(jobs)
      BY <2>3, <2>4, <2>6 DEF Loaders
    <3>2. /\ i + 1 \in 1..Len(jobs) /\ jobs'[i] = jobs[i + 1]
          /\ k + 1 \in 1..Len(jobs) /\ jobs'[k] = jobs[k + 1]
      BY <2>2, <2>4, <3>1
    <3>3. i + 1 = k + 1
      BY <1>0, <2>6, <3>2 DEF Queue, Loaders
    <3> QED BY <3>3
  <2> QED BY <1>0, <2>1, <2>4, <2>5, <2>6 DEF Queue, Loaders
<1>15. ASSUME NEW b \in BOOLEAN, Notified(b) PROVE Queue'
  BY <1>0, <1>15 DEF Notified, Queue, Proper, Loaders, Holder, Known
<1>16. ASSUME NEW w \in setup.wans, NEW s \in {"gone", "down", "up"}, DeviceChange(w, s)
       PROVE  Queue'
  BY <1>0, <1>16 DEF DeviceChange, Queue, Proper, Loaders, Holder, Known
<1>17. ASSUME NEW w \in setup.wans, NEW b \in BOOLEAN, Check(w, b) PROVE Queue'
  <2>1. DOMAIN status' = Known
    BY <1>0, <1>17, CheckFacts
  <2> QED BY <1>0, <1>17, <2>1 DEF Check, Queue, Proper, Loaders, Holder, Known
<1>18. ASSUME NEW w \in setup.wans, IpChange(w) PROVE Queue'
  <2>1. w \in Wan
    BY <1>0, SetupAssumption DEF Types
  <2> QED BY <1>0, <1>18, <2>1, QueueAppend, JobFacts
          DEF IpChange, Proper, Loaders, SmoothNow
<1>19. CASE Ip6Change
  BY <1>0, <1>19, QueueAppend, JobFacts DEF Ip6Change, Proper, Loaders
<1>20. ASSUME NEW c \in setup.configs, Reconfigure(c) PROVE Queue'
  <2>1. ASSUME NEW i \in 1..Len(jobs), Loaders(jobs[i]) PROVE FALSE
    BY <1>0, <1>20, <2>1 DEF Queue, Proper, Loaders, Reconfigure
  <2> QED BY <1>0, <1>20, <2>1, QueueAppend, JobFacts DEF Reconfigure, Proper, Loaders
<1> QED BY <1>1, <1>2, <1>4, <1>5, <1>6, <1>7, <1>8, <1>10, <1>12, <1>13, <1>14, <1>15,
           <1>16, <1>17, <1>18, <1>19, <1>20
        DEF Next, System, Environment

\* The queue and the loop follow the order of the configuration.
LEMMA RankedKeep ==
  ASSUME Base, Next, Types', Queue'
  PROVE  Ranked'
<1> USE DEF env, leaves
<1>0. Types /\ Queue /\ Ranked /\ setup' = setup
  BY DEF Next, System, Environment, Begin, Turn, TurnRead, TurnWrite, End, TimerFires,
         Flush, Apply, ApplyStart, ApplyBuild, ApplyCommit, RefreshRead, RefreshWrite,
         Flush6, Notified, DeviceChange, Check, IpChange, Ip6Change, Reconfigure, Happens,
         Base
<1>a. ASSUME status' = status, run' = run, conf' = conf, Fresh' => Fresh
      PROVE  Ranked'
  <2>1. Order' = Order
    BY <1>a DEF Order, ByRank
  <2> QED BY <1>0, <1>a, <2>1 DEF Ranked, IsOrder, Looping, Rank
<1>b. ASSUME status' = status, run'.pc = "idle",
             Fresh' => Fresh /\ conf' = conf
      PROVE  Ranked'
  <2>1. Order' = Order
    BY <1>b DEF Order, ByRank
  <2> QED BY <1>0, <1>b, <2>1 DEF Ranked, IsOrder, Looping
<1>c. ASSUME jobs # <<>>, NEW j \in Jobs, jobs' = Append(jobs, j) PROVE Holder' = Holder
  BY <1>0, <1>c, QueueFacts DEF Holder
<1>1. CASE Begin
  <2>1. run'.pc = "loop" /\ run'.todo = Order /\ status' = status /\ conf' = conf
        /\ jobs' = jobs /\ reapply' = reapply
    BY <1>1, IdleRun DEF Begin, Order, Idle
  <2>2. Order' = Order
    BY <2>1 DEF Order, ByRank
  <2>3. Suffix(Order, Order)
    BY OrderFacts DEF Suffix
  <2>4. Fresh' => Fresh
    BY <1>1, <2>1 DEF Fresh, Begin, Holds, Looping, Holder
  <2> QED BY <1>0, <2>1, <2>2, <2>3, <2>4 DEF Ranked, IsOrder, Looping
<1>2. CASE Turn \/ TurnWrite
  <2>1. Looping /\ run.todo # <<>> /\ Len(run.todo) > 0 /\ InLoop
    BY <1>0, <1>2 DEF Turn, TurnWrite, InLoop, Looping, Types, IsRun
  <2>2. /\ IsTable(status') /\ DOMAIN status' = Known
        /\ \A v \in Known : status'[v].seq = status[v].seq
    BY <1>0, <1>2, <2>1, TodoFacts, TurnFacts, TurnWriteFacts DEF Turn
  <2>3. Order' = Order /\ IsOrder(Order', status')
    BY <2>2, SameOrder
  <2>4. run'.todo = Tail(run.todo) /\ run'.pc = "loop" /\ conf' = conf /\ jobs' = jobs
        /\ reapply' = reapply
    BY <1>0, <1>2 DEF Turn, TurnWrite, Types, IsRun, InLoop
  <2>5. Suffix(run'.todo, Order)
    BY <2>1, <2>2, <2>3, <2>4, PastFacts
  <2>6. Fresh' => Fresh
    BY <2>1, <2>4 DEF Fresh, Looping, Holder
  <2> QED BY <1>0, <2>3, <2>4, <2>5, <2>6 DEF Ranked, Looping
<1>3. CASE TurnRead
  <2>1. run'.todo = run.todo /\ run'.pc = "loop" /\ conf' = conf /\ jobs' = jobs
        /\ reapply' = reapply /\ status' = status /\ run.pc = "loop"
    BY <1>0, <1>3 DEF TurnRead, Types, IsRun, InLoop
  <2>2. Order' = Order
    BY <2>1 DEF Order, ByRank
  <2>3. Fresh' => Fresh
    BY <2>1 DEF Fresh, Looping, Holder
  <2> QED BY <1>0, <2>1, <2>2, <2>3 DEF Ranked, IsOrder, Looping
<1>5. CASE End
  <2>1. run'.pc = "idle" /\ conf' = conf
        /\ reapply' = (IF Holder.op = "apply" THEN "no" ELSE reapply) /\ run.pc = "loop"
    BY <1>5, IdleRun DEF End, InLoop
  <2>2. Order' = Order /\ IsOrder(Order', status')
    BY <1>0, <1>5, EndFacts, SameOrder DEF Ranked, Order
  <2>3. Fresh' => Fresh
    BY <2>1 DEF Fresh, Looping
  <2> QED BY <1>0, <2>1, <2>2, <2>3 DEF Ranked, Looping
<1>6. CASE TimerFires
  <2>1. Fresh' => Fresh
    BY <1>0, <1>6, <1>c, JobFacts DEF TimerFires, Fresh, Looping, Queue
  <2> QED BY <1>6, <1>a, <2>1 DEF TimerFires
<1>7. CASE Flush
  <2>1. ~Fresh' /\ run'.pc = "idle"
    BY <1>7 DEF Flush, Holds, Fresh, Looping
  <2> QED BY <1>7, <1>b, <2>1 DEF Flush
<1>8. CASE Apply
  <2>1. Fresh' => Fresh
    BY <1>0, <1>8, <1>c, JobFacts DEF Apply, Fresh, Looping, Queue
  <2> QED BY <1>8, <1>a, <2>1 DEF Apply
<1>9. CASE ApplyStart
  <2>1. /\ run'.pc = "build" /\ run'.todo = conf.order /\ run'.new = <<>>
        /\ conf' = conf /\ reapply' = reapply /\ status' = status
    BY <1>9, IdleRun DEF ApplyStart, Idle
  <2>2. Order' = Order
    BY <2>1 DEF Order, ByRank
  <2>3. Len(conf.order) \in Nat /\ Suffix(conf.order, conf.order)
    BY <1>0, ConfFacts DEF Types, Suffix
  <2>4. Rank' = 0
    BY <2>1, <2>3 DEF Rank
  <2>5. DOMAIN run'.new = {conf.order[i] : i \in 1..0}
    BY <2>1, IdleRun
  <2>6. Fresh' => Fresh
    BY <2>1 DEF Fresh, Looping
  <2> QED BY <1>0, <2>1, <2>2, <2>3, <2>4, <2>5, <2>6 DEF Ranked, IsOrder, Looping
<1>10. CASE ApplyBuild
  <2> DEFINE w == Head(run.todo)
             n == Len(run.todo)
             o == conf.order
  <2>1. run.pc = "build" /\ conf' = conf /\ reapply' = reapply /\ status' = status
        /\ run'.pc = "build" /\ run'.todo = Tail(run.todo) /\ run.todo # <<>>
    BY <1>10, BuildFacts DEF ApplyBuild, Holds
  <2>2. Order' = Order
    BY <2>1 DEF Order, ByRank
  <2>3. Fresh' => Fresh
    BY <2>1 DEF Fresh, Looping
  <2>4. /\ n \in Nat \ {0} /\ Len(run'.todo) = n - 1 /\ w = run.todo[1]
        /\ \A i \in 1..n - 1 : run'.todo[i] = run.todo[i + 1]
    BY <1>0, <2>1 DEF Types, IsRun
  <2>5. Len(o) \in Nat /\ n =< Len(o) /\ \A i \in 1..n : run.todo[i] = o[Len(o) - n + i]
    BY <1>0, <2>1, ConfFacts DEF Types, Ranked, Suffix
  <2>6. Rank = Len(o) - n /\ Rank' = Rank + 1 /\ Rank \in Nat /\ w = o[Rank + 1]
    <3>1. Rank = Len(o) - n /\ Rank' = Len(o) - Len(run'.todo)
      BY <2>1 DEF Rank
    <3>2. 1 \in 1..n
      BY <2>4
    <3>3. run.todo[1] = o[Len(o) - n + 1]
      BY <2>5, <3>2
    <3> HIDE DEF n, o, w
    <3>4. Rank' = Rank + 1 /\ Rank \in Nat
      BY <3>1, <2>4, <2>5
    <3>5. w = o[Len(o) - n + 1]
      BY <3>3, <2>4
    <3> QED BY <3>1, <3>4, <3>5
  <2>7. \A i, j \in 1..Len(o) : o[i] = o[j] => i = j
    BY <1>0, ConfFacts DEF Types
  <2>8. /\ DOMAIN run.new = {o[i] : i \in 1..Rank}
        /\ \A i \in 1..Rank : run.new[o[i]].seq = i - 1
    BY <1>0, <2>1 DEF Ranked
  <2>9. /\ DOMAIN run'.new = DOMAIN run.new \cup {w}
        /\ \A v \in DOMAIN run.new : v # w => run'.new[v] = run.new[v]
        /\ run'.new[w].seq = Rank
    BY <1>10, BuildFacts
  <2> HIDE DEF w, n, o
  <2>10. 1..Rank + 1 = 1..Rank \cup {Rank + 1} /\ Rank + 1 =< Len(o)
    BY <2>4, <2>5, <2>6
  <2>11. DOMAIN run'.new = {o[i] : i \in 1..Rank + 1}
    BY <2>6, <2>8, <2>9, <2>10
  <2>12. ASSUME NEW i \in 1..Rank + 1 PROVE run'.new[o[i]].seq = i - 1
    <3>1. CASE i = Rank + 1
      BY <2>6, <2>9, <3>1
    <3>2. CASE i \in 1..Rank
      <4>1. o[i] # w /\ o[i] \in DOMAIN run.new
        BY <2>5, <2>6, <2>7, <2>8, <2>10, <3>2
      <4> QED BY <2>8, <2>9, <3>2, <4>1
    <3> QED BY <2>10, <3>1, <3>2
  <2>13. Suffix(run'.todo, o)
    <3>1. ASSUME NEW i \in 1..n - 1 PROVE run'.todo[i] = o[Len(o) - (n - 1) + i]
      <4>1. i + 1 \in 1..n /\ run'.todo[i] = run.todo[i + 1]
        BY <2>4
      <4>2. run.todo[i + 1] = o[Len(o) - n + (i + 1)]
        BY <2>5, <4>1
      <4>3. Len(o) - n + (i + 1) = Len(o) - (n - 1) + i
        BY <2>4, <2>5
      <4> QED BY <4>1, <4>2, <4>3
    <3> QED BY <2>4, <2>5, <3>1 DEF Suffix
  <2> QED BY <1>0, <2>1, <2>2, <2>3, <2>6, <2>11, <2>12, <2>13
          DEF Ranked, IsOrder, Looping, o
<1>11. CASE ApplyCommit
  <2>1. run.pc = "build" /\ run.todo = <<>> /\ status' = run.new /\ conf' = conf
        /\ run'.pc = "begin"
    BY <1>11, IdleRun DEF ApplyCommit, Holds, Idle
  <2>2. Rank = Len(conf.order) /\ conf.order \in Seq(Wan)
    <3>1. conf.order \in Seq(Wan) /\ Len(conf.order) \in Nat
      BY <1>0, ConfFacts DEF Types
    <3>2. Len(run.todo) = 0
      BY <2>1
    <3> QED BY <3>1, <3>2 DEF Rank
  <2>3. IsOrder(conf.order, status')
    BY <1>0, <2>1, <2>2 DEF Ranked, IsOrder
  <2>4. Order' = conf.order
    BY <2>3, RankIsOrder DEF Order
  <2> QED BY <2>1, <2>3, <2>4 DEF Ranked, Looping
<1>12. CASE RefreshRead
  <2>0. run' = run \/ \E n : run' = [run EXCEPT !.pc = "refresh", !.metric = n]
    BY <1>12 DEF RefreshRead
  <2>1. run.pc = "idle" /\ run'.pc \in {"idle", "refresh"} /\ status' = status
        /\ conf' = conf /\ reapply' = reapply
    BY <1>0, <1>12, <2>0 DEF RefreshRead, Holds, Types, IsRun
  <2>2. Order' = Order
    BY <2>1 DEF Order, ByRank
  <2>3. Fresh' => Fresh
    BY <2>1 DEF Fresh, Looping
  <2> QED BY <1>0, <2>1, <2>2, <2>3 DEF Ranked, IsOrder, Looping
<1>13. CASE RefreshWrite
  <2>1. Fresh' => Fresh
    BY <1>13, IdleRun DEF RefreshWrite, Fresh, Looping
  <2> QED BY <1>13, <1>b, <2>1, IdleRun DEF RefreshWrite
<1>14. CASE Flush6
  <2>1. (Fresh' => Fresh) /\ run'.pc = "idle"
    BY <1>14 DEF Flush6, Fresh, Looping, Holds
  <2> QED BY <1>14, <1>b, <2>1 DEF Flush6
<1>15. ASSUME NEW b \in BOOLEAN, Notified(b) PROVE Ranked'
  <2>1. Fresh' => Fresh
    BY <1>15 DEF Notified, Fresh, Looping, Holder
  <2> QED BY <1>15, <1>a, <2>1 DEF Notified
<1>16. ASSUME NEW w \in setup.wans, NEW s \in {"gone", "down", "up"}, DeviceChange(w, s)
       PROVE  Ranked'
  <2>1. Fresh' => Fresh
    BY <1>16 DEF DeviceChange, Fresh, Looping, Holder
  <2> QED BY <1>16, <1>a, <2>1 DEF DeviceChange
<1>17. ASSUME NEW w \in setup.wans, NEW b \in BOOLEAN, Check(w, b) PROVE Ranked'
  <2>1. Order' = Order /\ IsOrder(Order', status')
    BY <1>0, <1>17, CheckFacts, SameOrder
  <2>2. run' = run /\ conf' = conf /\ jobs' = jobs /\ reapply' = reapply
    BY <1>17 DEF Check
  <2>3. Fresh' => Fresh
    BY <2>2 DEF Fresh, Looping, Holder
  <2> QED BY <1>0, <2>1, <2>2, <2>3 DEF Ranked, Looping, Rank
<1>18. ASSUME NEW w \in setup.wans, IpChange(w) PROVE Ranked'
  <2>1. w \in Wan
    BY <1>0, SetupAssumption DEF Types
  <2>2. Fresh' => Fresh
    BY <1>0, <1>18, <1>c, <2>1, JobFacts DEF IpChange, Fresh, Looping, Queue
  <2> QED BY <1>18, <1>a, <2>2 DEF IpChange
<1>19. CASE Ip6Change
  <2>1. Fresh' => Fresh
    BY <1>0, <1>19, <1>c, JobFacts DEF Ip6Change, Fresh, Looping, Queue
  <2> QED BY <1>19, <1>a, <2>1 DEF Ip6Change
<1>20. ASSUME NEW c \in setup.configs, Reconfigure(c) PROVE Ranked'
  <2>1. Fresh' => Fresh
    BY <1>0, <1>20, <1>c, JobFacts DEF Reconfigure, Fresh, Looping, Queue
  <2> QED BY <1>20, <1>a, <2>1 DEF Reconfigure
<1> QED BY <1>1, <1>2, <1>3, <1>5, <1>6, <1>7, <1>8, <1>9, <1>10, <1>11, <1>12, <1>13,
           <1>14, <1>15, <1>16, <1>17, <1>18, <1>19, <1>20
        DEF Next, System, Environment

\* Nothing happens.
LEMMA BaseStays ==
  ASSUME Base, UNCHANGED vars
  PROVE  Base'
<1>1. Types'
  BY DEF Base, Types, vars, IsTable, IsRun
<1>2. Queue'
  BY DEF Base, Queue, vars, Proper, Loaders, Holder, Known
<1>3. Order' = Order /\ (Fresh' => Fresh)
  BY DEF Order, ByRank, vars, Fresh, Looping, Holder
<1>4. Ranked'
  BY <1>3 DEF Base, Ranked, IsOrder, Looping, Rank, vars
<1> QED BY <1>1, <1>2, <1>4 DEF Base

\* At first nothing is known.
LEMMA BaseInit ==
  ASSUME Init
  PROVE  Base
<1>1. setup \in Setups /\ setup.start \in setup.configs
  BY SetupAssumption DEF Init
<1>2. Types
  <2>1. hw \in [Wan -> {"gone", "down", "up"}]
    BY DEF Init
  <2>2. route \in [Families -> [Wan -> Nat]] /\ multi \in [Families -> SUBSET Wan]
    BY DEF Init
  <2>3. jobs \in Seq(Jobs) /\ IsRun(run) /\ IsTable(status)
    BY IdleRun DEF Init
  <2> QED BY <1>1, <2>1, <2>2, <2>3 DEF Init, Types
<1>3. Queue
  BY IdleRun DEF Init, Queue
<1>4. Ranked
  <2>1. DOMAIN status = {} /\ run.pc = "idle" /\ reapply = "flushed"
    BY IdleRun DEF Init
  <2>2. IsOrder(<<>>, status)
    BY <2>1 DEF IsOrder
  <2>3. Order = <<>>
    BY <2>2, RankIsOrder DEF Order
  <2> QED BY <2>1, <2>2, <2>3 DEF Ranked, Fresh, Looping
<1> QED BY <1>2, <1>3, <1>4 DEF Base

\* The types, the queue and the order are kept by every step.
LEMMA BaseKeep ==
  ASSUME Base, [Next]_vars
  PROVE  Base'
BY BaseStays, TypesKeep, QueueKeep, RankedKeep DEF Base

-----------------------------------------------------------------------------
(* Who is told, the LED and who is in use                                  *)

\* Who follows the active WANs knows those before a loop.
ToldInv ==
  /\ Looping /\ Holder.op = "switch" => told = run.before
  /\ run.pc \notin {"begin", "loop"} => told = Active(status)

\* The LED was asked for what _wanStatus says, unless apply() replaced it.
LedInv == reapply \in {"no", "flushing"} => lastAnyUp = (Ready(status) # {})

\* One WAN is in use, or is once the loop has ended.
UseInv ==
  Failover =>
    /\ ~Looping /\ reapply \in {"no", "flushing"} => InUse(status) # {}
    /\ Looping /\ run.inUseFound => InUse(status) \cap Past # {}

\* Whoever waits in the queue does not change who holds the lock.
LEMMA HolderStays ==
  ASSUME Base, NEW j \in Jobs, jobs' = Append(jobs, j)
  PROVE  /\ jobs # <<>> => Holder' = Holder
         /\ Looping => jobs # <<>>
BY QueueFacts DEF Holder, Base, Queue, Looping

\* What the flags of the WANs are depends on the table alone.
LEMMA FlagsStay ==
  ASSUME status' = status
  PROVE  /\ Active(status') = Active(status) /\ Ready(status') = Ready(status)
         /\ InUse(status') = InUse(status) /\ Known' = Known /\ Order' = Order
         /\ run' = run => Past' = Past /\ Done' = Done
<1>1. Active(status') = Active(status) /\ Ready(status') = Ready(status)
      /\ InUse(status') = InUse(status)
  BY DEF Active, Ready, InUse
<1>2. Known' = Known /\ Order' = Order
  BY DEF Known, Order, ByRank
<1>3. ASSUME run' = run PROVE Past' = Past /\ Done' = Done
  <2>1. Done' = Done
    BY <1>2, <1>3 DEF Done
  <2> QED BY <1>2, <2>1 DEF Past
<1> QED BY <1>1, <1>2, <1>3

\* The steps that leave _wanStatus and the holder's variables alone, and what
\* they do to the queue.
Aside ==
  \/ TimerFires \/ Apply \/ Ip6Change
  \/ \E w \in setup.wans : IpChange(w)
  \/ \E c \in setup.configs : Reconfigure(c)

\* They append to the queue.
LEMMA AsideFacts ==
  ASSUME Base, Aside
  PROVE  /\ status' = status /\ run' = run /\ told' = told /\ lastAnyUp' = lastAnyUp
         /\ conf' = conf /\ route' = route /\ multi' = multi /\ hw' = hw /\ setup' = setup
         /\ \E j \in Jobs : jobs' = Append(jobs, j) /\ ~(j.op = "switch" /\ ~timer)
         /\ reapply' \in {"no", "flushing"} => reapply \in {"no", "flushing"}
<1>1. Types
  BY DEF Base
<1>2. CASE TimerFires
  <2>1. timer
    BY <1>2 DEF TimerFires
  <2> QED BY <1>1, <1>2, <2>1, JobFacts DEF TimerFires, env, leaves
<1>3. CASE Apply
  BY <1>1, <1>3, JobFacts DEF Apply, env, leaves
<1>4. CASE Ip6Change
  BY <1>1, <1>4, JobFacts DEF Ip6Change, leaves, Happens
<1>5. CASE \E w \in setup.wans : IpChange(w)
  <2>1. PICK w \in setup.wans : IpChange(w)
    BY <1>5
  <2>2. w \in Wan
    BY <1>1, SetupAssumption DEF Types
  <2> QED BY <1>1, <2>1, <2>2, JobFacts DEF IpChange, leaves, Happens
<1>6. CASE \E c \in setup.configs : Reconfigure(c)
  BY <1>1, <1>6, JobFacts DEF Reconfigure, leaves, Happens
<1> QED BY <1>2, <1>3, <1>4, <1>5, <1>6 DEF Aside

\* EVENT_WAN_SWITCHED follows each change of the active WANs.
LEMMA ToldKeep ==
  ASSUME Base, ToldInv, Next
  PROVE  ToldInv'
<1> USE DEF env, leaves
<1>0. Types /\ Queue /\ Ranked
  BY DEF Base
<1>1. CASE Begin
  <2>1. run'.pc = "loop" /\ run'.before = Active(status) /\ told' = told /\ jobs' = jobs
    BY <1>1 DEF Begin, Idle
  <2>2. Holder.op = "switch" => run.pc = "idle"
    BY <1>1 DEF Begin, Holds
  <2> QED BY <2>1, <2>2 DEF ToldInv, Looping, Holder
<1>2. CASE Turn \/ TurnRead \/ TurnWrite
  <2>1. run'.pc = run.pc /\ run'.before = run.before /\ told' = told /\ jobs' = jobs
        /\ run.pc = "loop"
    BY <1>0, <1>2 DEF Turn, TurnRead, TurnWrite, InLoop, Types, IsRun
  <2> QED BY <2>1 DEF ToldInv, Looping, Holder
<1>3. CASE End
  <2>1. run'.pc = "idle" /\ Looping /\ Holder.op \in {"switch", "apply"}
    BY <1>3, IdleRun DEF End, InLoop, Looping
  <2>2. Active(status') = Active(status)
    BY <1>0, <1>3, EndFacts DEF Ranked, Order, Active, Known
  <2>3. told' = Active(status)
    BY <1>3, <2>1 DEF End, Switched, ToldInv
  <2> QED BY <2>1, <2>2, <2>3 DEF ToldInv, Looping
<1>4. CASE Aside
  <2>1. status' = status /\ run' = run /\ told' = told
    BY <1>4, AsideFacts
  <2>2. Looping => Holder' = Holder
    BY <1>4, AsideFacts, HolderStays
  <2> QED BY <2>1, <2>2, FlagsStay DEF ToldInv, Looping
<1>5. CASE Flush \/ Flush6 \/ RefreshWrite
  <2>1. status' = status /\ run'.pc = "idle" /\ told' = told /\ run.pc \in {"idle", "refresh"}
    BY <1>5, IdleRun DEF Flush, Flush6, RefreshWrite, Holds
  <2> QED BY <2>1, FlagsStay DEF ToldInv, Looping
<1>6. CASE RefreshRead
  <2>0. run' = run \/ \E n : run' = [run EXCEPT !.pc = "refresh", !.metric = n]
    BY <1>6 DEF RefreshRead
  <2>1. status' = status /\ run'.pc \in {"idle", "refresh"} /\ told' = told /\ run.pc = "idle"
    BY <1>0, <1>6, <2>0 DEF RefreshRead, Holds, Types, IsRun
  <2> QED BY <2>1, FlagsStay DEF ToldInv, Looping
<1>7. CASE ApplyStart
  <2>1. status' = status /\ run'.pc = "build" /\ told' = told /\ run.pc = "idle"
    BY <1>7, IdleRun DEF ApplyStart, Holds, Idle
  <2> QED BY <2>1, FlagsStay DEF ToldInv, Looping
<1>8. CASE ApplyBuild
  <2>1. status' = status /\ run'.pc = "build" /\ told' = told /\ run.pc = "build"
    BY <1>8, BuildFacts DEF ApplyBuild, Holds
  <2> QED BY <2>1, FlagsStay DEF ToldInv, Looping
<1>9. CASE ApplyCommit
  <2>1. run'.pc = "begin"
    BY <1>9, IdleRun DEF ApplyCommit, Idle
  <2> QED BY <2>1 DEF ToldInv, Looping
<1>10. ASSUME NEW b \in BOOLEAN, Notified(b) PROVE ToldInv'
  BY <1>10, FlagsStay DEF Notified, ToldInv, Looping, Holder
<1>11. ASSUME NEW w \in setup.wans, NEW s \in {"gone", "down", "up"}, DeviceChange(w, s)
       PROVE  ToldInv'
  BY <1>11, FlagsStay DEF DeviceChange, ToldInv, Looping, Holder
<1>12. ASSUME NEW w \in setup.wans, NEW b \in BOOLEAN, Check(w, b) PROVE ToldInv'
  <2>1. Active(status') = Active(status)
    BY <1>0, <1>12, CheckFacts DEF Active, Known
  <2> QED BY <1>12, <2>1 DEF Check, ToldInv, Looping, Holder
<1> QED BY <1>1, <1>2, <1>3, <1>4, <1>5, <1>6, <1>7, <1>8, <1>9, <1>10, <1>11, <1>12
        DEF Next, System, Environment, Aside

\* A test and a loop leave lastAnyUp as _wanStatus is.
LEMMA LedKeep ==
  ASSUME Base, LedInv, Next
  PROVE  LedInv'
<1> USE DEF env, leaves
<1>0. Types /\ Queue /\ Ranked
  BY DEF Base
<1>1. CASE Begin \/ TurnRead \/ Flush6 \/ RefreshRead \/ RefreshWrite \/ ApplyStart \/ ApplyBuild
  <2>1. status' = status /\ lastAnyUp' = lastAnyUp /\ reapply' = reapply
    BY <1>1 DEF Begin, TurnRead, Flush6, RefreshRead, RefreshWrite, ApplyStart, ApplyBuild
  <2> QED BY <2>1, FlagsStay DEF LedInv
<1>2. CASE Turn \/ TurnWrite
  <2>1. Looping /\ run.todo # <<>> /\ Len(run.todo) > 0 /\ InLoop
    BY <1>0, <1>2 DEF Turn, TurnWrite, InLoop, Looping, Types, IsRun
  <2>2. /\ DOMAIN status' = Known
        /\ \A v \in Known : status'[v].ready = status[v].ready
    BY <1>0, <1>2, <2>1, TodoFacts, TurnFacts, TurnWriteFacts
  <2>3. Ready(status') = Ready(status)
    BY <2>2 DEF Ready, Known
  <2>4. lastAnyUp' = lastAnyUp /\ reapply' = reapply
    BY <1>2 DEF Turn, TurnWrite
  <2> QED BY <2>3, <2>4 DEF LedInv
<1>3. CASE End
  <2>1. Ready(status') = Ready(status)
    BY <1>0, <1>3, EndFacts DEF Ranked, Order, Ready, Known
  <2>2. lastAnyUp' = (Ready(status) # {})
    BY <1>3 DEF End, ProcessChange
  <2> QED BY <2>1, <2>2 DEF LedInv
<1>4. CASE Aside
  BY <1>4, AsideFacts, FlagsStay DEF LedInv
<1>5. CASE Flush
  BY <1>5 DEF Flush, LedInv
<1>6. CASE ApplyCommit
  <2>1. jobs # <<>> /\ Holder.op = "apply" /\ reapply' = reapply
    BY <1>6 DEF ApplyCommit, Holds
  <2>2. reapply = "applying"
    BY <2>1, HolderFacts DEF Proper
  <2> QED BY <2>1, <2>2 DEF LedInv
<1>10. ASSUME NEW b \in BOOLEAN, Notified(b) PROVE LedInv'
  BY <1>10, FlagsStay DEF Notified, LedInv
<1>11. ASSUME NEW w \in setup.wans, NEW s \in {"gone", "down", "up"}, DeviceChange(w, s)
       PROVE  LedInv'
  BY <1>11, FlagsStay DEF DeviceChange, LedInv
<1>12. ASSUME NEW w \in setup.wans, NEW b \in BOOLEAN, Check(w, b) PROVE LedInv'
  <2>0. reapply' = reapply
    BY <1>12 DEF Check
  <2>1. CASE w \notin Known \cap subs
    <3>1. status' = status /\ lastAnyUp' = lastAnyUp
      BY <1>12, <2>1 DEF Check
    <3> QED BY <2>0, <3>1, FlagsStay DEF LedInv
  <2>2. CASE w \in Known \cap subs /\ status[w].ready # b
    <3>1. lastAnyUp' = (Ready(status') # {})
      BY <1>12, <2>2 DEF Check, ProcessChange
    <3> QED BY <3>1 DEF LedInv
  <2>3. CASE w \in Known \cap subs /\ status[w].ready = b
    <3>1. lastAnyUp' = lastAnyUp
      BY <1>12, <2>3 DEF Check
    <3>2. \A v \in Known : status'[v].ready = status[v].ready
      BY <1>0, <1>12, <2>3, CheckFacts
    <3>3. Ready(status') = Ready(status)
      BY <1>0, <1>12, <3>2, CheckFacts DEF Ready, Known
    <3> QED BY <2>0, <3>1, <3>3 DEF LedInv
  <2> QED BY <2>1, <2>2, <2>3
<1> QED BY <1>1, <1>2, <1>3, <1>4, <1>5, <1>6, <1>10, <1>11, <1>12
        DEF Next, System, Environment, Aside

\* Who is in use after a turn: the WAN that became active, or else as before,
\* and a WAN with a carrier if there was none.
LEMMA TurnUse ==
  ASSUME Base, Turn
  PROVE  LET w == Head(run.todo)
             act == status[w].ready /\ run.current = None
         IN
         /\ Looping /\ InLoop /\ Failover /\ run.todo # <<>> /\ Len(run.todo) > 0
         /\ run'.pc = "loop" /\ run'.todo = Tail(run.todo) /\ run'.hops = run.hops
         /\ run'.before = run.before
         /\ run'.current = IF act THEN w ELSE run.current
         /\ run'.last = IF status[w].active THEN w ELSE run.last
         /\ Order' = Order /\ Known' = Known /\ Past' = Past \cup {w}
         /\ act => status'[w].inUse
         /\ ~act => /\ run'.inUseFound => run.inUseFound \/ status'[w].inUse
                    /\ \A v \in Known : v # w => status'[v].inUse = status[v].inUse
<1> DEFINE w == Head(run.todo)
           s == status[w]
           act == s.ready /\ run.current = None
           found == act \/ run.current # None
           inUse == IF found THEN act ELSE Linked(w) /\ ~run.inUseFound
<1>0. /\ Looping /\ InLoop /\ Failover /\ run.todo # <<>> /\ Len(run.todo) > 0
      /\ run'.pc = "loop" /\ run'.todo = Tail(run.todo) /\ run'.hops = run.hops
      /\ run'.before = run.before
      /\ run'.current = (IF act THEN w ELSE run.current)
      /\ run'.last = (IF status[w].active THEN w ELSE run.last)
  BY DEF Turn, InLoop, Looping, Base, Types, IsRun
<1>1. w \in Known /\ s \in Record
  BY <1>0, TodoFacts
<1>2. Order' = Order /\ Known' = Known /\ Past' = Past \cup {w}
  <2>1. /\ IsTable(status') /\ DOMAIN status' = Known
        /\ \A v \in Known : status'[v].seq = status[v].seq
    BY <1>0, <1>1, TurnFacts DEF Base
  <2>2. Order' = Order /\ Known' = Known
    BY <2>1, SameOrder
  <2> QED BY <1>0, <2>1, <2>2, PastFacts
<1>3. status' = [v \in Known |->
                   IF v = w THEN [s EXCEPT !.active = act, !.inUse = inUse]
                   ELSE [status[v] EXCEPT !.inUse = @ /\ ~act]]
  BY DEF Turn
<1>4. act \in BOOLEAN /\ inUse \in BOOLEAN /\ found \in BOOLEAN
  BY <1>1 DEF Record, Linked, Base, Types, IsRun
<1>5. run'.inUseFound = (run.inUseFound \/ (inUse /\ ~found))
  BY DEF Turn, Base, Types, IsRun
<1>6. act => inUse
  OBVIOUS
<1> HIDE DEF act, inUse, found
<1>7. status'[w].inUse = inUse
  <2>1. status'[w] = [s EXCEPT !.active = act, !.inUse = inUse]
    BY <1>1, <1>3
  <2> HIDE DEF s
  <2> QED BY <1>1, <1>4, <2>1 DEF Record
<1>8. ASSUME NEW v \in Known, v # w, ~act PROVE status'[v].inUse = status[v].inUse
  <2>1. status'[v] = [status[v] EXCEPT !.inUse = @ /\ ~act]
    BY <1>3, <1>8
  <2>2. status[v] \in Record
    BY OrderFacts
  <2>3. status'[v].inUse = (status[v].inUse /\ ~act)
    BY <1>4, <2>1, <2>2 DEF Record
  <2> QED BY <1>8, <2>2, <2>3 DEF Record
<1>9. act => status'[w].inUse
  BY <1>6, <1>7
<1>10. ~act => (run'.inUseFound => run.inUseFound \/ status'[w].inUse)
  BY <1>5, <1>7
<1> QED BY <1>0, <1>2, <1>8, <1>9, <1>10 DEF w, s, act

\* The end of a loop without an active or linked WAN takes the first one.
LEMMA EndUse ==
  ASSUME Base, End, Failover, ~run.inUseFound, Known # {}
  PROVE  InUse(status') # {}
<1>1. status' = [status EXCEPT ![Order[1]].inUse = TRUE]
  BY DEF End, Tentative, FirstInUse, Order
<1>2. Order[1] \in Known
  BY OrderFacts
<1>3. status[Order[1]] \in Record /\ Order[1] \in DOMAIN status
  BY <1>2, OrderFacts DEF Known
<1>4. status'[Order[1]].inUse = TRUE /\ Order[1] \in DOMAIN status'
  BY <1>1, <1>3 DEF Record
<1> QED BY <1>4 DEF InUse

\* Steps that leave the plugin's own variables alone.
Elsewhere ==
  \/ \E b \in BOOLEAN : Notified(b)
  \/ \E w \in setup.wans, s \in {"gone", "down", "up"} : DeviceChange(w, s)

\* A loop leaves somebody in use.
LEMMA UseKeep ==
  ASSUME Base, UseInv, Next
  PROVE  UseInv'
<1> USE DEF env, leaves
<1>0. Types /\ Queue /\ Ranked
  BY DEF Base
<1>1. CASE Begin
  <2>1. run'.pc = "loop" /\ ~run'.inUseFound
    BY <1>1 DEF Begin, Idle
  <2> QED BY <2>1 DEF UseInv, Looping
<1>2. CASE Turn
  <2> DEFINE w == Head(run.todo)
             act == status[w].ready /\ run.current = None
  <2>0. w \in Known /\ w \notin Past
    BY <1>2, TurnUse, TodoFacts
  <2>1. Looping /\ Looping' /\ Past' = Past \cup {w} /\ conf' = conf /\ DOMAIN status' = Known
    BY <1>2, TurnUse DEF Looping, Turn
  <2>2. CASE act
    <3>1. w \in InUse(status') \cap Past'
      BY <1>2, <2>0, <2>1, <2>2, TurnUse DEF InUse
    <3> QED BY <2>1, <3>1 DEF UseInv, Failover
  <2>3. CASE ~act /\ status'[w].inUse
    <3>1. w \in InUse(status') \cap Past'
      BY <2>0, <2>1, <2>3 DEF InUse
    <3> QED BY <2>1, <3>1 DEF UseInv, Failover
  <2>4. CASE ~act /\ ~status'[w].inUse
    <3>1. run'.inUseFound => run.inUseFound
      BY <1>2, <2>4, TurnUse
    <3>2. ASSUME run'.inUseFound PROVE InUse(status') \cap Past' # {}
      <4>1. PICK u \in InUse(status) \cap Past : TRUE
        BY <1>2, <2>1, <3>1, <3>2, TurnUse DEF UseInv
      <4>2. u \in Known /\ u # w /\ status[u].inUse
        BY <2>0, <4>1 DEF InUse, Known
      <4>3. status'[u].inUse
        BY <1>2, <2>4, <4>2, TurnUse
      <4> QED BY <2>1, <4>1, <4>2, <4>3 DEF InUse
    <3> QED BY <2>1, <3>2 DEF UseInv
  <2> QED BY <2>2, <2>3, <2>4
<1>3. CASE TurnRead \/ TurnWrite
  <2>1. ~Failover /\ conf' = conf
    BY <1>3 DEF TurnRead, TurnWrite
  <2> QED BY <2>1 DEF UseInv, Failover
<1>4. CASE End
  <2>1. run'.pc = "idle" /\ Looping /\ Holder.op \in {"switch", "apply"} /\ conf' = conf
        /\ reapply' = (IF Holder.op = "apply" THEN "no" ELSE reapply)
    BY <1>4, IdleRun DEF End, InLoop, Looping
  <2>2. ASSUME Failover, reapply' \in {"no", "flushing"} PROVE InUse(status') # {}
    <3>1. CASE run.inUseFound
      <4>1. status' = status
        BY <1>4, <2>2, <3>1 DEF End, Tentative, FirstInUse
      <4>2. InUse(status) # {}
        BY <2>1, <2>2, <3>1 DEF UseInv
      <4> QED BY <4>1, <4>2
    <3>2. CASE ~run.inUseFound
      <4>1. Fresh
        BY <2>1, <2>2 DEF Fresh
      <4>2. Order = conf.order /\ Len(conf.order) > 0 /\ Len(conf.order) \in Nat
        BY <1>0, <4>1, ConfFacts DEF Ranked, Types
      <4>3. Order[1] \in Known
        BY <4>2, OrderFacts
      <4> QED BY <1>4, <2>2, <3>2, <4>3, EndUse
    <3> QED BY <3>1, <3>2
  <2> QED BY <2>1, <2>2 DEF UseInv, Looping, Failover
<1>5. CASE Aside \/ Elsewhere
  <2>1. status' = status /\ run' = run /\ conf' = conf
        /\ (reapply' \in {"no", "flushing"} => reapply \in {"no", "flushing"})
    BY <1>5, AsideFacts DEF Elsewhere, Notified, DeviceChange
  <2> QED BY <2>1, FlagsStay DEF UseInv, Looping, Failover
<1>6. CASE Flush
  <2>1. reapply' = "flushed" /\ run'.pc = "idle"
    BY <1>6 DEF Flush, Holds
  <2> QED BY <2>1 DEF UseInv, Looping
<1>7. CASE Flush6 \/ RefreshRead \/ RefreshWrite \/ ApplyStart \/ ApplyBuild
  <2>0. run' = run \/ (\E n : run' = [run EXCEPT !.pc = "refresh", !.metric = n])
        \/ run'.pc \in {"idle", "build"}
    BY <1>7, IdleRun, BuildFacts
       DEF Flush6, RefreshRead, RefreshWrite, ApplyStart, ApplyBuild, Holds, Idle
  <2>1. status' = status /\ run.pc # "loop" /\ reapply' = reapply /\ conf' = conf
    BY <1>7 DEF Flush6, RefreshRead, RefreshWrite, ApplyStart, ApplyBuild, Holds
  <2>2. run'.pc # "loop"
    BY <1>0, <2>0, <2>1 DEF Types, IsRun
  <2> QED BY <2>1, <2>2, FlagsStay DEF UseInv, Looping, Failover
<1>8. CASE ApplyCommit
  <2>1. run'.pc = "begin" /\ reapply' = reapply /\ jobs # <<>> /\ Holder.op = "apply"
    BY <1>8, IdleRun DEF ApplyCommit, Holds, Idle
  <2>2. reapply = "applying"
    BY <2>1, HolderFacts DEF Proper
  <2> QED BY <2>1, <2>2 DEF UseInv, Looping
<1>12. ASSUME NEW w \in setup.wans, NEW b \in BOOLEAN, Check(w, b) PROVE UseInv'
  <2>1. InUse(status') = InUse(status)
    BY <1>0, <1>12, CheckFacts DEF InUse, Known
  <2>2. Order' = Order /\ Known' = Known /\ run' = run /\ reapply' = reapply /\ conf' = conf
    BY <1>0, <1>12, CheckFacts, SameOrder DEF Check
  <2>3. Done' = Done
    BY <2>2 DEF Done
  <2>4. Past' = Past
    BY <1>0, <1>12, <2>2, <2>3, CheckFacts DEF Past
  <2> QED BY <2>1, <2>2, <2>4 DEF UseInv, Looping, Failover
<1> QED BY <1>1, <1>2, <1>3, <1>4, <1>5, <1>6, <1>7, <1>8, <1>12
        DEF Next, System, Environment, Aside, Elsewhere

-----------------------------------------------------------------------------
(* The theorems for every box                                              *)

\* The plugin's variables have their types, the queue holds one reapply at
\* most, and the loop goes through the WANs in the order of the configuration.
THEOREM Invariant == Spec => []Base
<1>1. Init => Base
  BY BaseInit
<1>2. Base /\ [Next]_vars => Base'
  BY BaseKeep
<1> QED BY <1>1, <1>2, PTL DEF Spec

Answers == ToldInv /\ LedInv /\ UseInv

\* At first no WAN is active, none is told of and none is in use.
LEMMA AnswersInit ==
  ASSUME Init
  PROVE  Answers
<1>1. DOMAIN status = {} /\ run.pc = "idle" /\ reapply = "flushed" /\ told = {}
  BY IdleRun DEF Init
<1> QED BY <1>1 DEF Answers, ToldInv, LedInv, UseInv, Looping, Active

\* They are kept together.
LEMMA AnswersKeep ==
  ASSUME Base, Answers, [Next]_vars
  PROVE  Answers'
<1>1. CASE Next
  BY <1>1, ToldKeep, LedKeep, UseKeep DEF Answers
<1>2. CASE UNCHANGED vars
  BY <1>2, FlagsStay DEF Answers, ToldInv, LedInv, UseInv, Looping, Holder, Failover, vars
<1> QED BY <1>1, <1>2

\* For any box: whatever is asked for follows from _wanStatus.
LEMMA AnswersAlways == Spec => []Answers
<1>1. Init => Answers
  BY AnswersInit
<1>2. Base /\ Answers /\ [Next]_vars => Answers'
  BY AnswersKeep
<1> QED BY <1>1, <1>2, Invariant, PTL DEF Spec

\* For any box, configurations and events: at rest the plugins that follow
\* the active WANs know the right ones.
THEOREM SubscribersKnowAlways == Spec => []SubscribersKnow
<1>1. Base /\ Answers => SubscribersKnow
  BY DEF Base, Queue, Answers, ToldInv, SubscribersKnow, Settled
<1> QED BY <1>1, Invariant, AnswersAlways, PTL

\* For any box, configurations and events: at rest the LED was last asked for
\* the state as it is.
THEOREM LedAskedAlways == Spec => []LedAsked
<1>1. Answers => LedAsked
  BY DEF Answers, LedInv, LedAsked, Settled
<1> QED BY <1>1, AnswersAlways, PTL

\* For any box, configurations and events: at rest one WAN is in use, where
\* one carries the traffic alone.
THEOREM SomeInUseAlways == Spec => []SomeInUse
<1>1. Base /\ Answers => SomeInUse
  BY DEF Base, Queue, Answers, UseInv, SomeInUse, Settled, Looping
<1> QED BY <1>1, Invariant, AnswersAlways, PTL

-----------------------------------------------------------------------------
(* The loop and the devices                                                *)

\* In the loop of a failover the WANs that had their turn are inactive but
\* for the one that was found; there are multipath routes in load_balance only.
LoopInv ==
  /\ Looping => run.hops \subseteq Known
  /\ Failover => \A f \in Families : multi[f] = {}
  /\ Failover /\ Looping =>
       /\ run.hops = {}
       /\ run.current # None => run.current \in Active(status) \cap Past
       /\ Active(status) \cap Past \subseteq {run.current}

\* A device that is gone has no route.
DeviceInv ==
  /\ \A w \in Wan, f \in Families : hw[w] = "gone" => route[f][w] = 0
  /\ "carrier" \notin Kinds => \A w \in Wan : hw[w] # "down"
  /\ "hotplug" \notin Kinds => \A w \in Wan : hw[w] # "gone"

\* What a turn does to who is active.
LEMMA TurnActive ==
  ASSUME Base, LoopInv, Turn
  PROVE  LET w == Head(run.todo)
             act == status[w].ready /\ run.current = None
         IN
         /\ Active(status') = IF act THEN Active(status) \cup {w} ELSE Active(status) \ {w}
         /\ Ready(status') = Ready(status)
         /\ run'.current # None => run'.current \in Active(status') \cap Past'
         /\ Active(status') \cap Past' \subseteq {run'.current}
<1> DEFINE w == Head(run.todo)
           act == status[w].ready /\ run.current = None
<1>1. w \in Known /\ w \in Wan /\ w \notin Past /\ w # None
  BY TurnUse, TodoFacts, SetupAssumption
<1>2. /\ DOMAIN status' = Known /\ Past' = Past \cup {w} /\ Past \subseteq Known
      /\ \A v \in Known : v # w => status'[v].active = status[v].active
      /\ \A v \in Known : status'[v].ready = status[v].ready
      /\ status'[w].active = act
      /\ run'.current = IF act THEN w ELSE run.current
  BY <1>1, TurnUse, TurnFacts DEF Base, Past
<1> HIDE DEF w, act
<1>3. Active(status') = IF act THEN Active(status) \cup {w} ELSE Active(status) \ {w}
  BY <1>1, <1>2 DEF Active, Known
<1>4. Ready(status') = Ready(status)
  BY <1>2 DEF Ready, Known
<1>5. /\ run.current # None => run.current \in Active(status) \cap Past
      /\ Active(status) \cap Past \subseteq {run.current}
  BY TurnUse DEF LoopInv
<1>6. act => run.current = None
  BY DEF act
<1>7. None \notin Active(status)
  BY OrderFacts, SetupAssumption DEF Active, Known
<1>8. /\ run'.current # None => run'.current \in Active(status') \cap Past'
      /\ Active(status') \cap Past' \subseteq {run'.current}
  BY <1>1, <1>2, <1>3, <1>5, <1>6, <1>7
<1> QED BY <1>3, <1>4, <1>8 DEF w, act

\* What a test leaves alone.
LEMMA CheckLeaves ==
  ASSUME Base, NEW w, NEW b \in BOOLEAN, Check(w, b)
  PROVE  /\ Active(status') = Active(status) /\ InUse(status') = InUse(status)
         /\ Known' = Known /\ Order' = Order /\ Past' = Past /\ Done' = Done
         /\ run' = run /\ conf' = conf /\ jobs' = jobs /\ reapply' = reapply
         /\ route' = route /\ multi' = multi /\ hw' = hw /\ setup' = setup
         /\ \A v \in Known : status'[v].seq = status[v].seq
<1>0. Types
  BY DEF Base
<1>1. Active(status') = Active(status) /\ InUse(status') = InUse(status)
  BY <1>0, CheckFacts DEF Active, InUse, Known
<1>2. /\ run' = run /\ conf' = conf /\ jobs' = jobs /\ reapply' = reapply
      /\ route' = route /\ multi' = multi /\ hw' = hw /\ setup' = setup
  BY DEF Check, Happens
<1>3. Order' = Order /\ Known' = Known /\ \A v \in Known : status'[v].seq = status[v].seq
  BY <1>0, CheckFacts, SameOrder
<1>4. Done' = Done
  BY <1>2, <1>3 DEF Done
<1>5. Past' = Past
  BY <1>3, <1>4 DEF Past
<1> QED BY <1>1, <1>2, <1>3, <1>4, <1>5

\* What a turn of load_balance leaves alone.
LEMMA TurnWriteLeaves ==
  ASSUME Base, TurnWrite
  PROVE  LET w == Head(run.todo) IN
         /\ Looping /\ InLoop /\ ~Failover /\ run.todo # <<>>
         /\ w \in Known /\ w \in Wan /\ w \notin Past /\ run.read \in BOOLEAN
         /\ Order' = Order /\ Known' = Known /\ Past' = Past \cup {w}
         /\ run'.pc = "loop" /\ run'.todo = Tail(run.todo) /\ run'.read = None
         /\ run'.before = run.before /\ run'.current = run.current /\ run'.last = run.last
         /\ run'.hops = IF run.read /\ HasGateway(w) THEN run.hops \cup {w} ELSE run.hops
         /\ Ready(status') = Ready(status)
         /\ Active(status') = IF run.read THEN Active(status) \cup {w} ELSE Active(status) \ {w}
<1> DEFINE w == Head(run.todo)
<1>1. /\ Looping /\ InLoop /\ ~Failover /\ run.todo # <<>> /\ Len(run.todo) > 0
      /\ run'.pc = "loop" /\ run'.todo = Tail(run.todo) /\ run'.read = None
      /\ run'.before = run.before /\ run'.current = run.current /\ run'.last = run.last
      /\ run'.hops = IF run.read /\ HasGateway(w) THEN run.hops \cup {w} ELSE run.hops
  BY DEF TurnWrite, InLoop, Looping, Base, Types, IsRun
<1>2. w \in Known /\ w \in Wan /\ w \notin Past /\ run.read \in BOOLEAN
  BY <1>1, TodoFacts DEF TurnWrite, Base, Types, IsRun
<1>3. /\ IsTable(status') /\ DOMAIN status' = Known
      /\ \A v \in Known : status'[v].seq = status[v].seq
      /\ \A v \in Known : status'[v].ready = status[v].ready
      /\ \A v \in Known : v # w => status'[v].active = status[v].active
      /\ status'[w].active = run.read
  BY <1>1, <1>2, TurnWriteFacts DEF Base
<1>4. Order' = Order /\ Known' = Known
  BY <1>3, SameOrder
<1>5. Past' = Past \cup {w}
  BY <1>1, <1>3, <1>4, PastFacts
<1> HIDE DEF w
<1>6. Ready(status') = Ready(status)
  BY <1>3 DEF Ready, Known
<1>7. Active(status') = IF run.read THEN Active(status) \cup {w} ELSE Active(status) \ {w}
  BY <1>2, <1>3 DEF Active, Known
<1> QED BY <1>1, <1>2, <1>4, <1>5, <1>6, <1>7 DEF w

\* Reading does not change who had a turn.
LEMMA TurnReadLeaves ==
  ASSUME Base, TurnRead
  PROVE  /\ Looping /\ InLoop /\ ~Failover /\ run.todo # <<>>
         /\ run'.pc = "loop" /\ run'.todo = run.todo /\ run'.hops = run.hops
         /\ run'.read = status[Head(run.todo)].ready
         /\ run'.current = run.current /\ run'.last = run.last
         /\ Past' = Past /\ status' = status /\ Order' = Order /\ Known' = Known
<1>1. /\ Looping /\ InLoop /\ ~Failover /\ run.todo # <<>>
      /\ run'.pc = "loop" /\ run'.todo = run.todo /\ run'.hops = run.hops
      /\ run'.read = status[Head(run.todo)].ready
      /\ run'.current = run.current /\ run'.last = run.last /\ status' = status
  BY DEF TurnRead, InLoop, Looping, Base, Types, IsRun
<1>2. Order' = Order /\ Known' = Known
  BY <1>1, FlagsStay
<1>3. Past' = Past
  BY <1>1, <1>2 DEF Past, Done
<1> QED BY <1>1, <1>2, <1>3

\* A loop begins with nothing done.
LEMMA BeginFacts ==
  ASSUME Base, Begin
  PROVE  /\ run'.pc = "loop" /\ run'.todo = Order /\ run'.before = Active(status)
         /\ run'.current = None /\ run'.last = None /\ run'.hops = {} /\ run'.read = None
         /\ ~run'.inUseFound /\ status' = status /\ Order' = Order /\ Known' = Known
         /\ Past' = {} /\ jobs # <<>> /\ Holder.op \in {"switch", "apply"}
         /\ Holder.af \in {Families, {6}} /\ (Holder.op = "apply" => Holder.af = Families)
         /\ run.pc = (IF Holder.op = "apply" THEN "begin" ELSE "idle")
<1>1. run' = [Idle EXCEPT !.pc = "loop", !.todo = Order, !.before = Active(status)]
      /\ status' = status
  BY DEF Begin, Order
<1>2. /\ run'.pc = "loop" /\ run'.todo = Order /\ run'.before = Active(status)
      /\ run'.current = None /\ run'.last = None /\ run'.hops = {} /\ run'.read = None
      /\ ~run'.inUseFound
  BY <1>1 DEF Idle
<1>3. Order' = Order /\ Known' = Known
  BY <1>1, FlagsStay
<1>4. Done' = 0
  BY <1>2, <1>3, OrderFacts DEF Done
<1>5. Past' = {}
  BY <1>1, <1>3, <1>4, OrderFacts DEF Past
<1>6. jobs # <<>> /\ Holder.op \in {"switch", "apply"}
      /\ run.pc = (IF Holder.op = "apply" THEN "begin" ELSE "idle")
  BY DEF Begin, Holds
<1>7. Holder.af \in {Families, {6}} /\ (Holder.op = "apply" => Holder.af = Families)
  BY <1>6, HolderFacts DEF Proper
<1> QED BY <1>1, <1>2, <1>3, <1>5, <1>6, <1>7

\* A loop ends when every WAN had its turn.
LEMMA EndLeaves ==
  ASSUME Base, End
  PROVE  /\ Looping /\ InLoop /\ jobs # <<>> /\ Holder.op \in {"switch", "apply"}
         /\ Holder.af \in {Families, {6}} /\ (Holder.op = "apply" => Holder.af = Families)
         /\ Past = Known /\ run'.pc = "idle" /\ conf' = conf /\ hw' = hw /\ setup' = setup
         /\ jobs' = Tail(jobs) /\ timer' = timer
         /\ Active(status') = Active(status) /\ Ready(status') = Ready(status)
         /\ Known' = Known /\ Order' = Order
         /\ \A v \in Known : status'[v].seq = status[v].seq
<1>1. /\ Looping /\ InLoop /\ jobs # <<>> /\ Holder.op \in {"switch", "apply"}
      /\ run.todo = <<>> /\ run'.pc = "idle" /\ conf' = conf /\ hw' = hw /\ setup' = setup
      /\ jobs' = Tail(jobs) /\ timer' = timer
  BY IdleRun DEF End, InLoop, Looping, env
<1>2. Past = Known
  BY <1>1, EndsFacts
<1>3. /\ IsTable(status') /\ DOMAIN status' = Known
      /\ \A v \in Known : status'[v].seq = status[v].seq
      /\ \A v \in Known : status'[v].active = status[v].active
      /\ \A v \in Known : status'[v].ready = status[v].ready
  BY EndFacts DEF Base, Ranked, Order
<1>4. Order' = Order /\ Known' = Known
  BY <1>3, SameOrder
<1>5. Active(status') = Active(status) /\ Ready(status') = Ready(status)
  BY <1>3 DEF Active, Ready, Known
<1>7. Holder.af \in {Families, {6}} /\ (Holder.op = "apply" => Holder.af = Families)
  BY <1>1, HolderFacts DEF Proper
<1> QED BY <1>1, <1>2, <1>3, <1>4, <1>5, <1>7

\* Steps of a job that is not in its loop, neither before nor after
Between == RefreshRead \/ RefreshWrite \/ ApplyStart \/ ApplyBuild \/ Flush6

\* They leave the table and the loader's phase alone.
LEMMA BetweenFacts ==
  ASSUME Base, Between
  PROVE  /\ status' = status /\ Known' = Known /\ Order' = Order /\ conf' = conf
         /\ hw' = hw /\ setup' = setup /\ timer' = timer /\ reapply' = reapply
         /\ run.pc \in {"idle", "refresh", "build"} /\ run'.pc \in {"idle", "refresh", "build"}
         /\ jobs # <<>>
<1>0. run' = run \/ (\E n : run' = [run EXCEPT !.pc = "refresh", !.metric = n])
      \/ run'.pc \in {"idle", "build"}
  BY IdleRun, BuildFacts
     DEF Between, Flush6, RefreshRead, RefreshWrite, ApplyStart, ApplyBuild, Holds, Idle
<1>1. /\ status' = status /\ reapply' = reapply /\ conf' = conf /\ timer' = timer
      /\ hw' = hw /\ setup' = setup /\ jobs # <<>> /\ run.pc \in {"idle", "refresh", "build"}
  BY DEF Between, Flush6, RefreshRead, RefreshWrite, ApplyStart, ApplyBuild, Holds, env
<1>2. run'.pc \in {"idle", "refresh", "build"}
  BY <1>0, <1>1 DEF Base, Types, IsRun
<1> QED BY <1>1, <1>2, FlagsStay

-----------------------------------------------------------------------------
(* What the steps do to the routes                                         *)

\* Most steps only take routes.
Takes ==
  \/ Begin \/ End \/ Flush \/ Flush6
  \/ \E w \in setup.wans, s \in {"gone", "down", "up"} : DeviceChange(w, s)

\* A route is taken or stays.
LEMMA TakesFacts ==
  ASSUME Base, Takes
  PROVE  \A f \in Families, v \in Wan : route'[f][v] \in {0, route[f][v]}
<1>1. \A gone, af : \A f \in Families, v \in Wan :
        Without(gone, af)[f][v] \in {0, route[f][v]}
  <2>1. Types
    BY DEF Base
  <2> QED BY <2>1, RouteFacts
<1>2. route' = route \/ \E gone, af : route' = Without(gone, af)
  BY DEF Takes, Begin, End, Flush, Flush6, DeviceChange
<1> QED BY <1>1, <1>2

\* A turn of a failover gives the WAN its route, if it has a gateway and, for
\* IPv6, if it may have one.
LEMMA TurnRoutes ==
  ASSUME Base, Turn
  PROVE  LET w == Head(run.todo)
             act == status[w].ready /\ run.current = None
         IN
         /\ \A f \in Families, v \in Wan :
              route'[f][v] = IF /\ v = w /\ f \in Holder.af /\ HasGateway(w)
                                /\ f = 6 => V6Allowed(w, act)
                             THEN Metric(w, Linked(w)) ELSE route[f][v]
         /\ multi' = multi /\ hw' = hw /\ conf' = conf /\ jobs' = jobs /\ setup' = setup
         /\ timer' = timer /\ reapply' = reapply /\ events' = events
<1> DEFINE w == Head(run.todo)
           act == status[w].ready /\ run.current = None
           af == {f \in Holder.af : HasGateway(w) /\ (f = 6 => V6Allowed(w, act))}
           n == Metric(w, Linked(w))
<1>1. w \in Known /\ w \in Wan
  BY TurnUse, TodoFacts
<1>2. route' = With(w, n, af)
  BY DEF Turn
<1>3. n \in Nat
  BY <1>1, RouteFacts DEF Base, Linked
<1> HIDE DEF n
<1>4. \A f \in Families, v \in Wan : route'[f][v] = IF f \in af /\ v = w THEN n ELSE route[f][v]
  BY <1>1, <1>2, <1>3, RouteFacts DEF Base
<1>5. /\ multi' = multi /\ hw' = hw /\ conf' = conf /\ jobs' = jobs /\ setup' = setup
      /\ timer' = timer /\ reapply' = reapply /\ events' = events
  BY DEF Turn, env
<1> QED BY <1>4, <1>5 DEF n

\* In load_balance only those that are not ready get one of their own.
LEMMA TurnWriteRoutes ==
  ASSUME Base, TurnWrite
  PROVE  LET w == Head(run.todo) IN
         /\ \A f \in Families, v \in Wan :
              \/ route'[f][v] = route[f][v]
              \/ /\ v = w /\ f = 4 /\ 4 \in Holder.af /\ HasGateway(w) /\ ~run.read
                 /\ route'[f][v] >= status[w].seq + 101
         /\ multi' = multi /\ hw' = hw /\ conf' = conf /\ jobs' = jobs /\ setup' = setup
         /\ timer' = timer /\ reapply' = reapply /\ events' = events
<1> DEFINE w == Head(run.todo)
           n == status[w].seq + 1 + (IF run.read THEN 0 ELSE 100)
                                  + (IF Linked(w) THEN 0 ELSE 10)
<1>1. w \in Known /\ w \in Wan /\ run.read \in BOOLEAN /\ status[w].seq \in Nat
  <2>1. w \in Known /\ w \in Wan /\ run.read \in BOOLEAN
    BY TurnWriteLeaves
  <2> QED BY <2>1, OrderFacts DEF Record
<1>2. route' = IF run.read \/ ~HasGateway(w) THEN route ELSE With(w, n, Holder.af \cap {4})
  BY DEF TurnWrite
<1>3. n \in Nat /\ (~run.read => n >= status[w].seq + 101)
  BY <1>1
<1> HIDE DEF n
<1>4. ~run.read /\ HasGateway(w) => \A f \in Families, v \in Wan :
        route'[f][v] = IF f \in Holder.af \cap {4} /\ v = w THEN n ELSE route[f][v]
  BY <1>1, <1>2, <1>3, RouteFacts DEF Base
<1>5. /\ multi' = multi /\ hw' = hw /\ conf' = conf /\ jobs' = jobs /\ setup' = setup
      /\ timer' = timer /\ reapply' = reapply /\ events' = events
  BY DEF TurnWrite, env
<1>6. \A f \in Families, v \in Wan :
        \/ route'[f][v] = route[f][v]
        \/ /\ v = w /\ f = 4 /\ 4 \in Holder.af /\ HasGateway(w) /\ ~run.read
           /\ route'[f][v] >= status[w].seq + 101
  BY <1>2, <1>3, <1>4
<1> QED BY <1>5, <1>6

\* refreshGlobalIntfRoutes() writes the metric it has computed.
LEMMA RefreshRoutes ==
  ASSUME Base, RefreshWrite
  PROVE  /\ Holder.op = "refresh" /\ Holder.arg \in Known /\ Holder.arg \in Wan
         /\ run.pc = "refresh" /\ run'.pc = "idle"
         /\ \A f \in Families, v \in Wan :
              route'[f][v] = IF v = Holder.arg /\ f = 4 /\ HasGateway(v)
                             THEN run.metric ELSE route[f][v]
         /\ multi' = multi /\ hw' = hw /\ jobs' = Tail(jobs)
<1>1. Holder.op = "refresh" /\ run.pc = "refresh" /\ run'.pc = "idle" /\ jobs # <<>>
      /\ multi' = multi /\ hw' = hw /\ jobs' = Tail(jobs)
  BY IdleRun DEF RefreshWrite, Holds, env
<1>2. Holder.arg \in Known /\ Holder.arg \in Wan /\ Holder.af = {4} /\ run.metric \in Nat
  <2>1. Holder.arg \in Known
    BY <1>1 DEF Base, Queue
  <2>2. run.metric \in Nat
    BY DEF Base, Types, IsRun
  <2> QED BY <1>1, <2>1, <2>2, OrderFacts, HolderFacts DEF Proper
<1>3. route' = IF HasGateway(Holder.arg) THEN With(Holder.arg, run.metric, Holder.af)
                                         ELSE route
  BY DEF RefreshWrite
<1>4. HasGateway(Holder.arg) => \A f \in Families, v \in Wan :
        route'[f][v] = IF f \in {4} /\ v = Holder.arg THEN run.metric ELSE route[f][v]
  BY <1>2, <1>3, RouteFacts DEF Base
<1> QED BY <1>1, <1>2, <1>3, <1>4

\* The multipath routes: taken by most steps, made by the end of a loop.
LEMMA MultiFacts ==
  ASSUME Base, Next
  PROVE  \A f \in Families :
           \/ multi'[f] \subseteq multi[f]
           \/ End /\ f \in Holder.af /\ run.hops # {} /\ multi'[f] = run.hops
<1> USE DEF env, leaves
<1>0. multi \in [Families -> SUBSET Wan]
  BY DEF Base, Types
<1>1. CASE Begin
  BY <1>0, <1>1 DEF Begin
<1>2. CASE Turn
  BY <1>2 DEF Turn
<1>3. CASE TurnRead
  BY <1>3 DEF TurnRead
<1>4. CASE TurnWrite
  BY <1>4 DEF TurnWrite
<1>5. CASE End
  BY <1>0, <1>5 DEF End
<1>6. CASE Aside
  BY <1>6, AsideFacts
<1>7. CASE Flush
  BY <1>7 DEF Flush
<1>8. CASE Between
  BY <1>0, <1>8 DEF Between, RefreshRead, RefreshWrite, ApplyStart, ApplyBuild, Flush6, Families
<1>9. CASE ApplyCommit
  BY <1>9 DEF ApplyCommit
<1>10. ASSUME NEW b \in BOOLEAN, Notified(b)
       PROVE  \A f \in Families : multi'[f] \subseteq multi[f]
  BY <1>10 DEF Notified
<1>11. ASSUME NEW w, NEW s, DeviceChange(w, s)
       PROVE  \A f \in Families : multi'[f] \subseteq multi[f]
  BY <1>0, <1>11 DEF DeviceChange
<1>12. ASSUME NEW w, NEW b, Check(w, b)
       PROVE  \A f \in Families : multi'[f] \subseteq multi[f]
  BY <1>12 DEF Check
<1> QED BY <1>1, <1>2, <1>3, <1>4, <1>5, <1>6, <1>7, <1>8, <1>9, <1>10, <1>11, <1>12
        DEF Next, System, Environment, Aside, Between

\* The loop keeps to one active WAN of those it has passed.
LEMMA LoopKeep ==
  ASSUME Base, LoopInv, [Next]_vars
  PROVE  LoopInv'
<1>0. Types
  BY DEF Base
<1>a. ASSUME Next, conf' = conf, ~End PROVE Failover' => \A f \in Families : multi'[f] = {}
  BY <1>a, MultiFacts DEF LoopInv, Failover
<1>1. CASE Begin
  <2>1. conf' = conf /\ ~End
    BY <1>1, BeginFacts DEF Begin, End, InLoop
  <2> QED BY <1>1, <1>a, <2>1, BeginFacts DEF LoopInv, Next, System
<1>2. CASE Turn
  <2>1. conf' = conf /\ ~End /\ Failover /\ Looping
    BY <1>2, TurnUse DEF Turn, End
  <2>2. run'.hops = run.hops /\ run'.pc = "loop" /\ Known' = Known
    BY <1>2, TurnUse
  <2>3. /\ run'.current # None => run'.current \in Active(status') \cap Past'
        /\ Active(status') \cap Past' \subseteq {run'.current}
    BY <1>2, TurnActive
  <2>4. run.hops = {}
    BY <2>1 DEF LoopInv
  <2>5. Failover' => \A f \in Families : multi'[f] = {}
    BY <1>2, <1>a, <2>1 DEF Next, System
  <2> QED BY <2>2, <2>3, <2>4, <2>5 DEF LoopInv
<1>3. CASE TurnRead
  <2>1. conf' = conf /\ ~Failover
    BY <1>3 DEF TurnRead
  <2>2. ~Failover'
    BY <2>1 DEF Failover
  <2> QED BY <1>3, <2>2, TurnReadLeaves DEF LoopInv
<1>4. CASE TurnWrite
  <2>1. conf' = conf /\ ~Failover
    BY <1>4 DEF TurnWrite
  <2>2. ~Failover'
    BY <2>1 DEF Failover
  <2>3. run'.hops \subseteq Known'
    BY <1>4, TurnWriteLeaves DEF LoopInv
  <2> QED BY <2>2, <2>3 DEF LoopInv
<1>5. CASE End
  <2>1. run'.pc = "idle" /\ conf' = conf /\ Looping
    BY <1>5, EndLeaves
  <2>2. Failover' => \A f \in Families : multi'[f] = {}
    <3>1. Failover' => Failover /\ run.hops = {}
      BY <2>1 DEF LoopInv, Failover
    <3>2. Failover' => \A f \in Families : multi'[f] \subseteq multi[f]
      BY <1>5, <3>1, MultiFacts DEF Next, System
    <3> QED BY <3>1, <3>2 DEF LoopInv
  <2> QED BY <2>1, <2>2 DEF LoopInv, Looping
<1>6. CASE Aside
  <2>1. status' = status /\ run' = run /\ conf' = conf /\ multi' = multi
    BY <1>6, AsideFacts
  <2> QED BY <2>1, FlagsStay DEF LoopInv, Looping, Failover
<1>7. CASE Flush
  <2>1. run'.pc = "idle" /\ multi' = [f \in Families |-> {}]
    BY <1>7 DEF Flush, Holds
  <2> QED BY <2>1 DEF LoopInv, Looping
<1>8. CASE Between \/ ApplyCommit
  <2>1. conf' = conf /\ run'.pc # "loop" /\ run.pc # "loop"
    BY <1>8, BetweenFacts, IdleRun DEF ApplyCommit, Idle, Holds
  <2>2. ~End
    BY <2>1 DEF End, InLoop
  <2>3. Failover' => \A f \in Families : multi'[f] = {}
    BY <1>8, <1>a, <2>1, <2>2 DEF Next, System, Between
  <2> QED BY <2>1, <2>3 DEF LoopInv, Looping
<1>9. ASSUME NEW b \in BOOLEAN, Notified(b) PROVE LoopInv'
  <2>1. status' = status /\ run' = run /\ conf' = conf /\ multi' = multi
    BY <1>9 DEF Notified
  <2> QED BY <2>1, FlagsStay DEF LoopInv, Looping, Failover
<1>10. ASSUME NEW w \in setup.wans, NEW s \in {"gone", "down", "up"}, DeviceChange(w, s)
       PROVE  LoopInv'
  <2>1. status' = status /\ run' = run /\ conf' = conf
        /\ (multi' = multi \/ multi' = [f \in Families |-> multi[f] \ {w}])
    BY <1>10 DEF DeviceChange
  <2>2. Failover' => \A f \in Families : multi'[f] = {}
    BY <2>1 DEF LoopInv, Failover
  <2> QED BY <2>1, <2>2, FlagsStay DEF LoopInv, Looping, Failover
<1>11. ASSUME NEW w \in setup.wans, NEW b \in BOOLEAN, Check(w, b) PROVE LoopInv'
  BY <1>11, CheckLeaves DEF LoopInv, Looping, Failover
<1>12. CASE UNCHANGED vars
  BY <1>12, FlagsStay DEF LoopInv, Looping, Failover, vars
<1> QED BY <1>1, <1>2, <1>3, <1>4, <1>5, <1>6, <1>7, <1>8, <1>9, <1>10, <1>11, <1>12
        DEF Next, System, Environment, Aside, Between

\* The kernel takes the routes of a device with the device, and no step gives
\* it one before it is back.
LEMMA DeviceKeep ==
  ASSUME Base, DeviceInv, [Next]_vars
  PROVE  DeviceInv'
<1> USE DEF env, leaves
<1>0. Types
  BY DEF Base
<1>a. ASSUME hw' = hw, setup' = setup,
             \A f \in Families, v \in Wan : hw[v] = "gone" => route'[f][v] \in {0, route[f][v]}
      PROVE  DeviceInv'
  BY <1>a DEF DeviceInv, Kinds
<1>1. CASE Begin \/ End \/ Flush \/ Flush6
  <2>1. hw' = hw /\ setup' = setup
    BY <1>1 DEF Begin, End, Flush, Flush6
  <2> QED BY <1>1, <1>a, <2>1, TakesFacts DEF Takes
<1>2. CASE Turn
  BY <1>2, <1>a, TurnRoutes DEF HasGateway
<1>3. CASE TurnRead \/ RefreshRead \/ ApplyStart \/ ApplyBuild \/ ApplyCommit
  BY <1>3, <1>a DEF TurnRead, RefreshRead, ApplyStart, ApplyBuild, ApplyCommit
<1>4. CASE TurnWrite
  BY <1>4, <1>a, TurnWriteRoutes DEF HasGateway
<1>5. CASE RefreshWrite
  <2>1. setup' = setup
    BY <1>5 DEF RefreshWrite
  <2> QED BY <1>5, <1>a, <2>1, RefreshRoutes DEF HasGateway
<1>6. CASE Aside
  BY <1>6, <1>a, AsideFacts
<1>7. ASSUME NEW b \in BOOLEAN, Notified(b) PROVE DeviceInv'
  BY <1>7, <1>a DEF Notified
<1>8. ASSUME NEW w \in setup.wans, NEW s \in {"gone", "down", "up"}, DeviceChange(w, s)
      PROVE  DeviceInv'
  <2>1. w \in Wan
    BY <1>0, SetupAssumption DEF Types
  <2>2. /\ hw' = [hw EXCEPT ![w] = s] /\ setup' = setup
        /\ {s, hw[w]} \in {{"up", "gone"}, {"up", "down"}}
        /\ (IF "gone" \in {s, hw[w]} THEN "hotplug" ELSE "carrier") \in Kinds
        /\ route' = IF s = "gone" THEN Without({w}, Families) ELSE route
    BY <1>8 DEF DeviceChange, Happens
  <2>3. \A v \in Wan : hw'[v] = IF v = w THEN s ELSE hw[v]
    BY <1>0, <2>1, <2>2 DEF Types
  <2>4. /\ s = "gone" => "hotplug" \in Kinds
        /\ s = "down" => "carrier" \in Kinds
    <3>1. s = "down" => {s, hw[w]} = {"up", "down"}
      BY <2>2
    <3> QED BY <2>2, <3>1
  <2>5. ASSUME NEW v \in Wan, NEW f \in Families, hw'[v] = "gone" PROVE route'[f][v] = 0
    <3>1. CASE s = "gone"
      <4>1. route'[f][v] = IF v = w THEN 0 ELSE route[f][v]
        BY <1>0, <2>2, <3>1, RouteFacts
      <4> QED BY <2>3, <2>5, <4>1 DEF DeviceInv
    <3>2. CASE s # "gone"
      BY <2>2, <2>3, <2>5, <3>2 DEF DeviceInv
    <3> QED BY <3>1, <3>2
  <2> QED BY <2>2, <2>3, <2>4, <2>5 DEF DeviceInv, Kinds
<1>9. ASSUME NEW w \in setup.wans, NEW b \in BOOLEAN, Check(w, b) PROVE DeviceInv'
  BY <1>9, <1>a, CheckLeaves
<1>10. CASE UNCHANGED vars
  BY <1>10, <1>a DEF vars
<1> QED BY <1>1, <1>2, <1>3, <1>4, <1>5, <1>6, <1>7, <1>8, <1>9, <1>10
        DEF Next, System, Environment, Aside

-----------------------------------------------------------------------------
(* Where the routes are                                                    *)

\* Only flush() is followed by another configuration.
LEMMA ConfStays ==
  ASSUME [Next]_vars
  PROVE  setup' = setup /\ (conf' = conf \/ Flush)
<1> USE DEF env, leaves, Happens
<1>1. CASE System
  BY <1>1 DEF System, Begin, Turn, TurnRead, TurnWrite, End, TimerFires, Flush, Apply,
              ApplyStart, ApplyBuild, ApplyCommit, RefreshRead, RefreshWrite, Flush6, Notified
<1>2. CASE Environment
  BY <1>2 DEF Environment, DeviceChange, Check, IpChange, Ip6Change, Reconfigure
<1>3. CASE UNCHANGED vars
  BY <1>3 DEF vars
<1> QED BY <1>1, <1>2, <1>3 DEF Next

\* Jobs leave the queue at its head and enter it at its end.
LEMMA JobsFrom ==
  ASSUME Base, [Next]_vars
  PROVE  \/ jobs' = jobs
         \/ jobs # <<>> /\ jobs' = Tail(jobs)
         \/ \E j \in Jobs :
              /\ j.op = "refresh" => SmoothNow
              /\ jobs' = Append(jobs, j) \/ (jobs # <<>> /\ jobs' = Append(Tail(jobs), j))
<1> USE DEF env, leaves
<1>0. Types
  BY DEF Base
<1>1. CASE Begin \/ Turn \/ TurnRead \/ TurnWrite \/ ApplyStart \/ ApplyBuild \/ ApplyCommit
  BY <1>1 DEF Begin, Turn, TurnRead, TurnWrite, ApplyStart, ApplyBuild, ApplyCommit
<1>2. CASE End \/ Flush \/ RefreshWrite
  BY <1>2 DEF End, InLoop, Flush, RefreshWrite, Holds
<1>3. CASE RefreshRead
  BY <1>3 DEF RefreshRead, Holds
<1>4. CASE Flush6
  BY <1>0, <1>4, JobFacts DEF Flush6, Holds
<1>5. CASE TimerFires \/ Apply \/ Ip6Change
  BY <1>0, <1>5, JobFacts DEF TimerFires, Apply, Ip6Change
<1>6. ASSUME NEW w \in setup.wans, IpChange(w)
      PROVE  \E j \in Jobs : (j.op = "refresh" => SmoothNow) /\ jobs' = Append(jobs, j)
  <2>1. w \in Wan
    BY <1>0, SetupAssumption DEF Types
  <2> QED BY <1>0, <1>6, <2>1, JobFacts DEF IpChange
<1>7. ASSUME NEW c \in setup.configs, Reconfigure(c)
      PROVE  \E j \in Jobs : j.op # "refresh" /\ jobs' = Append(jobs, j)
  BY <1>0, <1>7, JobFacts DEF Reconfigure
<1>8. ASSUME NEW b \in BOOLEAN, Notified(b) PROVE jobs' = jobs
  BY <1>8 DEF Notified
<1>9. ASSUME NEW w, NEW s, DeviceChange(w, s) PROVE jobs' = jobs
  BY <1>9 DEF DeviceChange
<1>10. ASSUME NEW w, NEW b, Check(w, b) PROVE jobs' = jobs
  BY <1>10 DEF Check
<1>11. CASE UNCHANGED vars
  BY <1>11 DEF vars
<1> QED BY <1>1, <1>2, <1>3, <1>4, <1>5, <1>6, <1>7, <1>8, <1>9, <1>10, <1>11
        DEF Next, System, Environment

\* A job that waits was there before, or is new.
LEMMA JobWasThere ==
  ASSUME Base, [Next]_vars, NEW i \in 1..Len(jobs')
  PROVE  \/ \E k \in 1..Len(jobs) : jobs'[i] = jobs[k]
         \/ jobs'[i].op = "refresh" => SmoothNow
<1>0. Types /\ Len(jobs) \in Nat
  BY QueueFacts DEF Base
<1>1. CASE jobs' = jobs
  BY <1>1
<1>2. CASE jobs # <<>> /\ jobs' = Tail(jobs)
  <2>1. i \in 1..Len(jobs) - 1 /\ Tail(jobs)[i] = jobs[i + 1] /\ i + 1 \in 1..Len(jobs)
    BY <1>0, <1>2, QueueFacts
  <2> QED BY <1>2, <2>1
<1>3. ASSUME NEW j \in Jobs, j.op = "refresh" => SmoothNow, jobs' = Append(jobs, j)
      PROVE  \/ \E k \in 1..Len(jobs) : jobs'[i] = jobs[k]
             \/ jobs'[i].op = "refresh" => SmoothNow
  <2>1. i \in 1..Len(jobs) + 1
    BY <1>0, <1>3, QueueFacts
  <2>2. CASE i \in 1..Len(jobs)
    BY <1>0, <1>3, <2>2, QueueFacts
  <2>3. CASE i = Len(jobs) + 1
    BY <1>0, <1>3, <2>3, QueueFacts
  <2> QED BY <1>0, <2>1, <2>2, <2>3
<1>4. ASSUME NEW j \in Jobs, j.op = "refresh" => SmoothNow,
             jobs # <<>>, jobs' = Append(Tail(jobs), j)
      PROVE  \/ \E k \in 1..Len(jobs) : jobs'[i] = jobs[k]
             \/ jobs'[i].op = "refresh" => SmoothNow
  <2> DEFINE t == Tail(jobs)
             n == Len(jobs) - 1
  <2>1. t \in Seq(Jobs) /\ Len(t) = n /\ n \in Nat
        /\ \A k \in 1..n : t[k] = jobs[k + 1] /\ k + 1 \in 1..Len(jobs)
    BY <1>0, <1>4, QueueFacts
  <2> HIDE DEF t, n
  <2>2. i \in 1..n + 1 /\ (i \in 1..n => jobs'[i] = t[i]) /\ (i = n + 1 => jobs'[i] = j)
    <3>1. jobs' = Append(t, j)
      BY <1>4 DEF t
    <3> QED BY <2>1, <3>1
  <2>3. CASE i \in 1..n
    BY <2>1, <2>2, <2>3
  <2>4. CASE i = n + 1
    BY <1>4, <2>2, <2>4
  <2> QED BY <2>1, <2>2, <2>3, <2>4
<1> QED BY <1>1, <1>2, <1>3, <1>4, JobsFrom

\* Smooth failover, and the configuration is applied again and not changed:
\* with another configuration a loop between flush() and apply() would put
\* back routes of the old one, and apply() does not take them again.
Steady == setup.smooth => setup.configs = {setup.start}

Via(f) == {w \in Wan : route[f][w] > 0}

SteadyInv ==
  Steady =>
    /\ \A i \in 1..Len(jobs) : jobs[i].op = "refresh" => Standby
    /\ run.pc # "begin" \/ setup.smooth =>
         \A f \in Families : Via(f) \cup multi[f] \subseteq Known
    /\ setup.smooth => Known = {} \/ Order = conf.order

\* Then smooth failover keeps to one configuration.
LEMMA ConfSame ==
  ASSUME Base, [Next]_vars, Steady, setup.smooth
  PROVE  conf' = conf
<1>1. CASE Flush
  <2>1. jobs # <<>> /\ Holder.op = "flush" /\ conf' = Holder.arg
    BY <1>1 DEF Flush, Holds
  <2>2. Holder.arg \in setup.configs /\ conf \in setup.configs
    BY <2>1, HolderFacts DEF Proper, Base, Types
  <2> QED BY <2>1, <2>2 DEF Steady
<1> QED BY <1>1, ConfStays

\* The routes before and after a step that only takes some.
LEMMA ViaTakes ==
  ASSUME Base, \A f \in Families, v \in Wan : route'[f][v] \in {0, route[f][v]}
  PROVE  \A f \in Families : Via(f)' \subseteq Via(f)
<1>1. route \in [Families -> [Wan -> Nat]]
  BY DEF Base, Types
<1> QED BY <1>1 DEF Via

\* A step writes routes of known WANs only, with metrics from their rank on.
LEMMA Written ==
  ASSUME Base, [Next]_vars
  PROVE  \A f \in Families, v \in Wan :
           \/ route'[f][v] \in {0, route[f][v]}
           \/ /\ v \in Known
              /\ \/ route'[f][v] >= status[v].seq + 1
                 \/ run.pc = "refresh" /\ v = Holder.arg /\ route'[f][v] = run.metric
<1> USE DEF env, leaves
<1>1. CASE Takes
  BY <1>1, TakesFacts
<1>2. CASE Turn
  <2> DEFINE w == Head(run.todo)
  <2>1. w \in Known /\ Metric(w, Linked(w)) >= status[w].seq + 1
    BY <1>2, TurnUse, TodoFacts DEF Metric, Record
  <2> QED BY <1>2, <2>1, TurnRoutes
<1>3. CASE TurnWrite
  <2> DEFINE w == Head(run.todo)
  <2>1. w \in Known /\ status[w].seq \in Nat
    BY <1>3, TurnWriteLeaves, OrderFacts DEF Record
  <2>2. ASSUME NEW f \in Families, NEW v \in Wan
        PROVE  route'[f][v] = route[f][v] \/ (v = w /\ route'[f][v] >= status[w].seq + 101)
    BY <1>3, TurnWriteRoutes
  <2>3. route' \in [Families -> [Wan -> Nat]]
    BY BaseKeep DEF Base, Types
  <2> HIDE DEF w
  <2>4. ASSUME NEW f \in Families, NEW v \in Wan, route'[f][v] # route[f][v]
        PROVE  v \in Known /\ route'[f][v] >= status[v].seq + 1
    <3>1. v = w /\ route'[f][v] >= status[w].seq + 101 /\ route'[f][v] \in Nat
      BY <2>2, <2>3, <2>4
    <3> QED BY <2>1, <3>1
  <2> QED BY <2>4
<1>4. CASE RefreshWrite
  BY <1>4, RefreshRoutes
<1>5. CASE TurnRead \/ RefreshRead \/ ApplyStart \/ ApplyBuild \/ ApplyCommit
  BY <1>5 DEF TurnRead, RefreshRead, ApplyStart, ApplyBuild, ApplyCommit
<1>6. CASE Aside
  BY <1>6, AsideFacts
<1>7. ASSUME NEW b \in BOOLEAN, Notified(b) PROVE route' = route
  BY <1>7 DEF Notified
<1>8. ASSUME NEW w, NEW b, Check(w, b) PROVE route' = route
  BY <1>8 DEF Check
<1>9. CASE UNCHANGED vars
  BY <1>9 DEF vars
<1> QED BY <1>1, <1>2, <1>3, <1>4, <1>5, <1>6, <1>7, <1>8, <1>9
        DEF Next, System, Environment, Aside, Takes

\* Only apply() changes which WANs are known, and their order.
LEMMA OrderSteps ==
  ASSUME Base, [Next]_vars
  PROVE  ApplyCommit \/ (Order' = Order /\ Known' = Known)
<1> USE DEF env, leaves
<1>1. CASE Turn
  BY <1>1, TurnUse
<1>2. CASE TurnWrite
  BY <1>2, TurnWriteLeaves
<1>3. CASE End
  BY <1>3, EndLeaves
<1>4. ASSUME NEW w, NEW b \in BOOLEAN, Check(w, b) PROVE Order' = Order /\ Known' = Known
  BY <1>4, CheckLeaves
<1>5. CASE status' = status
  BY <1>5, FlagsStay
<1>6. CASE Begin \/ TurnRead \/ Flush \/ Between \/ Aside
  <2>1. CASE Begin \/ TurnRead \/ Flush
    BY <1>5, <2>1 DEF Begin, TurnRead, Flush
  <2>2. CASE Between
    BY <2>2, BetweenFacts
  <2>3. CASE Aside
    BY <2>3, AsideFacts, FlagsStay
  <2> QED BY <1>6, <2>1, <2>2, <2>3
<1>7. ASSUME NEW b \in BOOLEAN, Notified(b) PROVE status' = status
  BY <1>7 DEF Notified
<1>8. ASSUME NEW w, NEW s, DeviceChange(w, s) PROVE status' = status
  BY <1>8 DEF DeviceChange
<1>9. CASE UNCHANGED vars
  BY <1>5, <1>9 DEF vars
<1> QED BY <1>1, <1>2, <1>3, <1>4, <1>5, <1>6, <1>7, <1>8, <1>9
        DEF Next, System, Environment, Aside, Between

\* What apply() has built takes effect, and the loop is to begin.
LEMMA CommitFacts ==
  ASSUME Base, ApplyCommit
  PROVE  /\ status' = run.new /\ Known' = DOMAIN run.new /\ Order' = conf.order
         /\ conf' = conf /\ route' = route /\ multi' = multi /\ hw' = hw /\ jobs' = jobs
         /\ timer' = timer /\ reapply' = reapply /\ run.pc = "build" /\ run'.pc = "begin"
         /\ Rank = Len(conf.order) /\ reapply = "applying" /\ Holder.op = "apply"
         /\ Known' = {conf.order[i] : i \in 1..Len(conf.order)}
<1>1. /\ status' = run.new /\ conf' = conf /\ route' = route /\ multi' = multi /\ hw' = hw
      /\ timer' = timer /\ reapply' = reapply /\ run.pc = "build" /\ run'.pc = "begin"
      /\ Holder.op = "apply" /\ jobs # <<>> /\ jobs' = jobs
  BY IdleRun DEF ApplyCommit, Holds, Idle, env
<1>2. Rank = Len(conf.order)
  <2>1. Len(run.todo) = 0
    BY DEF ApplyCommit
  <2>2. Len(conf.order) \in Nat
    BY ConfFacts DEF Base, Types
  <2> QED BY <2>1, <2>2 DEF Rank
<1>3. reapply = "applying"
  BY <1>1, HolderFacts DEF Proper
<1>4. Order' = conf.order
  <2>1. Ranked' /\ Fresh'
    BY <1>1, BaseKeep DEF Next, System, Base, Fresh
  <2> QED BY <1>1, <2>1 DEF Ranked
<1>5. Known' = DOMAIN run.new
  BY <1>1 DEF Known
<1>6. DOMAIN run.new = {conf.order[i] : i \in 1..Len(conf.order)}
  BY <1>1, <1>2 DEF Base, Ranked
<1> QED BY <1>1, <1>2, <1>3, <1>4, <1>5, <1>6

\* After it comes the loop.
LEMMA BeginsNext ==
  ASSUME Base, [Next]_vars, run.pc = "begin"
  PROVE  Begin \/ (run' = run /\ ~End /\ ~Flush)
<1> USE DEF env, leaves
<1>1. CASE Turn \/ TurnRead \/ TurnWrite \/ End \/ Flush \/ Between \/ ApplyCommit
  <2>1. run.pc # "begin"
    BY <1>1, BetweenFacts DEF Turn, TurnRead, TurnWrite, End, InLoop, Flush, ApplyCommit, Holds
  <2> QED BY <2>1
<1>2. ~End /\ ~Flush
  BY DEF End, InLoop, Flush, Holds
<1>3. CASE Aside
  BY <1>2, <1>3, AsideFacts
<1>4. ASSUME NEW b \in BOOLEAN, Notified(b) PROVE run' = run
  BY <1>4 DEF Notified
<1>5. ASSUME NEW w, NEW s, DeviceChange(w, s) PROVE run' = run
  BY <1>5 DEF DeviceChange
<1>6. ASSUME NEW w, NEW b, Check(w, b) PROVE run' = run
  BY <1>6 DEF Check
<1>7. CASE UNCHANGED vars
  BY <1>2, <1>7 DEF vars
<1> QED BY <1>1, <1>2, <1>3, <1>4, <1>5, <1>6, <1>7
        DEF Next, System, Environment, Aside, Between

\* A loop of smooth failover takes the routes of WANs that are not ready,
\* another one takes them all.
LEMMA BeginRoutes ==
  ASSUME Base, Begin
  PROVE  /\ \A f \in Families, v \in Wan :
              route'[f][v] = IF f \in Holder.af /\ (SmoothNow => v \in Known \ Ready(status))
                             THEN 0 ELSE route[f][v]
         /\ \A f \in Families : multi'[f] \subseteq multi[f]
         /\ ~SmoothNow => \A f \in Holder.af : multi'[f] = {}
         /\ hw' = hw /\ conf' = conf /\ jobs' = jobs /\ timer' = timer /\ reapply' = reapply
<1>0. Types
  BY DEF Base
<1>1. /\ route' = Without(Gone, Holder.af)
      /\ multi' = [f \in Families |-> IF f \in Holder.af THEN multi[f] \ Gone ELSE multi[f]]
      /\ hw' = hw /\ conf' = conf /\ jobs' = jobs /\ timer' = timer /\ reapply' = reapply
  BY DEF Begin, env
<1>2. \A v \in Wan : v \in Gone <=> (SmoothNow => v \in Known \ Ready(status))
  BY DEF Gone
<1>3. \A f \in Families, v \in Wan :
        route'[f][v] = IF f \in Holder.af /\ v \in Gone THEN 0 ELSE route[f][v]
  BY <1>0, <1>1, RouteFacts
<1>4. Holder.af \subseteq Families /\ \A f \in Families : multi[f] \subseteq Wan
  BY <1>0, BeginFacts DEF Types, Families
<1>5. ~SmoothNow => Gone = Wan
  BY DEF Gone
<1>6. ~SmoothNow => \A f \in Holder.af : multi'[f] = {}
  BY <1>1, <1>4, <1>5
<1> QED BY <1>1, <1>2, <1>3, <1>6

\* What the routes of a configuration that stays are for: the WANs that are
\* known, until apply() replaces the table for a box without smooth failover.
LEMMA SteadyKeep ==
  ASSUME Base, LoopInv, SteadyInv, [Next]_vars
  PROVE  SteadyInv'
<1>1. Base' /\ setup' = setup
  BY BaseKeep, ConfStays
<1> SUFFICES ASSUME Steady' PROVE
      /\ \A i \in 1..Len(jobs') : jobs'[i].op = "refresh" => Standby'
      /\ run'.pc # "begin" \/ setup.smooth =>
           \A f \in Families : Via(f)' \cup multi'[f] \subseteq Known'
      /\ setup.smooth => Known' = {} \/ Order' = conf'.order
  BY <1>1 DEF SteadyInv
<1>2. Steady
  BY <1>1 DEF Steady
<1>3. /\ \A i \in 1..Len(jobs) : jobs[i].op = "refresh" => Standby
      /\ run.pc # "begin" \/ setup.smooth =>
           \A f \in Families : Via(f) \cup multi[f] \subseteq Known
      /\ setup.smooth => Known = {} \/ Order = conf.order
  BY <1>2 DEF SteadyInv
<1>4. ASSUME NEW i \in 1..Len(jobs'), jobs'[i].op = "refresh" PROVE Standby'
  <2>1. SmoothNow \/ (setup.smooth /\ Standby)
    <3>1. CASE \E k \in 1..Len(jobs) : jobs'[i] = jobs[k]
      <4>1. PICK k \in 1..Len(jobs) : jobs'[i] = jobs[k]
        BY <3>1
      <4>2. Proper(jobs[k], reapply) /\ jobs[k].op = "refresh"
        BY <1>4, <4>1 DEF Base, Queue
      <4> QED BY <1>3, <4>2 DEF Proper
    <3> QED BY <1>4, <3>1, JobWasThere
  <2>2. setup.smooth /\ Standby
    BY <2>1 DEF SmoothNow
  <2> QED BY <1>2, <2>2, ConfSame DEF Standby
<1>5. setup.smooth => Known' = {} \/ Order' = conf'.order
  <2>1. setup.smooth => conf' = conf
    BY <1>2, ConfSame
  <2>2. CASE ApplyCommit
    BY <2>2, CommitFacts
  <2> QED BY <1>3, <2>1, <2>2, OrderSteps
<1>6. ASSUME run'.pc # "begin" \/ setup.smooth, NEW f \in Families
      PROVE  Via(f)' \cup multi'[f] \subseteq Known'
  <2>0. multi[f] \subseteq Wan /\ route \in [Families -> [Wan -> Nat]]
    BY DEF Base, Types
  <2>1. CASE ApplyCommit
    <3>1. setup.smooth /\ Via(f)' = Via(f) /\ multi' = multi /\ Order' = conf.order
      BY <1>6, <2>1, CommitFacts DEF Via
    <3>2. Via(f) \cup multi[f] \subseteq Known
      BY <1>3, <3>1
    <3>3. Known = {} \/ Known' = Known
      <4>1. CASE Order = conf.order
        <5>1. Known = {Order[i] : i \in 1..Len(Order)}
          BY OrderFacts
        <5> QED BY <2>1, <4>1, <5>1, CommitFacts
      <4> QED BY <1>3, <3>1, <4>1
    <3> QED BY <3>1, <3>2, <3>3
  <2>2. CASE Begin /\ ~(run.pc # "begin" \/ setup.smooth)
    <3>1. Holder.af = Families /\ ~SmoothNow
      BY <2>2, BeginFacts DEF SmoothNow
    <3>2. multi'[f] = {} /\ \A v \in Wan : route'[f][v] = 0
      BY <2>2, <3>1, BeginRoutes
    <3> QED BY <3>2 DEF Via
  <2>3. CASE ~ApplyCommit /\ (run.pc # "begin" \/ setup.smooth)
    <3>1. Via(f) \cup multi[f] \subseteq Known /\ Known' = Known
      BY <1>3, <2>3, OrderSteps
    <3>2. Via(f)' \subseteq Known
      <4>1. \A v \in Wan : route'[f][v] \in {0, route[f][v]} \/ v \in Known
        BY Written
      <4> QED BY <2>0, <3>1, <4>1 DEF Via
    <3>3. multi'[f] \subseteq Known
      <4>1. CASE UNCHANGED vars
        BY <3>1, <4>1 DEF vars
      <4>2. CASE Next
        <5>1. End => run.hops \subseteq Known
          BY EndLeaves DEF LoopInv
        <5> QED BY <3>1, <4>2, <5>1, MultiFacts
      <4> QED BY <4>1, <4>2
    <3> QED BY <3>1, <3>2, <3>3
  <2>4. ~(run.pc # "begin" \/ setup.smooth) => Begin
    BY <1>6, BeginsNext
  <2> QED BY <2>1, <2>2, <2>3, <2>4
<1> QED BY <1>4, <1>5, <1>6

\* What holds of every box: the loop, the devices and where the routes are.
Placed == LoopInv /\ DeviceInv /\ SteadyInv

\* At first there are no routes.
LEMMA PlacedInit ==
  ASSUME Init
  PROVE  Placed
<1>1. /\ jobs = <<>> /\ run.pc = "idle" /\ Known = {} /\ multi = [f \in Families |-> {}]
      /\ route = [f \in Families |-> [w \in Wan |-> 0]]
  BY IdleRun DEF Init, Known
<1>2. "hotplug" \notin Kinds => \A w \in Wan : hw[w] = "up"
  BY DEF Init
<1>3. \A w \in Wan : hw[w] # "down"
  BY DEF Init
<1>4. LoopInv
  BY <1>1 DEF LoopInv, Looping
<1>5. DeviceInv
  BY <1>1, <1>2, <1>3 DEF DeviceInv
<1>6. SteadyInv
  BY <1>1 DEF SteadyInv, Via
<1> QED BY <1>4, <1>5, <1>6 DEF Placed

\* So it stays for every box.
LEMMA PlacedAlways == Spec => []Placed
<1>1. Init => Placed
  BY PlacedInit
<1>2. Base /\ Placed /\ [Next]_vars => Placed'
  BY LoopKeep, DeviceKeep, SteadyKeep DEF Placed
<1> QED BY <1>1, <1>2, Invariant, PTL DEF Spec

\* At rest there are no default routes through interfaces that are not WANs
\* of the configuration, for every box that does not change its configuration
\* under smooth failover.
THEOREM NoForeignRouteAlways == Spec => [](Steady => NoForeignRoute)
<1>1. Base /\ Placed => (Steady => NoForeignRoute)
  BY DEF Base, Queue, Placed, SteadyInv, NoForeignRoute, Settled, Via
<1> QED BY <1>1, Invariant, PlacedAlways, PTL

-----------------------------------------------------------------------------
(* IPv6 is for the active WAN                                              *)

\* The WANs whose IPv6 route a loop of smooth failover may still find.
Retiring == ({run.last} \ {None}) \cup (Active(status) \ Past)

\* Outside of a loop the active WAN alone may have an IPv6 route,
RestV6 ==
  /\ Via(6) \subseteq Active(status)
  /\ setup.smooth => \A v, w \in Active(status) : v = w

\* it stays active in what apply() builds,
BuildV6 ==
  \A w \in DOMAIN run.new : /\ w \in Via(6) => run.new[w].active
                            /\ run.new[w].active => w \in Active(status)

\* and a loop leaves it to the WAN it has found and the one to retire.
LoopV6 ==
  /\ Via(6) \subseteq {run.current} \cup (IF setup.smooth THEN Retiring ELSE {})
  /\ setup.smooth => \A v, w \in Retiring : v = w

V6Inv ==
  Steady /\ Standby =>
    /\ ~Looping /\ (run.pc # "begin" \/ setup.smooth) => RestV6
    /\ run.pc = "build" /\ setup.smooth => BuildV6
    /\ Looping => LoopV6

\* A loop begins: no IPv6 routes, or with smooth failover those of active WANs.
LEMMA V6Begin ==
  ASSUME Base, V6Inv, Steady, Standby, Begin
  PROVE  LoopV6'
<1>1. /\ run'.current = None /\ run'.last = None /\ Past' = {} /\ status' = status
      /\ 6 \in Holder.af /\ ~Looping
  BY BeginFacts DEF Looping, Families
<1>2. Active(status') = Active(status) /\ None \notin Active(status)
  BY <1>1, FlagsStay, OrderFacts, SetupAssumption DEF Active, Known
<1>3. Retiring' = Active(status)
  BY <1>1, <1>2 DEF Retiring
<1>4. setup' = setup
  BY ConfStays DEF Next, System
<1>5. CASE setup.smooth
  <2>1. RestV6
    BY <1>1, <1>5 DEF V6Inv
  <2>2. Via(6)' \subseteq Via(6)
    BY TakesFacts, ViaTakes DEF Takes, Families
  <2> QED BY <1>3, <1>4, <1>5, <2>1, <2>2 DEF RestV6, LoopV6
<1>6. CASE ~setup.smooth
  <2>1. \A v \in Wan : route'[6][v] = 0
    BY <1>1, <1>6, BeginRoutes DEF SmoothNow, Families
  <2>2. Via(6)' = {}
    BY <2>1 DEF Via
  <2> QED BY <1>4, <1>6, <2>2 DEF LoopV6
<1> QED BY <1>5, <1>6

\* A turn gives an IPv6 route to the WAN that becomes active, if any.
LEMMA V6Turn ==
  ASSUME Base, LoopInv, LoopV6, Steady, Standby, Turn
  PROVE  LoopV6'
<1> DEFINE w == Head(run.todo)
           act == status[w].ready /\ run.current = None
<1>1. /\ w \in Known /\ w \in Wan /\ w # None /\ w \notin Past /\ Past' = Past \cup {w}
      /\ run'.current = (IF act THEN w ELSE run.current)
      /\ run'.last = (IF status[w].active THEN w ELSE run.last)
  BY TurnUse, TodoFacts, SetupAssumption
<1>2. Active(status') = IF act THEN Active(status) \cup {w} ELSE Active(status) \ {w}
  BY TurnActive
<1>3. setup' = setup
  BY TurnRoutes
<1>4. Via(6)' \subseteq Via(6) \cup (IF act THEN {w} ELSE {})
  <2>1. \A v \in Wan : route'[6][v] = route[6][v] \/ (v = w /\ V6Allowed(w, act))
    BY TurnRoutes DEF Families
  <2>2. V6Allowed(w, act) => act
    BY DEF V6Allowed
  <2> QED BY <2>1, <2>2 DEF Via
<1>5. w \in Active(status) <=> status[w].active
  BY <1>1 DEF Active, Known
<1>6. act => run.current = None
  OBVIOUS
<1>7. None \notin Via(6)
  BY SetupAssumption DEF Via
<1> HIDE DEF w, act
<1>8. setup.smooth => Retiring' = Retiring
  <2>1. Active(status') \ Past' = (Active(status) \ Past) \ {w}
    BY <1>1, <1>2
  <2>2. CASE status[w].active
    <3>1. w \in Retiring /\ Retiring' = {w} \cup ((Active(status) \ Past) \ {w})
      BY <1>1, <1>5, <2>1, <2>2 DEF Retiring
    <3>2. setup.smooth => Retiring = {w}
      BY <3>1 DEF LoopV6
    <3> QED BY <3>1, <3>2 DEF Retiring
  <2>3. CASE ~status[w].active
    BY <1>1, <1>5, <2>1, <2>3 DEF Retiring
  <2> QED BY <2>2, <2>3
<1> QED BY <1>1, <1>3, <1>4, <1>6, <1>7, <1>8 DEF LoopV6

\* At its end the active WAN keeps its IPv6 route alone.
LEMMA V6End ==
  ASSUME Base, LoopInv, LoopV6, Steady, Standby, End
  PROVE  RestV6'
<1>1. /\ Looping /\ Past = Known /\ Active(status') = Active(status) /\ setup' = setup
  BY EndLeaves
<1>2. Active(status) \subseteq {run.current} /\ Active(status) \subseteq Known
      /\ (run.current # None => run.current \in Active(status))
  BY <1>1 DEF LoopInv, Failover, Standby, Active, Known
<1>3. Via(6)' \subseteq Via(6) /\ None \notin Via(6)
  BY TakesFacts, ViaTakes, SetupAssumption DEF Takes, Families, Via
<1>4. setup.smooth => Via(6)' \cap ({run.last} \ {None, run.current}) = {}
  <2>1. route' = Without(Retired, {6})
    BY DEF End
  <2>2. \A v \in Wan : v \in Retired => route'[6][v] = 0
    BY <2>1, RouteFacts DEF Base, Families
  <2>3. setup.smooth => Retired = {run.last} \ {None, run.current}
    BY DEF Retired, SmoothNow
  <2>4. \A v \in Via(6)' : v \in Wan /\ route'[6][v] > 0
    BY DEF Via
  <2> QED BY <2>2, <2>3, <2>4
<1>5. Retiring = {run.last} \ {None}
  BY <1>1, <1>2 DEF Retiring
<1>6. Via(6)' \subseteq {run.current}
  BY <1>3, <1>4, <1>5 DEF LoopV6
<1> QED BY <1>1, <1>2, <1>3, <1>6 DEF RestV6

\* What apply() builds for the WAN of a rank is what this WAN was.
LEMMA V6Build ==
  ASSUME Base, DeviceInv, SteadyInv, Steady, setup.smooth, RestV6, BuildV6, ApplyBuild
  PROVE  BuildV6'
<1> DEFINE w == Head(run.todo)
<1>1. /\ DOMAIN run'.new = DOMAIN run.new \cup {w} /\ w \in Wan
      /\ \A v \in DOMAIN run.new : v # w => run'.new[v] = run.new[v]
      /\ run'.new[w].active = (hw[w] # "gone" /\
           \E v \in Known : status[v].seq = Rank /\ status[v].active)
  BY BuildFacts
<1>2. status' = status /\ route' = route /\ run.pc = "build" /\ run.todo # <<>>
  BY DEF ApplyBuild, Holds, env, leaves
<1>3. Active(status') = Active(status) /\ Via(6)' = Via(6)
  BY <1>2, FlagsStay DEF Via
<1>4. hw[w] = "gone" => w \notin Via(6)
  BY <1>1 DEF DeviceInv, Via, Families
<1>5. \A v \in Known : status[v].seq = Rank => v = w
  <2>1. Known = {} \/ Order = conf.order
    BY DEF SteadyInv
  <2>2. ASSUME NEW v \in Known, status[v].seq = Rank PROVE v = w
    <3>1. Order = conf.order /\ v = Order[Rank + 1]
      BY <2>1, <2>2, OrderFacts
    <3>2. Suffix(run.todo, conf.order) /\ Len(run.todo) \in Nat \ {0} /\ w = run.todo[1]
      <4>1. run.todo \in Seq(Wan)
        BY DEF Base, Types, IsRun
      <4> QED BY <1>2, <4>1 DEF Base, Ranked
    <3>3. 1 \in 1..Len(run.todo) /\ Len(conf.order) \in Nat
      BY <3>2, ConfFacts DEF Base, Types
    <3>4. w = conf.order[Len(conf.order) - Len(run.todo) + 1]
      BY <3>2, <3>3 DEF Suffix
    <3> QED BY <3>1, <3>4 DEF Rank
  <2> QED BY <2>2
<1>6. \A v \in Known : status[v].seq = Rank /\ status[v].active => w \in Active(status)
  BY <1>5 DEF Active, Known
<1>7. w \in Via(6) => run'.new[w].active
  <2>1. ASSUME w \in Via(6) PROVE run'.new[w].active
    <3>1. w \in Active(status) /\ hw[w] # "gone"
      BY <1>4, <2>1 DEF RestV6
    <3>2. w \in Known /\ status[w].active
      BY <3>1 DEF Active, Known
    <3>3. \E v \in Known : status[v].seq = Rank
      <4>1. Order = conf.order
        BY <3>2 DEF SteadyInv
      <4>2. Suffix(run.todo, conf.order) /\ Len(run.todo) \in Nat \ {0} /\ w = run.todo[1]
        <5>1. run.todo \in Seq(Wan)
          BY DEF Base, Types, IsRun
        <5> QED BY <1>2, <5>1 DEF Base, Ranked
      <4>3. Rank + 1 \in 1..Len(Order) /\ Rank \in Nat
        <5> DEFINE n == Len(run.todo)
                   o == Len(Order)
        <5>1. n \in Nat \ {0} /\ o \in Nat /\ n =< o /\ Rank = o - n
          BY <4>1, <4>2, OrderFacts DEF Suffix, Rank
        <5> HIDE DEF n
        <5> QED BY <5>1
      <4>4. Order[Rank + 1] \in Known /\ status[Order[Rank + 1]].seq = Rank
        BY <4>3, OrderFacts
      <4> QED BY <4>4
    <3>4. status[w].seq = Rank
      BY <1>5, <3>3
    <3> QED BY <1>1, <3>1, <3>2, <3>4
  <2> QED BY <2>1
<1>8. run'.new[w].active => w \in Active(status)
  BY <1>1, <1>6
<1> HIDE DEF w
<1> QED BY <1>1, <1>3, <1>7, <1>8 DEF BuildV6

\* When it takes effect the active WANs are among those before.
LEMMA V6Commit ==
  ASSUME Base, SteadyInv, Steady, setup.smooth, RestV6, BuildV6, ApplyCommit
  PROVE  RestV6'
<1>1. /\ status' = run.new /\ Known' = DOMAIN run.new /\ Order' = conf.order
      /\ route' = route /\ setup' = setup
  BY CommitFacts, ConfStays DEF Next, System
<1>2. Active(status') = {v \in DOMAIN run.new : run.new[v].active}
  BY <1>1 DEF Active
<1>3. Active(status') \subseteq Active(status)
  BY <1>2 DEF BuildV6
<1>4. Via(6)' = Via(6) /\ Via(6) \subseteq Known
  BY <1>1 DEF SteadyInv, Via, Families
<1>5. Known \subseteq Known'
  <2>1. Known = {Order[i] : i \in 1..Len(Order)}
    BY OrderFacts
  <2>2. Order = conf.order => Known = Known'
    BY <2>1, CommitFacts
  <2> QED BY <2>2 DEF SteadyInv
<1>6. Via(6)' \subseteq Active(status')
  BY <1>1, <1>2, <1>4, <1>5 DEF BuildV6
<1> QED BY <1>1, <1>3, <1>6 DEF RestV6

\* The IPv6 routes follow the active WAN.
LEMMA V6Keep ==
  ASSUME Base, LoopInv, DeviceInv, SteadyInv, V6Inv, [Next]_vars
  PROVE  V6Inv'
<1> USE DEF env, leaves
<1>0. setup' = setup
  BY ConfStays
<1> SUFFICES ASSUME Steady', Standby' PROVE
      /\ ~Looping' /\ (run'.pc # "begin" \/ setup.smooth) => RestV6'
      /\ run'.pc = "build" /\ setup.smooth => BuildV6'
      /\ Looping' => LoopV6'
  BY <1>0 DEF V6Inv
<1>s. Steady
  BY <1>0 DEF Steady
<1>b. conf' = conf => Standby
  BY DEF Standby
<1>i. conf' = conf => /\ ~Looping /\ (run.pc # "begin" \/ setup.smooth) => RestV6
                      /\ run.pc = "build" /\ setup.smooth => BuildV6
                      /\ Looping => LoopV6
  BY <1>s, <1>b DEF V6Inv
<1>a. ASSUME conf' = conf, run' = run, Active(status') = Active(status), Past' = Past,
             \A f \in Families, v \in Wan : route'[f][v] \in {0, route[f][v]}
      PROVE  /\ ~Looping' /\ (run'.pc # "begin" \/ setup.smooth) => RestV6'
             /\ run'.pc = "build" /\ setup.smooth => BuildV6'
             /\ Looping' => LoopV6'
  <2>1. Via(6)' \subseteq Via(6)
    BY <1>a, ViaTakes DEF Families
  <2>2. Retiring' = Retiring
    BY <1>a DEF Retiring
  <2>3. RestV6 => RestV6'
    BY <1>0, <1>a, <2>1 DEF RestV6
  <2>4. BuildV6 => BuildV6'
    BY <1>a, <2>1 DEF BuildV6
  <2>5. LoopV6 => LoopV6'
    BY <1>0, <1>a, <2>1, <2>2 DEF LoopV6
  <2>6. Looping' = Looping
    BY <1>a DEF Looping
  <2> QED BY <1>a, <1>i, <2>3, <2>4, <2>5, <2>6
<1>1. CASE Begin
  <2>1. run'.pc = "loop" /\ conf' = conf
    BY <1>1, BeginFacts DEF Begin
  <2> QED BY <1>1, <1>s, <1>b, <2>1, V6Begin DEF Looping, V6Inv
<1>2. CASE Turn
  <2>1. run'.pc = "loop" /\ conf' = conf /\ Looping
    BY <1>2, TurnUse DEF Turn
  <2> QED BY <1>2, <1>s, <1>b, <1>i, <2>1, V6Turn DEF Looping
<1>3. CASE TurnRead \/ TurnWrite
  <2>1. ~Failover /\ conf' = conf
    BY <1>3 DEF TurnRead, TurnWrite
  <2> QED BY <1>b, <2>1 DEF Failover, Standby
<1>4. CASE End
  <2>1. run'.pc = "idle" /\ conf' = conf /\ Looping
    BY <1>4, EndLeaves
  <2> QED BY <1>4, <1>s, <1>b, <1>i, <2>1, V6End DEF Looping
<1>5. CASE Aside
  <2>1. conf' = conf /\ status' = status /\ run' = run /\ route' = route
    BY <1>5, AsideFacts
  <2> QED BY <1>a, <2>1, FlagsStay
<1>6. CASE Flush
  <2>1. run' = run /\ run.pc = "idle" /\ status' = status
    BY <1>6 DEF Flush, Holds
  <2>2. CASE setup.smooth
    <3>1. conf' = conf
      BY <1>s, <2>2, ConfSame
    <3>2. RestV6
      BY <1>s, <2>1, <3>1 DEF V6Inv, Standby, Looping
    <3>3. Via(6)' \subseteq Via(6)
      BY <1>6, TakesFacts, ViaTakes DEF Takes, Families
    <3>4. RestV6'
      BY <1>0, <2>1, <3>2, <3>3, FlagsStay DEF RestV6
    <3> QED BY <2>1, <3>4 DEF Looping
  <2>3. CASE ~setup.smooth
    <3>1. Holder.af = Families /\ route' = Without(Wan, Holder.af)
      <4>1. jobs # <<>> /\ Holder.op = "flush"
        BY <1>6 DEF Flush, Holds
      <4> QED BY <1>6, <4>1, HolderFacts DEF Flush, Proper
    <3>2. \A v \in Wan : route'[6][v] = 0
      BY <3>1, RouteFacts DEF Base, Families
    <3>3. Via(6)' = {}
      BY <3>2 DEF Via
    <3>4. RestV6'
      BY <1>0, <2>3, <3>3 DEF RestV6
    <3> QED BY <2>1, <3>4 DEF Looping
  <2> QED BY <2>2, <2>3
<1>7. CASE Between
  <2>1. /\ status' = status /\ run.pc \in {"idle", "refresh", "build"}
        /\ run'.pc \in {"idle", "refresh", "build"} /\ conf' = conf
    BY <1>7, BetweenFacts
  <2>2. RestV6
    BY <1>i, <2>1 DEF Looping
  <2>3. Via(6)' \subseteq Via(6)
    <3>1. CASE RefreshWrite
      BY <3>1, RefreshRoutes DEF Via, Families
    <3>2. CASE Flush6
      BY <3>2, TakesFacts, ViaTakes DEF Takes, Families
    <3>3. CASE RefreshRead \/ ApplyStart \/ ApplyBuild
      BY <3>3 DEF RefreshRead, ApplyStart, ApplyBuild, Via
    <3> QED BY <1>7, <3>1, <3>2, <3>3 DEF Between
  <2>4. RestV6'
    BY <1>0, <2>1, <2>2, <2>3, FlagsStay DEF RestV6
  <2>5. run'.pc = "build" /\ setup.smooth => BuildV6'
    <3>1. CASE ApplyBuild
      <4>1. run.pc = "build"
        BY <3>1 DEF ApplyBuild, Holds
      <4> QED BY <1>i, <1>s, <2>1, <2>2, <3>1, <4>1, V6Build
    <3>2. CASE ApplyStart
      <4>1. run'.new = <<>>
        BY <3>2, IdleRun DEF ApplyStart, Idle
      <4> QED BY <4>1 DEF BuildV6
    <3>3. CASE RefreshRead \/ RefreshWrite \/ Flush6
      <4>1. run.pc \in {"idle", "refresh"}
        BY <3>3 DEF RefreshRead, RefreshWrite, Flush6, Holds
      <4>2. run' = run \/ (\E n : run' = [run EXCEPT !.pc = "refresh", !.metric = n])
            \/ run'.pc = "idle"
        BY <3>3, IdleRun DEF RefreshRead, RefreshWrite, Flush6
      <4>3. run'.pc # "build"
        BY <4>1, <4>2 DEF Base, Types, IsRun
      <4> QED BY <4>3
    <3> QED BY <1>7, <3>1, <3>2, <3>3 DEF Between
  <2> QED BY <2>1, <2>4, <2>5 DEF Looping
<1>8. CASE ApplyCommit
  <2>1. run.pc = "build" /\ run'.pc = "begin" /\ conf' = conf
    BY <1>8, CommitFacts
  <2>2. setup.smooth => RestV6 /\ BuildV6
    BY <1>i, <2>1 DEF Looping
  <2> QED BY <1>8, <1>s, <2>1, <2>2, V6Commit DEF Looping
<1>9. ASSUME NEW b \in BOOLEAN, Notified(b)
      PROVE  /\ ~Looping' /\ (run'.pc # "begin" \/ setup.smooth) => RestV6'
             /\ run'.pc = "build" /\ setup.smooth => BuildV6'
             /\ Looping' => LoopV6'
  <2>1. conf' = conf /\ run' = run /\ status' = status /\ route' = route
    BY <1>9 DEF Notified
  <2> QED BY <1>a, <2>1, FlagsStay
<1>10. ASSUME NEW w \in setup.wans, NEW s \in {"gone", "down", "up"}, DeviceChange(w, s)
       PROVE  /\ ~Looping' /\ (run'.pc # "begin" \/ setup.smooth) => RestV6'
              /\ run'.pc = "build" /\ setup.smooth => BuildV6'
              /\ Looping' => LoopV6'
  <2>1. conf' = conf /\ run' = run /\ status' = status
    BY <1>10 DEF DeviceChange
  <2> QED BY <1>10, <1>a, <2>1, FlagsStay, TakesFacts DEF Takes
<1>11. ASSUME NEW w \in setup.wans, NEW b \in BOOLEAN, Check(w, b)
       PROVE  /\ ~Looping' /\ (run'.pc # "begin" \/ setup.smooth) => RestV6'
              /\ run'.pc = "build" /\ setup.smooth => BuildV6'
              /\ Looping' => LoopV6'
  BY <1>11, <1>a, CheckLeaves
<1>12. CASE UNCHANGED vars
  <2>1. conf' = conf /\ run' = run /\ status' = status /\ route' = route
    BY <1>12 DEF vars
  <2> QED BY <1>a, <2>1, FlagsStay
<1> QED BY <1>1, <1>2, <1>3, <1>4, <1>5, <1>6, <1>7, <1>8, <1>9, <1>10, <1>11, <1>12
        DEF Next, System, Environment, Aside, Between

\* For every box: IPv6 stays with the active WAN.
LEMMA V6Always == Spec => []V6Inv
<1>1. Init => V6Inv
  <2> SUFFICES ASSUME Init PROVE V6Inv
    OBVIOUS
  <2>1. run.pc = "idle" /\ Active(status) = {} /\ route = [f \in Families |-> [w \in Wan |-> 0]]
    BY IdleRun DEF Init, Active
  <2> QED BY <2>1 DEF V6Inv, RestV6, Looping, Via, Families
<1>2. Base /\ Placed /\ V6Inv /\ [Next]_vars => V6Inv'
  BY V6Keep DEF Placed
<1> QED BY <1>1, <1>2, Invariant, PlacedAlways, PTL DEF Spec

\* At rest a WAN that is not active has no IPv6 default route, for every box
\* that does not change its configuration under smooth failover.
THEOREM V6OnlyActiveAlways == Spec => [](Steady => V6OnlyActive)
<1>1. Base /\ V6Inv => (Steady => V6OnlyActive)
  BY DEF Base, Queue, V6Inv, RestV6, V6OnlyActive, Settled, Via, Looping
<1> QED BY <1>1, Invariant, V6Always, PTL

-----------------------------------------------------------------------------
(* The choice of the active WANs                                           *)

\* The boxes whose WANs take their place again when they return.  Without
\* failback a WAN that becomes ready behind the loop, while the one that is
\* still active fails in front of it, schedules nothing and is not chosen;
\* "single" never follows the tests.
Returning ==
  \A c \in setup.configs : /\ c.type # "single"
                           /\ c.type = "primary_standby" => c.failback

\* the loop that also makes the IPv4 routes
Full == Looping /\ 4 \in Holder.af

\* another such loop is to come
Coming(i) == jobs[i].op = "switch" /\ 4 \in jobs[i].af /\ ~(i = 1 /\ Looping)
Due ==
  \/ timer
  \/ reapply \in {"flushing", "flushed"}
  \/ reapply = "applying" /\ ~(Looping /\ Holder.op = "apply")
  \/ \E i \in 1..Len(jobs) : Coming(i)

\* Steps that leave jobs and pc alone leave it due.
LEMMA DueSame ==
  ASSUME jobs' = jobs, Looping' = Looping, timer' = timer, reapply' = reapply
  PROVE  Due' = Due /\ Full' = Full
<1>1. Holder' = Holder /\ \A i : Coming(i)' = Coming(i)
  BY DEF Holder, Coming
<1> QED BY <1>1 DEF Due, Full

\* Jobs that are put behind the others leave it due.
LEMMA DueAppend ==
  ASSUME Base, NEW j \in Jobs, jobs' = Append(jobs, j), run' = run
  PROVE  /\ timer' = timer /\ reapply' = reapply => (Due => Due')
         /\ j.op = "switch" /\ 4 \in j.af => Due'
         /\ Full' = Full
<1>1. /\ Len(jobs') = Len(jobs) + 1 /\ Len(jobs) \in Nat
      /\ \A i \in 1..Len(jobs) : jobs'[i] = jobs[i]
      /\ jobs'[Len(jobs) + 1] = j
  BY QueueFacts DEF Base
<1>2. Looping => jobs # <<>> /\ Holder' = Holder
  BY HolderStays
<1>3. Looping' = Looping
  BY DEF Looping
<1>4. \A i \in 1..Len(jobs) : Coming(i) => Coming(i)'
  BY <1>1, <1>3 DEF Coming
<1>5. 1..Len(jobs) \subseteq 1..Len(jobs')
  BY <1>1
<1>6. timer' = timer /\ reapply' = reapply => (Due => Due')
  BY <1>2, <1>3, <1>4, <1>5 DEF Due
<1>7. j.op = "switch" /\ 4 \in j.af => Due'
  <2> HAVE j.op = "switch" /\ 4 \in j.af
  <2>0. PICK i \in Nat : i = Len(jobs) + 1
    BY <1>1
  <2>1. i \in 1..Len(jobs') /\ jobs'[i] = j
    BY <1>1, <2>0
  <2>2. ~(i = 1 /\ Looping)
    <3>1. ASSUME i = 1, Looping PROVE FALSE
      <4>1. Len(jobs) = 0 /\ jobs # <<>>
        BY <1>1, <1>2, <2>0, <3>1
      <4> QED BY <4>1 DEF Base, Types
    <3> QED BY <3>1
  <2>3. Coming(i)'
    BY <1>3, <2>1, <2>2 DEF Coming
  <2> QED BY <2>1, <2>3 DEF Due
<1>8. Full' = Full
  BY <1>2, <1>3 DEF Full
<1> QED BY <1>6, <1>7, <1>8

\* A job that is done leaves the others due.
LEMMA DueTail ==
  ASSUME Base, jobs # <<>>, Looping \/ ~(Holder.op = "switch" /\ 4 \in Holder.af),
         run'.pc # "loop", timer' = timer,
         \/ jobs' = Tail(jobs)
         \/ \E j \in Jobs : jobs' = Append(Tail(jobs), j)
         \/ jobs' = jobs /\ ~Looping,
         \/ reapply' = reapply
         \/ Looping /\ Holder.op = "apply"
         \/ reapply' = "flushed"
  PROVE  Due => Due'
<1>0. Types
  BY DEF Base
<1>1. ASSUME NEW i \in 1..Len(jobs), Coming(i) PROVE Due'
  <2> DEFINE n == Len(jobs)
             t == Tail(jobs)
  <2>1. n \in Nat /\ Len(t) = n - 1 /\ t \in Seq(Jobs)
        /\ (\A k \in 1..n - 1 : t[k] = jobs[k + 1]) /\ Holder = jobs[1]
    BY <1>0, QueueFacts
  <2>2. CASE jobs' = jobs /\ ~Looping
    BY <1>1, <2>2 DEF Due, Coming, Looping
  <2>3. CASE jobs' = t \/ \E j \in Jobs : jobs' = Append(t, j)
    <3>1. i # 1
      BY <1>1, <2>1 DEF Coming
    <3>2. i - 1 \in 1..n - 1 /\ t[i - 1] = jobs[i]
      BY <2>1, <3>1
    <3> HIDE DEF t, n
    <3>3. i - 1 \in 1..Len(jobs') /\ jobs'[i - 1] = t[i - 1]
      <4>1. CASE jobs' = t
        BY <2>1, <3>2, <4>1
      <4>2. ASSUME NEW j \in Jobs, jobs' = Append(t, j)
            PROVE  i - 1 \in 1..Len(jobs') /\ jobs'[i - 1] = t[i - 1]
        <5>1. Len(jobs') = n /\ \A k \in 1..n - 1 : jobs'[k] = t[k]
          BY <2>1, <4>2
        <5> QED BY <2>1, <3>2, <5>1
      <4> QED BY <2>3, <4>1, <4>2
    <3>4. Coming(i - 1)'
      BY <1>1, <3>2, <3>3 DEF Coming, Looping
    <3> QED BY <3>3, <3>4 DEF Due
  <2> QED BY <2>2, <2>3
<1>2. Looping /\ Holder.op = "apply" => reapply = "applying"
  BY HolderFacts DEF Proper
<1> QED BY <1>1, <1>2 DEF Due, Looping

\* the first ready WAN in the order of the configuration
FirstReady == {w \in Ready(status) : \A v \in Ready(status) : status[w].seq =< status[v].seq}

\* The active WANs are the right ones,
Chosen == IF Standby THEN Active(status) = FirstReady ELSE Ready(status) \subseteq Active(status)

\* or will be when the loop has ended.
ChosenPast ==
  IF Standby
  THEN /\ run.current # None => run.current \in Ready(status)
       /\ \A v \in Past \cap Ready(status) :
            run.current # None /\ status[run.current].seq =< status[v].seq
  ELSE /\ Past \cap Ready(status) \subseteq Active(status)
       /\ run.read # None /\ run.read = FALSE => Head(run.todo) \notin Ready(status)

ChoiceInv ==
  Returning /\ ~Due => /\ ~Full => Chosen
                       /\ Looping => ChosenPast

\* The ready WANs, those that are first and their ranks.
LEMMA FirstFacts ==
  ASSUME Base
  PROVE  /\ Ready(status) \subseteq Known /\ Active(status) \subseteq Known
         /\ \A w \in Known : /\ w \in Ready(status) <=> status[w].ready
                             /\ w \in Active(status) <=> status[w].active
                             /\ status[w].seq \in Nat /\ w # None
         /\ \A v, w \in Known : status[v].seq = status[w].seq => v = w
         /\ \A w \in Known : w \in Past <=> status[w].seq < Done
         /\ Done \in Int
<1>1. Done \in Int
  <2>1. run.todo \in Seq(Wan)
    BY DEF Base, Types, IsRun
  <2> QED BY <2>1, OrderFacts DEF Done
<1> QED BY <1>1, OrderFacts, SetupAssumption DEF Ready, Active, Known, Past, Record

\* With the same ready WANs the first one is the same.
LEMMA FirstSame ==
  ASSUME Base, Ready(status') = Ready(status), \A v \in Known : status'[v].seq = status[v].seq
  PROVE  FirstReady' = FirstReady
BY FirstFacts DEF FirstReady

\* Each turn of a failover keeps the loop on its way.
LEMMA ChoiceTurn ==
  ASSUME Base, LoopInv, Turn, Standby, ChosenPast
  PROVE  ChosenPast' /\ (Chosen => Chosen')
<1> DEFINE w == Head(run.todo)
           act == status[w].ready /\ run.current = None
<1>1. /\ w \in Known /\ w \notin Past /\ Past' = Past \cup {w} /\ Known' = Known
      /\ run'.current = (IF act THEN w ELSE run.current) /\ Standby' = Standby
  BY TurnUse, TodoFacts, TurnRoutes DEF Standby
<1>2. /\ Active(status') = IF act THEN Active(status) \cup {w} ELSE Active(status) \ {w}
      /\ Ready(status') = Ready(status)
  BY TurnActive
<1>3. \A v \in Known : status'[v].seq = status[v].seq
  BY TurnUse, TurnFacts, <1>1 DEF Base
<1>4. status[w].seq >= Done /\ (\A v \in Past : v \in Known /\ status[v].seq < Done)
      /\ (w \in Ready(status) <=> status[w].ready)
      /\ status[w].seq \in Nat /\ (\A v \in Past : status[v].seq \in Nat) /\ Done \in Int
      /\ w # None
  BY <1>1, FirstFacts DEF Past
<1>5. run.current # None => run.current \in Past /\ run.current \in Active(status)
  BY TurnUse DEF LoopInv
<1>6. /\ run.current # None => run.current \in Ready(status)
      /\ \A v \in Past \cap Ready(status) :
           run.current # None /\ status[run.current].seq =< status[v].seq
  BY DEF ChosenPast
<1>7. \A v, u \in Known : status[v].seq = status[u].seq => v = u
  BY FirstFacts
<1> HIDE DEF w
<1>8. ChosenPast'
  <2>1. run'.current # None => run'.current \in Ready(status')
    BY <1>1, <1>2, <1>4, <1>6
  <2>2. ASSUME NEW v \in Past' \cap Ready(status')
        PROVE  run'.current # None /\ status'[run'.current].seq =< status'[v].seq
    <3>1. v \in Known /\ v \in Ready(status) /\ (v \in Past \/ v = w)
      BY <1>1, <1>2, <1>4, <2>2
    <3>2. CASE v \in Past
      <4>1. run.current # None /\ status[run.current].seq =< status[v].seq /\ run.current \in Known
        BY <1>4, <1>5, <1>6, <3>1, <3>2
      <4>2. run'.current = run.current
        BY <1>1, <4>1
      <4> QED BY <1>3, <3>1, <4>1, <4>2
    <3>3. CASE v = w /\ run.current = None
      <4>1. run'.current = w
        BY <1>1, <1>4, <3>1, <3>3
      <4> QED BY <1>3, <1>4, <1>1, <3>3, <4>1
    <3>4. CASE v = w /\ run.current # None
      <4>1. run'.current = run.current /\ run.current \in Past
        BY <1>1, <1>5, <3>4
      <4>2. status[run.current].seq < status[w].seq
        BY <1>4, <4>1
      <4> QED BY <1>1, <1>3, <1>4, <3>4, <4>1, <4>2
    <3> QED BY <3>1, <3>2, <3>3, <3>4
  <2> QED BY <1>1, <2>1, <2>2 DEF ChosenPast
<1>9. ASSUME Chosen PROVE Chosen'
  <2>1. Active(status) = FirstReady
    BY <1>9 DEF Chosen
  <2>2. FirstReady' = FirstReady
    BY <1>2, <1>3, FirstSame
  <2>3. CASE act
    <3>1. Past \cap Ready(status) = {}
      BY <1>6, <2>3
    <3>2. ASSUME NEW v \in Ready(status) PROVE status[w].seq =< status[v].seq
      <4>1. v \in Known /\ v \notin Past
        BY <3>1, FirstFacts
      <4>2. ~(status[v].seq < Done) /\ status[v].seq \in Nat
        BY <4>1, FirstFacts
      <4>3. status[w].seq = Done
        BY TurnUse, TodoFacts DEF w
      <4> QED BY <1>4, <4>2, <4>3
    <3>3. w \in FirstReady
      BY <1>4, <2>3, <3>2 DEF FirstReady
    <3> QED BY <1>1, <1>2, <2>1, <2>2, <2>3, <3>3 DEF Chosen
  <2>4. CASE ~act
    <3>1. ASSUME w \in Active(status) PROVE FALSE
      <4>1. w \in Ready(status) /\ \A v \in Ready(status) : status[w].seq =< status[v].seq
        BY <2>1, <3>1 DEF FirstReady
      <4>2. run.current # None
        BY <1>4, <2>4, <4>1
      <4>3. run.current \in Ready(status) /\ status[run.current].seq < status[w].seq
            /\ status[run.current].seq \in Nat
        BY <1>4, <1>5, <1>6, <4>2
      <4> QED BY <1>4, <4>1, <4>3
    <3> QED BY <1>1, <1>2, <2>1, <2>2, <2>4, <3>1 DEF Chosen
  <2> QED BY <2>3, <2>4
<1> QED BY <1>8, <1>9

\* Each turn of load_balance does as well.
LEMMA ChoiceWrite ==
  ASSUME Base, TurnWrite, ChosenPast
  PROVE  ChosenPast' /\ (Chosen => Chosen')
<1> DEFINE w == Head(run.todo)
<1>1. /\ w \in Known /\ w \notin Past /\ Past' = Past \cup {w} /\ run.read \in BOOLEAN
      /\ run'.read = None
      /\ Ready(status') = Ready(status)
      /\ Active(status') = IF run.read THEN Active(status) \cup {w} ELSE Active(status) \ {w}
  BY TurnWriteLeaves
<1>2. ~Standby /\ ~Standby' /\ run.read # None
  BY DEF TurnWrite, Failover, Standby
<1>3. run.read = FALSE => w \notin Ready(status)
  BY <1>1, <1>2, FirstFacts DEF ChosenPast
<1>4. Past \cap Ready(status) \subseteq Active(status)
  BY <1>2 DEF ChosenPast
<1> HIDE DEF w
<1>5. run'.read = None
  BY <1>1
<1>6. Past' \cap Ready(status') \subseteq Active(status')
  BY <1>1, <1>3, <1>4
<1>7. Chosen => Chosen'
  BY <1>1, <1>2, <1>3 DEF Chosen
<1> QED BY <1>2, <1>5, <1>6, <1>7 DEF ChosenPast

\* At its end the choice is made.
LEMMA ChoiceEnd ==
  ASSUME Base, LoopInv, End, Failover => Standby, ChosenPast
  PROVE  Chosen'
<1>1. /\ Looping /\ Past = Known /\ Active(status') = Active(status) /\ conf' = conf
      /\ Ready(status') = Ready(status)
      /\ \A v \in Known : status'[v].seq = status[v].seq
  BY EndLeaves
<1>2. FirstReady' = FirstReady /\ Standby' = Standby
  BY <1>1, FirstSame DEF Standby
<1>3. CASE Standby
  <2>1. Active(status) \subseteq {run.current} /\ (run.current # None => run.current \in Active(status))
    BY <1>1, <1>3, FirstFacts DEF LoopInv, Failover, Standby
  <2>2. /\ run.current # None => run.current \in Ready(status)
        /\ \A v \in Ready(status) :
             run.current # None /\ status[run.current].seq =< status[v].seq
    BY <1>1, <1>3, FirstFacts DEF ChosenPast
  <2>3. None \notin Active(status)
    BY FirstFacts
  <2>4. FirstReady \subseteq {run.current}
    <3>1. ASSUME NEW v \in FirstReady PROVE v = run.current
      <4>1. v \in Ready(status) /\ run.current \in Ready(status)
            /\ status[v].seq =< status[run.current].seq
            /\ status[run.current].seq =< status[v].seq
        BY <2>2, <3>1 DEF FirstReady
      <4> QED BY <4>1, FirstFacts
    <3> QED BY <3>1
  <2>5. run.current # None => run.current \in FirstReady
    BY <2>2 DEF FirstReady
  <2>6. Ready(status) # {} => run.current # None
    BY <2>2
  <2>7. Active(status) = FirstReady
    BY <2>1, <2>3, <2>4, <2>5, <2>6 DEF FirstReady
  <2> QED BY <1>1, <1>2, <1>3, <2>7 DEF Chosen
<1>4. CASE ~Standby
  <2>1. Ready(status) \subseteq Active(status)
    BY <1>1, <1>4, FirstFacts DEF ChosenPast
  <2> QED BY <1>1, <1>2, <1>4, <2>1 DEF Chosen
<1> QED BY <1>3, <1>4

\* What a test changes, and when it schedules nothing.
LEMMA CheckReady ==
  ASSUME Base, NEW w, NEW b \in BOOLEAN, Check(w, b)
  PROVE  /\ (timer => timer') /\ Known' = Known
         /\ \/ Ready(status') = Ready(status)
            \/ /\ ~b /\ w \in Ready(status) /\ Ready(status') = Ready(status) \ {w}
               /\ ~timer' => w \notin Active(status) \/ conf.type = "single"
            \/ /\ b /\ w \in Known \ Ready(status) /\ Ready(status') = Ready(status) \cup {w}
               /\ ~timer' /\ Standby /\ conf.failback =>
                    \E a \in Active(status) : status[a].seq =< status[w].seq
               /\ ~timer' => Failover
<1>1. CASE w \notin Known \cap subs
  <2>1. status' = status /\ timer' = timer
    BY <1>1 DEF Check
  <2> QED BY <2>1, FlagsStay
<1>2. CASE w \in Known \cap subs
  <2>1. /\ DOMAIN status' = Known /\ status'[w].ready = b
        /\ \A v \in Known : v # w => status'[v].ready = status[v].ready
    BY <1>2, CheckFacts DEF Base
  <2>2. Ready(status') = IF b THEN Ready(status) \cup {w} ELSE Ready(status) \ {w}
    BY <1>2, <2>1 DEF Ready, Known
  <2>3. (timer => timer') /\ Known' = Known
    BY <1>2, <2>1 DEF Check, Known
  <2>4. w \in Ready(status) <=> status[w].ready
    BY <1>2 DEF Ready, Known
  <2>5. w \in Active(status) <=> status[w].active
    BY <1>2 DEF Active, Known
  <2>6. CASE ~b /\ w \in Ready(status)
    <3>1. ~timer' => ~ChangeActiveNeeded(w, b)
      BY <1>2, <2>4, <2>6 DEF Check
    <3>2. ~timer' => w \notin Active(status) \/ conf.type = "single"
      BY <2>4, <2>5, <2>6, <3>1 DEF ChangeActiveNeeded
    <3> QED BY <2>2, <2>3, <2>6, <3>2
  <2>7. CASE b /\ w \notin Ready(status)
    <3>1. ~timer' => ~ChangeActiveNeeded(w, b)
      BY <1>2, <2>4, <2>7 DEF Check
    <3>2. ~timer' => Failover
      BY <2>4, <2>7, <3>1 DEF ChangeActiveNeeded
    <3>3. ~timer' /\ Standby /\ conf.failback => ~Outranks(w, Active(status))
      BY <2>4, <2>7, <3>1 DEF ChangeActiveNeeded
    <3>4. ~Outranks(w, Active(status)) => \E a \in Active(status) : status[a].seq =< status[w].seq
      <4>1. \A a \in Active(status) : status[a].seq \in Nat /\ status[w].seq \in Nat
        BY <1>2, FirstFacts
      <4> QED BY <4>1 DEF Outranks
    <3> QED BY <1>2, <2>2, <2>3, <2>7, <3>2, <3>3, <3>4
  <2>8. CASE b <=> w \in Ready(status)
    <3>1. Ready(status') = Ready(status)
      BY <2>2, <2>8
    <3> QED BY <2>3, <3>1
  <2> QED BY <2>6, <2>7, <2>8
<1> QED BY <1>1, <1>2

\* A test that schedules nothing needs no other choice: the WAN that failed
\* was not active, and the one that returned comes after the active one.
LEMMA ChoiceCheck ==
  ASSUME Base, LoopInv, Returning, NEW w, NEW b \in BOOLEAN, Check(w, b), ~timer'
  PROVE  (Chosen => Chosen') /\ (Looping /\ ChosenPast => ChosenPast')
<1>1. /\ Active(status') = Active(status) /\ Past' = Past /\ run' = run /\ Standby' = Standby
      /\ Known' = Known /\ \A v \in Known : status'[v].seq = status[v].seq
  BY CheckLeaves DEF Standby
<1>2. conf.type # "single" /\ (Standby => conf.failback) /\ (Failover => Standby)
  BY ConfFacts DEF Returning, Standby, Failover, Base, Types
<1>f. FirstReady' = {u \in Ready(status') : \A v \in Ready(status') : status[u].seq =< status[v].seq}
  <2>1. Ready(status') \subseteq Known
    BY FirstFacts, CheckReady
  <2> QED BY <1>1, <2>1 DEF FirstReady
<1>p. Looping /\ Standby =>
        /\ run.current # None => run.current \in Active(status) \cap Past
        /\ Active(status) \cap Past \subseteq {run.current}
  BY DEF LoopInv, Failover, Standby
<1>q. Past \subseteq Known /\ Ready(status) \subseteq Known /\ Active(status) \subseteq Known
      /\ \A v \in Known : status[v].seq \in Nat /\ v # None
  BY FirstFacts DEF Past
<1>r. run.current # None /\ run.current \in Ready(status) =>
        run.current \in Known /\ status[run.current].seq \in Nat
  BY <1>q
<1>3. CASE Ready(status') = Ready(status)
  <2>1. FirstReady' = FirstReady
    BY <1>1, <1>3, FirstSame
  <2>2. Chosen => Chosen'
    BY <1>1, <1>3, <2>1 DEF Chosen
  <2>3. ChosenPast => ChosenPast'
    BY <1>1, <1>3, <1>q DEF ChosenPast
  <2> QED BY <2>2, <2>3
<1>4. CASE w \in Ready(status) /\ Ready(status') = Ready(status) \ {w} /\ w \notin Active(status)
  <2>1. Chosen => Chosen'
    <3>1. CASE Standby
      <4>1. ASSUME Active(status) = FirstReady PROVE FirstReady' = FirstReady
        <5>1. PICK x \in Ready(status) : ~(status[w].seq =< status[x].seq)
          BY <1>4, <4>1 DEF FirstReady
        <5>2. x \in Ready(status') /\ status[x].seq < status[w].seq
          BY <1>4, <1>q, <5>1
        <5>3. \A u \in FirstReady' : u \in FirstReady
          <6> TAKE u \in FirstReady'
          <6>1. u \in Ready(status) /\ \A v \in Ready(status') : status[u].seq =< status[v].seq
            BY <1>4, <1>f
          <6>2. status[u].seq =< status[w].seq
            BY <1>4, <1>q, <5>2, <6>1
          <6> QED BY <1>4, <6>1, <6>2 DEF FirstReady
        <5>4. \A u \in FirstReady : u \in FirstReady'
          BY <1>4, <1>f, <4>1 DEF FirstReady
        <5> QED BY <5>3, <5>4
      <4> QED BY <1>1, <3>1, <4>1 DEF Chosen
    <3>2. CASE ~Standby
      BY <1>1, <1>4, <3>2 DEF Chosen
    <3> QED BY <3>1, <3>2
  <2>2. Looping /\ ChosenPast => ChosenPast'
    <3>1. CASE Standby
      <4>1. Looping /\ run.current # None => run.current # w
        BY <1>4, <1>p, <3>1
      <4> QED BY <1>1, <1>4, <1>q, <3>1, <4>1 DEF ChosenPast
    <3>2. CASE ~Standby
      BY <1>1, <1>4, <3>2 DEF ChosenPast
    <3> QED BY <3>1, <3>2
  <2> QED BY <2>1, <2>2
<1>5. CASE /\ w \in Known \ Ready(status) /\ Ready(status') = Ready(status) \cup {w} /\ Standby
           /\ \E a \in Active(status) : status[a].seq =< status[w].seq
  <2>1. PICK a \in Active(status) : status[a].seq =< status[w].seq
    BY <1>5
  <2>2. Chosen => Chosen'
    <3>1. ASSUME Active(status) = FirstReady PROVE FirstReady' = FirstReady
      <4>1. a \in Ready(status) /\ a # w /\ \A v \in Ready(status) : status[a].seq =< status[v].seq
        BY <1>5, <2>1, <3>1 DEF FirstReady
      <4>2. status[a].seq < status[w].seq
        BY <1>5, <1>q, <2>1, <4>1, FirstFacts
      <4>3. \A u \in FirstReady' : u \in FirstReady
        <5> TAKE u \in FirstReady'
        <5>1. u \in Ready(status) \cup {w} /\ \A v \in Ready(status) : status[u].seq =< status[v].seq
          BY <1>5, <1>f
        <5>2. u # w
          BY <1>5, <1>q, <4>1, <4>2, <5>1
        <5> QED BY <5>1, <5>2 DEF FirstReady
      <4>4. \A u \in FirstReady : u \in FirstReady'
        <5> TAKE u \in FirstReady
        <5>1. u \in Ready(status) /\ \A v \in Ready(status) : status[u].seq =< status[v].seq
          BY DEF FirstReady
        <5>2. status[u].seq =< status[w].seq
          BY <1>5, <1>q, <4>1, <4>2, <5>1
        <5> QED BY <1>5, <1>f, <5>1, <5>2
      <4> QED BY <4>3, <4>4
    <3> QED BY <1>1, <1>5, <3>1 DEF Chosen
  <2>3. Looping /\ ChosenPast => ChosenPast'
    <3> HAVE Looping /\ ChosenPast
    <3>1. /\ run.current # None => run.current \in Ready(status)
          /\ \A v \in Past \cap Ready(status) :
               run.current # None /\ status[run.current].seq =< status[v].seq
      BY <1>5 DEF ChosenPast
    <3>2. w \in Past => run.current # None /\ status[run.current].seq =< status[w].seq
      <4> HAVE w \in Past
      <4>1. a \in Past
        BY <1>5, <1>q, <2>1, FirstFacts
      <4>2. a = run.current /\ a # None
        BY <1>5, <1>p, <1>q, <2>1, <4>1
      <4> QED BY <2>1, <4>2
    <3>3. \A v \in Past \cap Ready(status') :
            run.current # None /\ status[run.current].seq =< status[v].seq
      BY <1>5, <3>1, <3>2
    <3> QED BY <1>1, <1>5, <1>q, <3>1, <3>3 DEF ChosenPast
  <2> QED BY <2>2, <2>3
<1> QED BY <1>2, <1>3, <1>4, <1>5, CheckReady

\* Only a loop that makes the IPv4 routes does what was due.
LEMMA DueBefore ==
  ASSUME Base, [Next]_vars, ~Due'
  PROVE  ~Due \/ (Begin /\ 4 \in Holder.af)
<1> USE DEF env, leaves
<1>1. CASE Begin /\ 4 \notin Holder.af
  <2>1. /\ jobs' = jobs /\ timer' = timer /\ reapply' = reapply /\ ~Looping /\ jobs # <<>>
    BY <1>1, BeginFacts, BeginRoutes DEF Looping
  <2>2. Holder.op # "apply" /\ Holder = jobs[1]
    BY <1>1, <2>1, BeginFacts, HolderFacts DEF Families
  <2>3. \A i : Coming(i) => Coming(i)'
    BY <1>1, <2>1, <2>2 DEF Coming
  <2> QED BY <2>1, <2>2, <2>3 DEF Due, Looping, Holder
<1>2. CASE Turn \/ TurnRead \/ TurnWrite
  <2>1. jobs' = jobs /\ timer' = timer /\ reapply' = reapply /\ Looping /\ Looping'
    BY <1>2, TurnUse, TurnReadLeaves, TurnWriteLeaves DEF Turn, TurnRead, TurnWrite, Looping
  <2> QED BY <2>1, DueSame
<1>3. CASE End
  <2>1. /\ Looping /\ jobs # <<>> /\ run'.pc = "idle" /\ jobs' = Tail(jobs) /\ timer' = timer
    BY <1>3, EndLeaves
  <2>2. reapply' = reapply \/ (Looping /\ Holder.op = "apply")
    BY <1>3, <2>1 DEF End
  <2> QED BY <2>1, <2>2, DueTail
<1>4. CASE TimerFires
  <2>1. run' = run /\ jobs' = Append(jobs, Job("switch", Families, None))
        /\ Job("switch", Families, None) \in Jobs /\ Job("switch", Families, None).op = "switch"
        /\ 4 \in Job("switch", Families, None).af
    BY <1>4, JobFacts DEF TimerFires, Base, Families
  <2> QED BY <2>1, DueAppend
<1>5. CASE Apply
  <2>1. reapply = "flushed" /\ reapply' = "applying" /\ run' = run
    BY <1>5 DEF Apply
  <2>2. Looping => Holder' = Holder /\ jobs # <<>>
    <3>1. jobs' = Append(jobs, Job("apply", Families, None))
          /\ Job("apply", Families, None) \in Jobs
      BY <1>5, JobFacts DEF Apply, Base
    <3> QED BY <3>1, HolderStays
  <2>3. Looping => Holder.op # "apply"
    BY <2>1, <2>2, HolderFacts DEF Proper
  <2> QED BY <2>1, <2>2, <2>3 DEF Due, Looping
<1>6. CASE Flush
  BY <1>6 DEF Flush, Due
<1>7. CASE \E c \in setup.configs : Reconfigure(c)
  BY <1>7 DEF Reconfigure, Due
<1>8. CASE Ip6Change
  <2>1. run' = run /\ timer' = timer /\ reapply' = reapply
        /\ \E j \in Jobs : jobs' = Append(jobs, j)
    BY <1>8, JobFacts DEF Ip6Change, Base
  <2> QED BY <2>1, DueAppend
<1>9. ASSUME NEW w \in setup.wans, IpChange(w) PROVE ~Due
  <2>0. w \in Wan
    BY SetupAssumption DEF Base, Types
  <2>1. run' = run /\ timer' = timer /\ reapply' = reapply
        /\ \E j \in Jobs : jobs' = Append(jobs, j)
    BY <1>9, <2>0, JobFacts DEF IpChange, Base
  <2> QED BY <2>1, DueAppend
<1>10. CASE Between
  <2>1. timer' = timer /\ reapply' = reapply /\ ~Looping /\ ~Looping' /\ jobs # <<>>
    BY <1>10, BetweenFacts DEF Looping
  <2>2. Holder.op # "switch"
    BY <1>10 DEF Between, RefreshRead, RefreshWrite, ApplyStart, ApplyBuild, Flush6, Holds
  <2>3. \/ jobs' = Tail(jobs) \/ jobs' = jobs
        \/ \E j \in Jobs : jobs' = Append(Tail(jobs), j)
    BY <1>10, JobFacts
       DEF Between, RefreshRead, RefreshWrite, ApplyStart, ApplyBuild, Flush6, Base
  <2> QED BY <2>1, <2>2, <2>3, DueTail DEF Looping
<1>11. CASE ApplyCommit
  BY <1>11, CommitFacts DEF Due, Looping
<1>12. ASSUME NEW b \in BOOLEAN, Notified(b) PROVE ~Due
  <2>1. run' = run /\ jobs' = jobs /\ timer' = timer /\ reapply' = reapply
    BY <1>12 DEF Notified
  <2> QED BY <2>1, DueSame DEF Looping
<1>13. ASSUME NEW w \in setup.wans, NEW s \in {"gone", "down", "up"}, DeviceChange(w, s)
       PROVE  ~Due
  <2>1. run' = run /\ jobs' = jobs /\ timer' = timer /\ reapply' = reapply
    BY <1>13 DEF DeviceChange
  <2> QED BY <2>1, DueSame DEF Looping
<1>14. ASSUME NEW w \in setup.wans, NEW b \in BOOLEAN, Check(w, b) PROVE ~Due
  <2>1. ~timer /\ Looping' = Looping /\ jobs' = jobs /\ reapply' = reapply
    BY <1>14, CheckReady, CheckLeaves DEF Due, Looping
  <2> QED BY <2>1 DEF Due, Coming, Holder
<1>15. CASE UNCHANGED vars
  <2>1. run' = run /\ jobs' = jobs /\ timer' = timer /\ reapply' = reapply
    BY <1>15 DEF vars
  <2> QED BY <2>1, DueSame DEF Looping
<1> QED BY <1>1, <1>2, <1>3, <1>4, <1>5, <1>6, <1>7, <1>8, <1>9, <1>10, <1>11, <1>12, <1>13,
           <1>14, <1>15
        DEF Next, System, Environment, Between

\* A loop stays the same one from its beginning to its end.
LEMMA FullStays ==
  ASSUME Base, run' = run, jobs' = jobs \/ \E j \in Jobs : jobs' = Append(jobs, j)
  PROVE  Full' = Full
<1>1. Looping' = Looping
  BY DEF Looping
<1>2. Looping => Holder' = Holder
  BY HolderStays DEF Holder
<1> QED BY <1>1, <1>2 DEF Full

\* The choice is made again whenever it has to be.
LEMMA ChoiceKeep ==
  ASSUME Base, LoopInv, ChoiceInv, [Next]_vars
  PROVE  ChoiceInv'
<1> USE DEF env, leaves
<1>0. setup' = setup
  BY ConfStays
<1> SUFFICES ASSUME Returning', ~Due' PROVE (~Full' => Chosen') /\ (Looping' => ChosenPast')
  BY DEF ChoiceInv
<1>r. Returning /\ (Failover => Standby)
  <2>1. Returning
    BY <1>0 DEF Returning
  <2> QED BY <2>1, ConfFacts DEF Returning, Failover, Standby, Base, Types
<1>d. \/ (~Full => Chosen) /\ (Looping => ChosenPast)
      \/ Begin /\ 4 \in Holder.af
  BY <1>r, DueBefore DEF ChoiceInv
<1>s. ASSUME status' = status, conf' = conf PROVE Chosen => Chosen'
  <2>1. FirstReady' = FirstReady
    BY <1>s, FlagsStay, FirstSame
  <2> QED BY <1>s, <2>1, FlagsStay DEF Chosen, Standby
<1>a. ASSUME ~Begin, status' = status, run' = run, conf' = conf,
             jobs' = jobs \/ \E j \in Jobs : jobs' = Append(jobs, j)
      PROVE  (~Full' => Chosen') /\ (Looping' => ChosenPast')
  <2>1. ChosenPast => ChosenPast'
    BY <1>a, FlagsStay DEF ChosenPast, Standby
  <2> QED BY <1>a, <1>d, <1>s, <2>1, FullStays DEF Looping
<1>b. run' = run => ~Begin
  BY BeginFacts DEF Looping
<1>1. CASE Begin
  <2>1. /\ run'.pc = "loop" /\ run'.current = None /\ run'.read = None /\ Past' = {}
        /\ status' = status /\ conf' = conf /\ jobs' = jobs /\ ~Looping
    BY <1>1, BeginFacts, BeginRoutes DEF Looping
  <2>2. ChosenPast'
    BY <2>1 DEF ChosenPast
  <2>3. 4 \in Holder.af => Full'
    BY <2>1 DEF Full, Looping, Holder
  <2>4. 4 \notin Holder.af => Chosen
    BY <1>d, <2>1 DEF Full
  <2> QED BY <1>s, <2>1, <2>2, <2>3, <2>4
<1>2. CASE Turn
  <2>1. Looping /\ run'.pc = "loop" /\ run.pc = "loop" /\ Failover /\ jobs' = jobs /\ ~Begin
    BY <1>2, TurnUse, TurnRoutes, BeginFacts DEF Looping
  <2>2. Full' = Full
    BY <2>1 DEF Full, Looping, Holder
  <2> QED BY <1>2, <1>d, <1>r, <2>1, <2>2, ChoiceTurn
<1>3. CASE TurnRead
  <2>1. /\ Looping /\ run'.pc = "loop" /\ ~Standby /\ ~Standby' /\ Past' = Past
        /\ status' = status /\ run'.read = status[Head(run.todo)].ready
        /\ run'.todo = run.todo /\ jobs' = jobs /\ conf' = conf /\ ~Begin
    BY <1>3, TurnReadLeaves, BeginFacts DEF Looping, TurnRead, Failover, Standby
  <2>2. Full' = Full
    BY <2>1 DEF Full, Looping, Holder
  <2>3. Chosen => Chosen'
    BY <1>s, <2>1
  <2>4. ChosenPast => ChosenPast'
    <3>1. run'.read = FALSE => Head(run.todo) \notin Ready(status)
      BY <2>1, FirstFacts
    <3>2. ChosenPast => Past \cap Ready(status) \subseteq Active(status)
      BY <2>1 DEF ChosenPast
    <3> QED BY <2>1, <3>1, <3>2, FlagsStay DEF ChosenPast
  <2> QED BY <1>d, <2>1, <2>2, <2>3, <2>4
<1>4. CASE TurnWrite
  <2>1. Looping /\ run'.pc = "loop" /\ run.pc = "loop" /\ jobs' = jobs /\ ~Begin
    BY <1>4, TurnWriteLeaves, TurnWriteRoutes, BeginFacts DEF Looping
  <2>2. Full' = Full
    BY <2>1 DEF Full, Looping, Holder
  <2> QED BY <1>4, <1>d, <2>1, <2>2, ChoiceWrite
<1>5. CASE End
  <2>1. Looping /\ run'.pc = "idle" /\ ~Begin
    BY <1>5, EndLeaves, BeginFacts DEF Looping
  <2>2. Chosen'
    BY <1>5, <1>d, <1>r, <2>1, ChoiceEnd
  <2> QED BY <2>1, <2>2 DEF Looping
<1>6. CASE Aside
  <2>1. /\ status' = status /\ run' = run /\ conf' = conf
        /\ \E j \in Jobs : jobs' = Append(jobs, j)
    BY <1>6, AsideFacts
  <2> QED BY <1>a, <1>b, <2>1
<1>7. CASE Flush
  BY <1>7 DEF Flush, Due
<1>8. CASE Between
  <2>1. status' = status /\ conf' = conf /\ ~Looping /\ ~Looping'
    BY <1>8, BetweenFacts DEF Looping
  <2>2. ~Begin
    BY <2>1, BeginFacts DEF Looping
  <2> QED BY <1>d, <1>s, <2>1, <2>2 DEF Full
<1>9. CASE ApplyCommit
  BY <1>9, CommitFacts DEF Due, Looping
<1>10. ASSUME NEW b \in BOOLEAN, Notified(b)
       PROVE  (~Full' => Chosen') /\ (Looping' => ChosenPast')
  BY <1>10, <1>a, <1>b DEF Notified
<1>11. ASSUME NEW w \in setup.wans, NEW s \in {"gone", "down", "up"}, DeviceChange(w, s)
       PROVE  (~Full' => Chosen') /\ (Looping' => ChosenPast')
  BY <1>11, <1>a, <1>b DEF DeviceChange
<1>12. ASSUME NEW w \in setup.wans, NEW b \in BOOLEAN, Check(w, b)
       PROVE  (~Full' => Chosen') /\ (Looping' => ChosenPast')
  <2>1. ~timer' /\ run' = run /\ jobs' = jobs
    BY <1>12, CheckLeaves DEF Due
  <2>2. Full' = Full /\ Looping' = Looping
    BY <2>1, FullStays DEF Looping
  <2> QED BY <1>12, <1>b, <1>d, <1>r, <2>1, <2>2, ChoiceCheck
<1>13. CASE UNCHANGED vars
  BY <1>13, <1>a, <1>b DEF vars
<1> QED BY <1>1, <1>2, <1>3, <1>4, <1>5, <1>6, <1>7, <1>8, <1>9, <1>10, <1>11, <1>12, <1>13
        DEF Next, System, Environment, Aside, Between

\* For every box: the choice is made, or is due.
LEMMA ChoiceAlways == Spec => []ChoiceInv
<1>1. Init => ChoiceInv
  BY DEF Init, ChoiceInv, Due
<1>2. Base /\ Placed /\ ChoiceInv /\ [Next]_vars => ChoiceInv'
  BY ChoiceKeep DEF Placed
<1> QED BY <1>1, <1>2, Invariant, PlacedAlways, PTL DEF Spec

-----------------------------------------------------------------------------
(* The promise of ActiveWan                                                *)

\* "Before" in the order of the configuration is a lower rank.
LEMMA FirstIsFirst ==
  ASSUME Base, Order = conf.order
  PROVE  AW!First(conf, Ready(status)) = FirstReady
<1>1. ASSUME NEW w \in Known
      PROVE  AW!Before(conf, w) = {v \in Known : status[v].seq < status[w].seq}
  <2> DEFINE o == Order
             n == Len(Order)
  <2>1. AW!Before(conf, w) = {o[i] : i \in {j \in 1..n : \E k \in 1..n : j < k /\ o[k] = w}}
    BY DEF AW!Before
  <2>2. /\ n \in Nat /\ Known = {o[i] : i \in 1..n}
        /\ \A i \in 1..n : o[i] \in Known /\ status[o[i]].seq = i - 1
        /\ \A v \in Known : status[v].seq + 1 \in 1..n /\ v = o[status[v].seq + 1]
                            /\ status[v].seq \in Nat
    <3>1. \A v \in Known : status[v].seq \in 0..n - 1
      BY OrderFacts
    <3>2. n \in Nat
      BY OrderFacts
    <3> HIDE DEF n
    <3>3. \A v \in Known : status[v].seq + 1 \in 1..n /\ status[v].seq \in Nat
      BY <3>1, <3>2
    <3> QED BY <3>3, OrderFacts DEF n
  <2> HIDE DEF o, n
  <2>3. ASSUME NEW v \in AW!Before(conf, w)
        PROVE  v \in Known /\ status[v].seq < status[w].seq
    <3>1. PICK j \in 1..n : v = o[j] /\ \E k \in 1..n : j < k /\ o[k] = w
      BY <2>1, <2>3
    <3>2. PICK k \in 1..n : j < k /\ o[k] = w
      BY <3>1
    <3>3. status[v].seq = j - 1 /\ status[w].seq = k - 1 /\ v \in Known
      BY <2>2, <3>1, <3>2
    <3> QED BY <2>2, <3>2, <3>3
  <2>4. ASSUME NEW v \in Known, status[v].seq < status[w].seq
        PROVE  v \in AW!Before(conf, w)
    <3>1. PICK j \in 1..n : j = status[v].seq + 1 /\ o[j] = v
      BY <2>2
    <3>2. PICK k \in 1..n : k = status[w].seq + 1 /\ o[k] = w
      BY <2>2
    <3>3. j < k
      BY <2>2, <2>4, <3>1, <3>2
    <3> QED BY <2>1, <3>1, <3>2, <3>3
  <2> QED BY <2>3, <2>4
<1>2. \A w \in Ready(status) : w \in Known /\ status[w].seq \in Nat
  BY FirstFacts
<1>3. AW!First(conf, Ready(status)) =
        {w \in Ready(status) : AW!Before(conf, w) \cap Ready(status) = {}}
  BY DEF AW!First
<1>4. \A w \in Ready(status) :
        AW!Before(conf, w) \cap Ready(status) = {}
          <=> \A v \in Ready(status) : status[w].seq =< status[v].seq
  <2> TAKE w \in Ready(status)
  <2>1. AW!Before(conf, w) \cap Ready(status) = {v \in Ready(status) : status[v].seq < status[w].seq}
    BY <1>1, <1>2
  <2> QED BY <1>2, <2>1
<1> QED BY <1>3, <1>4 DEF FirstReady

\* At rest the choice is acceptable.
LEMMA SettledIsRight ==
  Base /\ ChoiceInv /\ Returning /\ Settled => AW!Acceptable
<1> SUFFICES ASSUME Base, ChoiceInv, Returning, Settled PROVE AW!Acceptable
  OBVIOUS
<1>1. jobs = <<>> /\ ~timer /\ reapply = "no" /\ ~Looping
  BY DEF Settled, Base, Queue, Looping
<1>2. ~Due /\ ~Full
  <2>1. Len(jobs) = 0
    BY <1>1
  <2> QED BY <1>1, <2>1 DEF Due, Full
<1>3. Chosen
  BY <1>2 DEF ChoiceInv
<1>4. Order = conf.order
  BY <1>1 DEF Base, Ranked, Fresh
<1>5. conf.type \in {"primary_standby", "load_balance"}
  BY ConfFacts DEF Returning, Base, Types
<1> QED BY <1>3, <1>4, <1>5, FirstIsFirst DEF Chosen, Standby, AW!Acceptable

\* So it is after a step.
LEMMA SettledIsRightNext ==
  Base' /\ ChoiceInv' /\ Returning' /\ Settled' => AW!Acceptable'
BY SettledIsRight, PTL

\* A step that changes neither the configuration nor the flags is none of
\* ActiveWan, or begins or ends a change.
LEMMA StepAside ==
  ASSUME Base, Settled' => AW!Acceptable', conf' = conf,
         Ready(status') = Ready(status), Active(status') = Active(status)
  PROVE  [AW!Next]_(AW!vars)
<1>1. Wan # {}
  <2>1. conf.order[1] \in Wan
    BY ConfFacts DEF Base, Types
  <2> QED BY <2>1
<1>2. CASE Settled' = Settled
  BY <1>2 DEF AW!vars
<1>3. CASE ~Settled'
  <2>1. Settled' = FALSE
    BY <1>3 DEF Settled
  <2> QED BY <2>1 DEF AW!Next, AW!Unsettle
<1>4. CASE Settled' /\ ~Settled
  <2>1. Settled' \in BOOLEAN
    BY DEF Settled
  <2> QED BY <1>1, <1>4, <2>1 DEF AW!Next, AW!Choose
<1>5. Settled \in BOOLEAN /\ Settled' \in BOOLEAN
  BY DEF Settled
<1> QED BY <1>2, <1>3, <1>4, <1>5

\* Every step is one of ActiveWan, or none.
LEMMA StepOfActiveWan ==
  ASSUME Base, LoopInv, ChoiceInv, Returning, [Next]_vars
  PROVE  [AW!Next]_(AW!vars)
<1> USE DEF env, leaves
<1>0. Base' /\ ChoiceInv' /\ setup' = setup
  BY BaseKeep, ChoiceKeep, ConfStays
<1>r. Returning'
  BY <1>0 DEF Returning
<1>s. Settled' => AW!Acceptable'
  BY <1>0, <1>r, SettledIsRightNext
<1>a. ASSUME conf' = conf, status' = status PROVE [AW!Next]_(AW!vars)
  BY <1>s, <1>a, FlagsStay, StepAside
<1>b. jobs # <<>> => Settled = FALSE
  BY DEF Settled
<1>c. Settled' \in BOOLEAN
  BY DEF Settled
<1>d. ASSUME conf' = conf, Ready(status') = Ready(status), jobs # <<>>,
             \E w \in Wan : Active(status') \in {Active(status) \cup {w}, Active(status) \ {w}}
      PROVE  [AW!Next]_(AW!vars)
  <2>1. AW!Choose
    BY <1>b, <1>c, <1>d, <1>s DEF AW!Choose
  <2> QED BY <2>1 DEF AW!Next
<1>1. CASE Begin \/ TurnRead \/ Between \/ Aside
  <2>1. CASE Begin \/ TurnRead
    BY <1>a, <2>1 DEF Begin, TurnRead
  <2>2. CASE Between
    BY <1>a, <2>2, BetweenFacts
  <2>3. CASE Aside
    <3>1. conf' = conf /\ status' = status
      BY <2>3, AsideFacts
    <3> QED BY <1>a, <3>1
  <2> QED BY <1>1, <2>1, <2>2, <2>3
<1>2. CASE Turn
  <2>1. jobs # <<>> /\ Head(run.todo) \in Wan /\ conf' = conf
    BY <1>2, TurnUse, TodoFacts, TurnRoutes DEF InLoop
  <2> QED BY <1>2, <1>d, <2>1, TurnActive
<1>3. CASE TurnWrite
  <2>1. jobs # <<>> /\ Head(run.todo) \in Wan /\ conf' = conf
    BY <1>3, TurnWriteLeaves, TurnWriteRoutes DEF InLoop
  <2> QED BY <1>3, <1>d, <2>1, TurnWriteLeaves
<1>4. CASE End
  BY <1>4, <1>s, EndLeaves, StepAside
<1>5. CASE Flush \/ ApplyCommit
  <2>1. jobs # <<>> /\ Settled = FALSE
    BY <1>5, <1>b DEF Flush, ApplyCommit, Holds
  <2>2. Settled' = FALSE
    <3>1. CASE Flush
      BY <3>1 DEF Flush, Settled
    <3>2. CASE ApplyCommit
      BY <2>1, <3>2, CommitFacts DEF Settled
    <3> QED BY <1>5, <3>1, <3>2
  <2>3. conf' \in Configs
    BY <1>0, ConfFacts DEF Base, Types
  <2>4. Ready(status') \subseteq Wan /\ Active(status') \subseteq Wan
    BY <1>0 DEF Base, Types, IsTable, Ready, Active
  <2>5. AW!Reconfigure
    BY <2>1, <2>2, <2>3, <2>4 DEF AW!Reconfigure
  <2> QED BY <2>5 DEF AW!Next
<1>6. ASSUME NEW b \in BOOLEAN, Notified(b) PROVE [AW!Next]_(AW!vars)
  BY <1>6, <1>a DEF Notified
<1>7. ASSUME NEW w \in setup.wans, NEW s \in {"gone", "down", "up"}, DeviceChange(w, s)
      PROVE  [AW!Next]_(AW!vars)
  BY <1>7, <1>a DEF DeviceChange
<1>8. ASSUME NEW w \in setup.wans, NEW b \in BOOLEAN, Check(w, b) PROVE [AW!Next]_(AW!vars)
  <2>1. w \in Wan
    BY SetupAssumption DEF Base, Types
  <2>2. conf' = conf /\ Active(status') = Active(status)
    BY <1>8, CheckLeaves
  <2>3. CASE Ready(status') = Ready(status)
    BY <1>s, <2>2, <2>3, StepAside
  <2>4. CASE Ready(status') \in {Ready(status) \cup {w}, Ready(status) \ {w}}
    <3>1. AW!Report
      BY <1>c, <1>s, <2>1, <2>2, <2>4 DEF AW!Report
    <3> QED BY <3>1 DEF AW!Next
  <2> QED BY <1>8, <2>3, <2>4, CheckReady
<1>9. CASE UNCHANGED vars
  BY <1>9, <1>a DEF vars
<1> QED BY <1>1, <1>2, <1>3, <1>4, <1>5, <1>6, <1>7, <1>8, <1>9
        DEF Next, System, Environment, Aside, Between

\* For every box whose WANs take their place again when they return, the
\* plugin does step by step what ActiveWan promises: at rest the active WANs
\* are the ones that the order and the tests demand.
THEOREM ActiveWanImplemented == Spec /\ Returning => AW!Init /\ [][AW!Next]_(AW!vars)
<1>1. Init => AW!Init
  <2> SUFFICES ASSUME Init PROVE AW!Init
    OBVIOUS
  <2>1. conf \in Configs
    BY BaseInit, ConfFacts DEF Base, Types
  <2>2. Ready(status) = {} /\ Active(status) = {} /\ Settled = FALSE
    BY DEF Init, Ready, Active, Settled
  <2> QED BY <2>1, <2>2 DEF AW!Init
<1>2. Returning /\ [Next]_vars => Returning'
  BY ConfStays DEF Returning
<1>3. Base /\ Placed /\ ChoiceInv /\ Returning /\ [Next]_vars => [AW!Next]_(AW!vars)
  BY StepOfActiveWan DEF Placed
<1> QED BY <1>1, <1>2, <1>3, Invariant, PlacedAlways, ChoiceAlways, PTL DEF Spec

-----------------------------------------------------------------------------
(* The metrics of the routes                                               *)

\* A WAN's IPv4 route, if it has one, is not better than n behind its rank.
Behind(v, n) == route[4][v] > 0 => route[4][v] >= status[v].seq + n

\* No route is better than the rank of its WAN.
Metrics ==
  /\ run.pc # "begin" \/ setup.smooth => \A v \in Known : Behind(v, 1)
  /\ run.pc = "refresh" => run.metric >= status[Holder.arg].seq + 1

\* While the order stays, the ranks do.
LEMMA SeqStays ==
  ASSUME Base, [Next]_vars, Order' = Order
  PROVE  Known' = Known /\ \A v \in Known : status'[v].seq = status[v].seq
<1>1. Base'
  BY BaseKeep
<1>2. \A i \in 1..Len(Order) : status'[Order[i]].seq = i - 1
  BY <1>1 DEF Base, Ranked, IsOrder
<1>3. Known' = {Order[i] : i \in 1..Len(Order)}
  BY <1>1 DEF Base, Ranked, IsOrder, Known
<1>4. ASSUME NEW v \in Known PROVE status'[v].seq = status[v].seq
  <2>1. PICK i \in 1..Len(Order) : v = Order[i]
    BY OrderFacts
  <2> QED BY <1>2, <2>1, OrderFacts
<1> QED BY <1>3, <1>4, OrderFacts

\* refreshGlobalIntfRoutes() holds the lock between the metric and the route.
LEMMA RefreshHeld ==
  ASSUME Base, [Next]_vars, run'.pc = "refresh"
  PROVE  /\ Holder' = Holder /\ ~ApplyCommit
         /\ \/ run' = run /\ run.pc = "refresh"
            \/ /\ RefreshRead /\ status' = status /\ Holder.arg \in Known
               /\ run'.metric = Metric(Holder.arg, TRUE)
<1> USE DEF env, leaves
<1>a. ASSUME run' = run, jobs' = jobs \/ \E j \in Jobs : jobs' = Append(jobs, j)
      PROVE  Holder' = Holder /\ run.pc = "refresh" /\ ~ApplyCommit
  <2>1. run.pc = "refresh"
    BY <1>a
  <2>2. jobs # <<>>
    BY <2>1 DEF Base, Queue
  <2>3. ~ApplyCommit
    BY <2>1 DEF ApplyCommit, Holds
  <2> QED BY <1>a, <2>1, <2>2, <2>3, HolderStays DEF Holder
<1>1. CASE Begin \/ Turn \/ TurnRead \/ TurnWrite
  <2>1. run'.pc = "loop"
    BY <1>1, BeginFacts, TurnUse, TurnReadLeaves, TurnWriteLeaves
  <2> QED BY <2>1
<1>2. CASE End \/ ApplyCommit
  BY <1>2, EndLeaves, CommitFacts
<1>3. CASE Aside
  BY <1>3, <1>a, AsideFacts
<1>4. CASE Flush \/ Flush6
  BY <1>4 DEF Flush, Flush6, Holds
<1>5. CASE RefreshWrite \/ ApplyStart \/ ApplyBuild
  BY <1>5, IdleRun, BuildFacts DEF RefreshWrite, ApplyStart, Idle
<1>6. CASE RefreshRead
  <2>1. run.pc = "idle" /\ status' = status
    BY <1>6 DEF RefreshRead, Holds
  <2>2. Holder.arg \in Known /\ jobs' = jobs
        /\ run' = [run EXCEPT !.pc = "refresh", !.metric = Metric(Holder.arg, TRUE)]
    BY <1>6, <2>1 DEF RefreshRead
  <2>3. run'.metric = Metric(Holder.arg, TRUE)
    BY <2>2 DEF Base, Types, IsRun
  <2>4. ~ApplyCommit
    BY <2>1 DEF ApplyCommit, Holds
  <2> QED BY <1>6, <2>1, <2>2, <2>3, <2>4 DEF Holder
<1>7. ASSUME NEW b \in BOOLEAN, Notified(b) PROVE run' = run /\ jobs' = jobs
  BY <1>7 DEF Notified
<1>8. ASSUME NEW w, NEW s, DeviceChange(w, s) PROVE run' = run /\ jobs' = jobs
  BY <1>8 DEF DeviceChange
<1>9. ASSUME NEW w, NEW b, Check(w, b) PROVE run' = run /\ jobs' = jobs
  BY <1>9 DEF Check
<1>10. CASE UNCHANGED vars
  BY <1>10, <1>a DEF vars
<1> QED BY <1>a, <1>1, <1>2, <1>3, <1>4, <1>5, <1>6, <1>7, <1>8, <1>9, <1>10
        DEF Next, System, Environment, Aside

\* Each route that is written, or stays while its WAN keeps its rank, is so.
LEMMA MetricsKeep ==
  ASSUME Base, SteadyInv, Steady, Metrics, [Next]_vars
  PROVE  Metrics'
<1>0. Base' /\ setup' = setup
  BY BaseKeep, ConfStays
<1>t. /\ route \in [Families -> [Wan -> Nat]] /\ route' \in [Families -> [Wan -> Nat]]
      /\ run.metric \in Nat /\ 4 \in Families /\ Known \subseteq Wan
      /\ \A v \in Known : status[v].seq \in Nat
  <2>1. /\ route \in [Families -> [Wan -> Nat]] /\ route' \in [Families -> [Wan -> Nat]]
        /\ run.metric \in Nat /\ 4 \in Families
    BY <1>0 DEF Base, Types, IsRun, Families
  <2> QED BY <2>1, FirstFacts, OrderFacts
<1>1. ASSUME run'.pc # "begin" \/ setup.smooth, NEW v \in Known' PROVE Behind(v, 1)'
  <2>1. CASE ApplyCommit
    <3>1. setup.smooth /\ route' = route /\ Order' = conf.order
      BY <1>1, <2>1, CommitFacts
    <3>2. CASE Known = {}
      <4>1. Via(4) = {}
        BY <1>t, <3>1, <3>2 DEF SteadyInv
      <4>2. v \in Wan
        BY <1>0 DEF Base, Types, IsTable, Known
      <4>3. ~(route[4][v] > 0)
        BY <4>1, <4>2 DEF Via
      <4> QED BY <3>1, <4>3 DEF Behind
    <3>3. CASE Order = conf.order
      <4>1. v \in Known /\ status'[v].seq = status[v].seq
        BY <3>1, <3>3, SeqStays
      <4> QED BY <3>1, <4>1 DEF Metrics, Behind
    <3> QED BY <3>1, <3>2, <3>3 DEF SteadyInv
  <2>2. CASE Begin /\ ~(run.pc # "begin" \/ setup.smooth)
    <3>1. Holder.af = Families /\ ~SmoothNow /\ v \in Wan
      BY <1>t, <2>2, BeginFacts DEF SmoothNow
    <3>2. route'[4][v] = 0
      BY <1>t, <2>2, <3>1, BeginRoutes
    <3> QED BY <3>2 DEF Behind
  <2>3. CASE ~ApplyCommit /\ (run.pc # "begin" \/ setup.smooth)
    <3>1. v \in Known /\ v \in Wan /\ status'[v].seq = status[v].seq /\ Behind(v, 1)
      BY <1>t, <2>3, OrderSteps, SeqStays DEF Metrics
    <3>2. \/ route'[4][v] \in {0, route[4][v]} \/ route'[4][v] >= status[v].seq + 1
          \/ run.pc = "refresh" /\ v = Holder.arg /\ route'[4][v] = run.metric
      BY <1>t, <3>1, Written
    <3>3. run.pc = "refresh" => run.metric >= status[Holder.arg].seq + 1
      BY DEF Metrics
    <3>4. route[4][v] > 0 => route[4][v] >= status[v].seq + 1
      BY <3>1 DEF Behind
    <3>5. route'[4][v] > 0 => route'[4][v] >= status[v].seq + 1
      BY <3>2, <3>3, <3>4
    <3> QED BY <3>1, <3>5 DEF Behind
  <2>4. ~(run.pc # "begin" \/ setup.smooth) => Begin
    BY <1>1, BeginsNext
  <2>5. Begin => ~ApplyCommit
    BY BeginFacts, CommitFacts DEF Looping
  <2> QED BY <2>1, <2>2, <2>3, <2>4, <2>5
<1>2. ASSUME run'.pc = "refresh" PROVE run'.metric >= status'[Holder'.arg].seq + 1
  <2>1. Holder' = Holder /\ ~ApplyCommit
    BY <1>2, RefreshHeld
  <2>2. CASE run' = run /\ run.pc = "refresh"
    <3>1. Holder.arg \in Known
      BY <2>2 DEF Base, Queue
    <3>2. status'[Holder.arg].seq = status[Holder.arg].seq
      BY <2>1, <3>1, OrderSteps, SeqStays
    <3> QED BY <2>1, <2>2, <3>2 DEF Metrics
  <2>3. CASE /\ status' = status /\ Holder.arg \in Known
             /\ run'.metric = Metric(Holder.arg, TRUE)
    <3>1. Metric(Holder.arg, TRUE) >= status[Holder.arg].seq + 1
      BY <1>t, <2>3 DEF Metric
    <3> QED BY <2>1, <2>3, <3>1
  <2> QED BY <1>2, <2>2, <2>3, RefreshHeld
<1> QED BY <1>0, <1>1, <1>2 DEF Metrics

-----------------------------------------------------------------------------
(* primary_standby: the active WAN's route is the best one                 *)

\* refreshGlobalIntfRoutes() is about to write a metric that agrees with the
\* choice,
RefreshMetric ==
  run.pc = "refresh" =>
    \A f \in FirstReady :
      /\ Holder.arg = f => run.metric = status[f].seq + 1
      /\ status[Holder.arg].seq < status[f].seq => run.metric >= status[Holder.arg].seq + 101

\* the metrics agree with it,
Cheapest ==
  \A f \in FirstReady :
    /\ route[4][f] \in {0, status[f].seq + 1}
    /\ \A v \in Known : status[v].seq < status[f].seq => Behind(v, 101)

\* and so do those that a loop has made.
CheapestPast ==
  \A v \in Past :
    /\ v = run.current => route[4][v] \in {0, status[v].seq + 1}
    /\ v # run.current /\ (run.current = None \/ status[v].seq < status[run.current].seq) =>
         Behind(v, 101)

CheapInv ==
  Returning /\ "carrier" \notin Kinds /\ ~Due /\ Standby =>
    /\ RefreshMetric
    /\ ~Full => Cheapest
    /\ Full => CheapestPast

\* While no other choice is due the first ready WAN stays the same.
LEMMA FirstStays ==
  ASSUME Base, LoopInv, Returning, [Next]_vars, ~Due', conf' = conf, Standby, Chosen
  PROVE  FirstReady' = FirstReady
<1> USE DEF env, leaves
<1>a. ASSUME status' = status PROVE FirstReady' = FirstReady
  BY <1>a, FlagsStay, FirstSame
<1>1. CASE Turn
  <2>1. \A v \in Known : status'[v].seq = status[v].seq
    BY <1>1, TurnUse, SeqStays DEF Next, System
  <2> QED BY <1>1, <2>1, TurnActive, FirstSame
<1>2. CASE TurnWrite
  <2>1. \A v \in Known : status'[v].seq = status[v].seq
    BY <1>2, TurnWriteLeaves, SeqStays DEF Next, System
  <2> QED BY <1>2, <2>1, TurnWriteLeaves, FirstSame
<1>3. CASE End
  BY <1>3, EndLeaves, FirstSame
<1>4. CASE ApplyCommit
  BY <1>4, CommitFacts DEF Due, Looping
<1>5. ASSUME NEW w \in setup.wans, NEW b \in BOOLEAN, Check(w, b) PROVE FirstReady' = FirstReady
  <2>1. ~timer' /\ Active(status') = Active(status)
    BY <1>5, CheckLeaves DEF Due
  <2>2. Chosen'
    BY <1>5, <2>1, ChoiceCheck
  <2> QED BY <2>1, <2>2 DEF Chosen, Standby
<1>6. CASE Begin \/ TurnRead \/ Flush \/ Between \/ Aside
  <2>1. CASE Begin \/ TurnRead \/ Flush
    BY <1>a, <2>1 DEF Begin, TurnRead, Flush
  <2>2. CASE Between
    BY <1>a, <2>2, BetweenFacts
  <2>3. CASE Aside
    <3>1. status' = status
      BY <2>3, AsideFacts
    <3> QED BY <1>a, <3>1
  <2> QED BY <1>6, <2>1, <2>2, <2>3
<1>7. ASSUME NEW b \in BOOLEAN, Notified(b) PROVE status' = status
  BY <1>7 DEF Notified
<1>8. ASSUME NEW w, NEW s, DeviceChange(w, s) PROVE status' = status
  BY <1>8 DEF DeviceChange
<1>9. CASE UNCHANGED vars
  BY <1>9, <1>a DEF vars
<1> QED BY <1>a, <1>1, <1>2, <1>3, <1>4, <1>5, <1>6, <1>7, <1>8, <1>9
        DEF Next, System, Environment, Aside, Between

\* A turn gives the WAN it finds the metric of its rank, and one that is not
\* ready a metric with the penalty.
LEMMA CheapTurn ==
  ASSUME Base, LoopInv, DeviceInv, Turn, Standby, 4 \in Holder.af, "carrier" \notin Kinds,
         CheapestPast
  PROVE  CheapestPast'
<1> DEFINE w == Head(run.todo)
           act == status[w].ready /\ run.current = None
<1>1. /\ w \in Known /\ w \in Wan /\ w # None /\ w \notin Past /\ Past' = Past \cup {w}
      /\ run'.current = (IF act THEN w ELSE run.current) /\ status[w].seq = Done
      /\ Order' = Order
  BY TurnUse, TodoFacts, SetupAssumption
<1>2. \A v \in Known : status'[v].seq = status[v].seq
  BY <1>1, SeqStays DEF Next, System
<1>3. \A v \in Wan : route'[4][v] = IF v = w /\ HasGateway(w) THEN Metric(w, Linked(w))
                                                              ELSE route[4][v]
  BY TurnRoutes DEF Families
<1>4. ~HasGateway(w) => route[4][w] = 0
  BY <1>1 DEF HasGateway, DeviceInv, Families
<1>5. HasGateway(w) => Linked(w)
  <2>1. hw[w] \in {"gone", "down", "up"} /\ hw[w] # "down"
    BY <1>1 DEF Base, Types, DeviceInv
  <2> QED BY <2>1 DEF HasGateway, Linked
<1>6. status[w].seq \in Nat /\ (w \in Ready(status) <=> status[w].ready) /\ Done \in Int
      /\ \A v \in Past : v \in Known /\ v \in Wan /\ status[v].seq \in Nat /\ status[v].seq < Done
  BY <1>1, FirstFacts, OrderFacts DEF Past
<1>7. run.current # None => run.current \in Past
  BY TurnUse DEF LoopInv
<1>8. status[w].ready => Metric(w, TRUE) = status[w].seq + 1
  BY <1>6 DEF Metric
<1>9. ~status[w].ready => Metric(w, TRUE) = status[w].seq + 101
  BY <1>6 DEF Metric
<1>10. act => status[w].ready /\ run.current = None
  OBVIOUS
<1>11. ~act => run.current # None \/ ~status[w].ready
  OBVIOUS
<1> HIDE DEF w, act
<1>12. ASSUME NEW v \in Past'
       PROVE  /\ v = run'.current => route'[4][v] \in {0, status'[v].seq + 1}
              /\ v # run'.current
                   /\ (run'.current = None \/ status'[v].seq < status'[run'.current].seq) =>
                   Behind(v, 101)'
  <2>1. CASE v = w
    <3>1. status'[v].seq = status[v].seq
      BY <1>1, <1>2, <2>1
    <3>2. CASE act
      <4>1. route'[4][v] = 0 \/ route'[4][v] = status[v].seq + 1
        BY <1>1, <1>3, <1>4, <1>5, <1>8, <1>10, <2>1, <3>2
      <4> QED BY <1>1, <2>1, <3>1, <3>2, <4>1
    <3>3. CASE ~act /\ run.current # None
      <4>1. run'.current = run.current /\ run.current \in Past /\ v # run.current
        BY <1>1, <1>7, <2>1, <3>3
      <4>2. ~(status[v].seq < status[run.current].seq) /\ run.current \in Known
        BY <1>1, <1>6, <2>1, <4>1
      <4> QED BY <1>2, <3>1, <3>3, <4>1, <4>2
    <3>4. CASE ~act /\ run.current = None
      <4>1. ~status[w].ready /\ run'.current = None
        BY <1>1, <1>11, <3>4
      <4>2. route'[4][v] = 0 \/ route'[4][v] = status[v].seq + 101
        BY <1>1, <1>3, <1>4, <1>5, <1>9, <2>1, <4>1
      <4>3. Behind(v, 101)'
        BY <1>6, <2>1, <3>1, <4>2 DEF Behind
      <4> QED BY <1>1, <2>1, <4>1, <4>3
    <3> QED BY <3>2, <3>3, <3>4
  <2>2. CASE v \in Past
    <3>1. v # w /\ v \in Known /\ route'[4][v] = route[4][v] /\ status'[v].seq = status[v].seq
      BY <1>1, <1>2, <1>3, <1>6, <2>2
    <3>2. Behind(v, 101) => Behind(v, 101)'
      BY <3>1 DEF Behind
    <3>3. CASE act
      <4>1. run.current = None /\ v # run.current
        BY <1>6, <1>10, <2>2, <3>3, FirstFacts
      <4> QED BY <1>1, <2>2, <3>1, <3>2, <3>3, <4>1 DEF CheapestPast
    <3>4. CASE ~act
      <4>1. run'.current = run.current
        BY <1>1, <3>4
      <4>2. run.current # None => status'[run.current].seq = status[run.current].seq
        BY <1>2, <1>6, <1>7
      <4> QED BY <2>2, <3>1, <3>2, <4>1, <4>2 DEF CheapestPast
    <3> QED BY <3>3, <3>4
  <2> QED BY <1>1, <2>1, <2>2
<1> QED BY <1>12 DEF CheapestPast

\* Steps that only take routes leave the metrics right.
LEMMA CheapestStays ==
  ASSUME Base, [Next]_vars, Order' = Order, \A v \in Wan : route'[4][v] \in {0, route[4][v]}
  PROVE  /\ FirstReady' = FirstReady /\ Cheapest => Cheapest'
         /\ Past' = Past /\ run' = run /\ LoopInv /\ Failover /\ Looping /\ CheapestPast =>
              CheapestPast'
<1>1. Known' = Known /\ \A v \in Known : status'[v].seq = status[v].seq
  BY SeqStays
<1>2. \A v \in Known : v \in Wan
  BY OrderFacts
<1>3. \A v \in Known : \A n : Behind(v, n) => Behind(v, n)'
  BY <1>1, <1>2 DEF Behind
<1>4. FirstReady \subseteq Known /\ Past \subseteq Known
  BY FirstFacts DEF FirstReady, Past
<1>5. ASSUME FirstReady' = FirstReady, Cheapest PROVE Cheapest'
  <2>1. ASSUME NEW f \in FirstReady
        PROVE  /\ route'[4][f] \in {0, status'[f].seq + 1}
               /\ \A v \in Known' : status'[v].seq < status'[f].seq => Behind(v, 101)'
    <3>1. f \in Known /\ f \in Wan /\ status'[f].seq = status[f].seq
      BY <1>1, <1>2, <1>4
    <3>2. route[4][f] \in {0, status[f].seq + 1}
          /\ \A v \in Known : status[v].seq < status[f].seq => Behind(v, 101)
      BY <1>5 DEF Cheapest
    <3> QED BY <1>1, <1>3, <3>1, <3>2
  <2> QED BY <1>5, <2>1 DEF Cheapest
<1>6. ASSUME Past' = Past, run' = run, LoopInv, Failover, Looping, CheapestPast
      PROVE  CheapestPast'
  <2>1. run.current # None => run.current \in Known
    BY <1>4, <1>6 DEF LoopInv
  <2>2. ASSUME NEW v \in Past
        PROVE  /\ v = run.current => route'[4][v] \in {0, status'[v].seq + 1}
               /\ v # run.current /\ (run.current = None \/ status'[v].seq < status'[run.current].seq) =>
                    Behind(v, 101)'
    <3>1. v \in Known /\ v \in Wan /\ status'[v].seq = status[v].seq
      BY <1>1, <1>2, <1>4
    <3>2. run.current # None => status'[run.current].seq = status[run.current].seq
      BY <1>1, <2>1
    <3> QED BY <1>3, <1>6, <3>1, <3>2 DEF CheapestPast
  <2> QED BY <1>6, <2>2 DEF CheapestPast
<1> QED BY <1>5, <1>6

\* refreshGlobalIntfRoutes() computes a metric that agrees with the choice,
\* which stays while the job holds the lock.
LEMMA RefreshKeep ==
  ASSUME Base, LoopInv, ChoiceInv, CheapInv, [Next]_vars,
         Returning, "carrier" \notin Kinds, ~Due', Standby, conf' = conf
  PROVE  RefreshMetric'
<1> SUFFICES ASSUME run'.pc = "refresh" PROVE RefreshMetric'
  BY DEF RefreshMetric
<1>1. Holder' = Holder /\ ~ApplyCommit
  BY RefreshHeld
<1>2. Known' = Known /\ \A v \in Known : status'[v].seq = status[v].seq
  BY <1>1, OrderSteps, SeqStays
<1>3. FirstReady \subseteq Known
  BY FirstFacts DEF FirstReady
<1>4. CASE run' = run /\ run.pc = "refresh"
  <2>1. ~Full /\ ~Begin
    BY <1>4, BeginFacts DEF Full, Looping
  <2>2. ~Due
    BY <2>1, DueBefore
  <2>3. Chosen /\ RefreshMetric
    BY <2>1, <2>2 DEF ChoiceInv, CheapInv
  <2>4. FirstReady' = FirstReady
    BY <2>3, FirstStays
  <2>5. Holder.arg \in Known
    BY <1>4 DEF Base, Queue
  <2> QED BY <1>1, <1>2, <1>3, <1>4, <2>3, <2>4, <2>5 DEF RefreshMetric
<1>5. CASE status' = status /\ Holder.arg \in Known /\ run'.metric = Metric(Holder.arg, TRUE)
  <2>1. FirstReady' = FirstReady
    BY <1>2, <1>5, FlagsStay, FirstSame
  <2> DEFINE u == Holder.arg
  <2>2. u \in Known /\ status[u].seq \in Nat /\ (u \in Ready(status) <=> status[u].ready)
        /\ run'.metric = Metric(u, TRUE)
    BY <1>5, FirstFacts
  <2> HIDE DEF u
  <2>3. ASSUME NEW f \in FirstReady
        PROVE  /\ u = f => run'.metric = status[f].seq + 1
               /\ status[u].seq < status[f].seq => run'.metric >= status[u].seq + 101
    <3>1. f \in Ready(status) /\ f \in Known /\ status[f].seq \in Nat
          /\ \A v \in Ready(status) : status[f].seq =< status[v].seq
      BY FirstFacts DEF FirstReady
    <3>2. CASE u = f
      <4>1. status[u].ready
        BY <2>2, <3>1, <3>2
      <4> QED BY <2>2, <3>1, <3>2, <4>1 DEF Metric
    <3>3. CASE status[u].seq < status[f].seq
      <4>1. ~status[u].ready
        BY <2>2, <3>1, <3>3
      <4> QED BY <2>2, <3>1, <3>3, <4>1 DEF Metric
    <3> QED BY <3>2, <3>3
  <2>4. Holder'.arg = u /\ status' = status
    BY <1>1, <1>5 DEF u
  <2> QED BY <2>1, <2>3, <2>4 DEF RefreshMetric
<1> QED BY <1>4, <1>5, RefreshHeld

\* The route it writes then agrees with the others.
LEMMA CheapWrite ==
  ASSUME Base, RefreshWrite, FirstReady' = FirstReady, RefreshMetric, Cheapest
  PROVE  Cheapest'
<1> DEFINE u == Holder.arg
<1>1. /\ run.pc = "refresh" /\ u \in Known
      /\ \A v \in Wan : route'[4][v] = IF v = u /\ HasGateway(v) THEN run.metric ELSE route[4][v]
  BY RefreshRoutes DEF Families
<1>2. status' = status /\ Known' = Known
  BY BetweenFacts DEF Between
<1>3. \A f \in FirstReady :
        /\ u = f => run.metric = status[f].seq + 1
        /\ status[u].seq < status[f].seq => run.metric >= status[u].seq + 101
  BY <1>1 DEF RefreshMetric
<1> HIDE DEF u
<1>4. ASSUME NEW f \in FirstReady
      PROVE  /\ route'[4][f] \in {0, status'[f].seq + 1}
             /\ \A v \in Known : status[v].seq < status[f].seq => Behind(v, 101)'
  <2>1. f \in Wan /\ f \in Known
    BY FirstFacts, OrderFacts DEF FirstReady
  <2>2. route[4][f] \in {0, status[f].seq + 1}
        /\ \A v \in Known : status[v].seq < status[f].seq => Behind(v, 101)
    BY DEF Cheapest
  <2>3. route'[4][f] \in {0, status[f].seq + 1}
    BY <1>1, <1>3, <2>1, <2>2
  <2>4. ASSUME NEW v \in Known, status[v].seq < status[f].seq PROVE Behind(v, 101)'
    <3>1. v \in Wan
      BY OrderFacts
    <3>2. route'[4][v] = route[4][v] \/ (v = u /\ route'[4][v] = run.metric)
      BY <1>1, <3>1
    <3>3. v = u => run.metric >= status[v].seq + 101
      BY <1>3, <2>4
    <3> QED BY <1>2, <2>2, <2>4, <3>2, <3>3 DEF Behind
  <2> QED BY <1>2, <2>3, <2>4
<1> QED BY <1>2, <1>4 DEF Cheapest

\* At the end of the loop that has made the routes they are right.
LEMMA CheapEnd ==
  ASSUME Base, LoopInv, End, Standby, ChosenPast, CheapestPast, FirstReady' = FirstReady,
         \A v \in Wan : route'[4][v] \in {0, route[4][v]}
  PROVE  Cheapest'
<1>1. /\ Past = Known /\ Known' = Known /\ Order' = Order
      /\ \A v \in Known : status'[v].seq = status[v].seq
  BY EndLeaves
<1>2. \A v \in Known : v \in Wan
  BY OrderFacts
<1>3. ASSUME NEW f \in FirstReady
      PROVE  /\ route[4][f] \in {0, status[f].seq + 1}
             /\ \A v \in Known : status[v].seq < status[f].seq => Behind(v, 101)
  <2>1. f \in Ready(status) /\ f \in Known /\ status[f].seq \in Nat
        /\ \A v \in Ready(status) : status[f].seq =< status[v].seq
    BY FirstFacts DEF FirstReady
  <2>2. run.current # None /\ status[run.current].seq =< status[f].seq
        /\ run.current \in Ready(status)
    BY <1>1, <2>1 DEF ChosenPast
  <2>3. run.current = f
    <3>1. run.current \in Known /\ status[run.current].seq \in Nat
      BY <2>2, FirstFacts
    <3>2. status[run.current].seq = status[f].seq
      BY <2>1, <2>2, <3>1
    <3> QED BY <2>1, <3>1, <3>2, FirstFacts
  <2>4. route[4][f] \in {0, status[f].seq + 1}
    BY <1>1, <2>1, <2>3 DEF CheapestPast
  <2>5. ASSUME NEW v \in Known, status[v].seq < status[f].seq PROVE Behind(v, 101)
    <3>1. v # f
      BY <2>1, <2>5
    <3> QED BY <1>1, <2>3, <2>5, <3>1 DEF CheapestPast
  <2> QED BY <2>4, <2>5
<1>4. Cheapest
  BY <1>3 DEF Cheapest
<1>5. Cheapest'
  BY <1>1, <1>4, CheapestStays DEF Next, System
<1> QED BY <1>5

\* The metrics agree with the choice, or a loop is to make them agree.
LEMMA CheapKeep ==
  ASSUME Base, LoopInv, DeviceInv, ChoiceInv, CheapInv, [Next]_vars
  PROVE  CheapInv'
<1> USE DEF env, leaves
<1>0. setup' = setup /\ (conf' = conf \/ Flush)
  BY ConfStays
<1> SUFFICES ASSUME Returning', "carrier" \notin Kinds', ~Due', Standby'
             PROVE  RefreshMetric' /\ (~Full' => Cheapest') /\ (Full' => CheapestPast')
  BY DEF CheapInv
<1>c. ~Flush /\ ~ApplyCommit
  <2>1. ~Flush
    BY DEF Flush, Due
  <2> QED BY <2>1, CommitFacts DEF Due, Looping
<1>r. Returning /\ "carrier" \notin Kinds /\ Standby /\ Failover /\ conf' = conf
  BY <1>0, <1>c DEF Returning, Kinds, Standby, Failover
<1>o. Order' = Order
  BY <1>c, OrderSteps
<1>m. RefreshMetric'
  BY <1>r, RefreshKeep
<1> SUFFICES (~Full' => Cheapest') /\ (Full' => CheapestPast')
  BY <1>m
<1>d. ~Begin => /\ ~Due /\ (~Full => Chosen /\ Cheapest)
                /\ (Full => CheapestPast) /\ (Looping => ChosenPast) /\ RefreshMetric
  BY <1>r, DueBefore DEF ChoiceInv, CheapInv
<1>k. \/ (~Full => Cheapest) /\ (Full => CheapestPast)
      \/ Begin /\ 4 \in Holder.af
  BY <1>r, DueBefore DEF CheapInv
<1>f. ~Begin /\ ~Full => FirstReady' = FirstReady
  BY <1>d, <1>r, FirstStays
<1>a. ASSUME ~Begin, \A v \in Wan : route'[4][v] \in {0, route[4][v]}, run' = run,
             jobs' = jobs \/ \E j \in Jobs : jobs' = Append(jobs, j),
             Past' = Past
      PROVE  (~Full' => Cheapest') /\ (Full' => CheapestPast')
  <2>1. Full' = Full
    BY <1>a, FullStays
  <2>2. Full => Looping
    BY DEF Full
  <2> QED BY <1>a, <1>d, <1>f, <1>o, <1>r, <2>1, <2>2, CheapestStays
<1>b. run' = run => ~Begin
  BY BeginFacts DEF Looping
<1>p. status' = status /\ run' = run => Past' = Past
  BY FlagsStay
<1>n. route' = route => \A v \in Wan : route'[4][v] \in {0, route[4][v]}
  OBVIOUS
<1>t. Takes => \A v \in Wan : route'[4][v] \in {0, route[4][v]}
  BY TakesFacts DEF Families
<1>1. CASE Begin
  <2>1. Past' = {} /\ status' = status /\ jobs' = jobs /\ run'.pc = "loop" /\ ~Looping
    BY <1>1, BeginFacts, BeginRoutes DEF Looping
  <2>2. CASE 4 \in Holder.af
    <3>1. Full'
      BY <2>1, <2>2 DEF Full, Looping, Holder
    <3> QED BY <2>1, <3>1 DEF CheapestPast
  <2>3. CASE 4 \notin Holder.af
    <3>1. ~Full' /\ ~Full
      BY <2>1, <2>3 DEF Full, Looping, Holder
    <3>2. Cheapest
      BY <1>k, <2>3, <3>1
    <3>3. FirstReady' = FirstReady
      BY <1>o, <2>1, FlagsStay, FirstSame
    <3>4. Cheapest'
      BY <1>1, <1>o, <1>t, <3>2, <3>3, CheapestStays DEF Takes
    <3> QED BY <3>1, <3>4
  <2> QED BY <2>2, <2>3
<1>2. CASE Turn
  <2>1. Looping /\ run'.pc = "loop" /\ jobs' = jobs /\ ~Begin
    BY <1>2, TurnUse, TurnRoutes, BeginFacts DEF Looping
  <2>2. Full' = Full
    BY <2>1 DEF Full, Looping, Holder
  <2>3. CASE Full
    <3>1. 4 \in Holder.af /\ CheapestPast
      BY <1>d, <2>1, <2>3 DEF Full
    <3> QED BY <1>2, <1>r, <2>2, <2>3, <3>1, CheapTurn
  <2>4. CASE ~Full
    <3>1. 4 \notin Holder.af
      BY <2>1, <2>4 DEF Full
    <3>2. \A v \in Wan : route'[4][v] = route[4][v]
      BY <1>2, <3>1, TurnRoutes DEF Families
    <3>3. Cheapest'
      BY <1>d, <1>f, <1>o, <2>1, <2>4, <3>2, CheapestStays
    <3> QED BY <2>2, <2>4, <3>3
  <2> QED BY <2>3, <2>4
<1>3. CASE TurnRead \/ TurnWrite
  BY <1>3, <1>r DEF TurnRead, TurnWrite
<1>4. CASE End
  <2>1. Looping /\ run'.pc = "idle" /\ ~Begin /\ ~Full'
    BY <1>4, EndLeaves, BeginFacts DEF Looping, Full
  <2>2. \A v \in Wan : route'[4][v] \in {0, route[4][v]}
    BY <1>4, <1>t DEF Takes
  <2>3. FirstReady' = FirstReady
    BY <1>4, EndLeaves, FirstSame
  <2>4. Full => Cheapest'
    BY <1>4, <1>d, <1>r, <2>1, <2>2, <2>3, CheapEnd
  <2>5. ~Full => Cheapest'
    BY <1>d, <1>o, <2>1, <2>2, <2>3, CheapestStays
  <2> QED BY <2>1, <2>4, <2>5
<1>5. CASE Aside
  <2>1. /\ status' = status /\ run' = run /\ route' = route
        /\ \E j \in Jobs : jobs' = Append(jobs, j)
    BY <1>5, AsideFacts
  <2> QED BY <1>a, <1>b, <1>n, <1>p, <2>1
<1>6. CASE Between
  <2>1. ~Looping /\ ~Looping' /\ ~Begin
    BY <1>6, BetweenFacts, BeginFacts DEF Looping
  <2>2. ~Full /\ ~Full' /\ Cheapest /\ FirstReady' = FirstReady
    BY <1>d, <1>f, <2>1 DEF Full
  <2>3. CASE RefreshWrite
    BY <1>d, <2>1, <2>2, <2>3, CheapWrite
  <2>4. CASE ~RefreshWrite
    <3>1. Takes \/ route' = route
      BY <1>6, <2>4 DEF Between, RefreshRead, ApplyStart, ApplyBuild, Takes
    <3>2. \A v \in Wan : route'[4][v] \in {0, route[4][v]}
      BY <1>n, <1>t, <3>1
    <3> QED BY <1>o, <2>2, <3>2, CheapestStays
  <2> QED BY <2>3, <2>4
<1>7. ASSUME NEW b \in BOOLEAN, Notified(b)
      PROVE  (~Full' => Cheapest') /\ (Full' => CheapestPast')
  <2>1. status' = status /\ run' = run /\ route' = route /\ jobs' = jobs
    BY <1>7 DEF Notified
  <2> QED BY <1>a, <1>b, <1>n, <1>p, <2>1
<1>8. ASSUME NEW w \in setup.wans, NEW s \in {"gone", "down", "up"}, DeviceChange(w, s)
      PROVE  (~Full' => Cheapest') /\ (Full' => CheapestPast')
  <2>1. status' = status /\ run' = run /\ jobs' = jobs
    BY <1>8 DEF DeviceChange
  <2> QED BY <1>8, <1>a, <1>b, <1>p, <1>t, <2>1 DEF Takes
<1>9. ASSUME NEW w \in setup.wans, NEW b \in BOOLEAN, Check(w, b)
      PROVE  (~Full' => Cheapest') /\ (Full' => CheapestPast')
  BY <1>9, <1>a, <1>b, <1>n, CheckLeaves
<1>10. CASE UNCHANGED vars
  <2>1. status' = status /\ run' = run /\ route' = route /\ jobs' = jobs
    BY <1>10 DEF vars
  <2> QED BY <1>a, <1>b, <1>n, <1>p, <2>1
<1> QED BY <1>c, <1>1, <1>2, <1>3, <1>4, <1>5, <1>6, <1>7, <1>8, <1>9, <1>10
        DEF Next, System, Environment, Aside, Between

-----------------------------------------------------------------------------
(* load_balance: the active WANs are in the multipath route                *)

HopsInv ==
  Returning /\ "hotplug" \notin Kinds /\ ~Due /\ ~Failover =>
    /\ ~Full => /\ Active(status) \subseteq multi[4]
                /\ Looping /\ run.read # None /\ run.read = TRUE =>
                     Head(run.todo) \in Active(status)
    /\ Full => Active(status) \cap Past \subseteq run.hops

\* A loop collects the WANs it makes active, and its end makes the route.
LEMMA HopsKeep ==
  ASSUME Base, LoopInv, DeviceInv, ChoiceInv, HopsInv, [Next]_vars
  PROVE  HopsInv'
<1> USE DEF env, leaves
<1> DEFINE Rest == /\ Active(status) \subseteq multi[4]
                   /\ Looping /\ run.read # None /\ run.read = TRUE =>
                        Head(run.todo) \in Active(status)
           Way == Active(status) \cap Past \subseteq run.hops
<1>0. setup' = setup /\ (conf' = conf \/ Flush)
  BY ConfStays
<1> SUFFICES ASSUME Returning', "hotplug" \notin Kinds', ~Due', ~Failover'
             PROVE  (~Full' => Rest') /\ (Full' => Way')
  BY DEF HopsInv
<1>c. ~Flush /\ ~ApplyCommit
  <2>1. ~Flush
    BY DEF Flush, Due
  <2> QED BY <2>1, CommitFacts DEF Due, Looping
<1>r. Returning /\ "hotplug" \notin Kinds /\ ~Standby /\ ~Failover /\ conf' = conf
  BY <1>0, <1>c DEF Returning, Kinds, Standby, Failover
<1>d. ~Begin => (~Full => Chosen /\ Rest) /\ (Full => Way)
  BY <1>r, DueBefore DEF ChoiceInv, HopsInv
<1>k. (~Full => Rest) \/ (Begin /\ 4 \in Holder.af)
  BY <1>r, DueBefore DEF HopsInv
<1>a. ASSUME run' = run, jobs' = jobs \/ \E j \in Jobs : jobs' = Append(jobs, j),
             Active(status') = Active(status), Past' = Past, multi'[4] = multi[4]
      PROVE  (~Full' => Rest') /\ (Full' => Way')
  <2>1. Full' = Full /\ Looping' = Looping
    BY <1>a, FullStays DEF Looping
  <2>2. ~Begin
    BY <1>a, BeginFacts DEF Looping
  <2>3. Rest => Rest'
    BY <1>a, <2>1
  <2>4. Way => Way'
    BY <1>a
  <2> QED BY <1>d, <2>1, <2>2, <2>3, <2>4
<1>s. ASSUME status' = status, run' = run, multi' = multi,
             jobs' = jobs \/ \E j \in Jobs : jobs' = Append(jobs, j)
      PROVE  (~Full' => Rest') /\ (Full' => Way')
  BY <1>a, <1>s, FlagsStay
<1>1. CASE Begin
  <2>1. /\ Past' = {} /\ status' = status /\ jobs' = jobs /\ run'.pc = "loop" /\ ~Looping
        /\ run'.read = None /\ Active(status') = Active(status)
    BY <1>1, BeginFacts, BeginRoutes, FlagsStay DEF Looping
  <2>2. CASE 4 \in Holder.af
    <3>1. Full' /\ Way'
      BY <2>1, <2>2 DEF Full, Looping, Holder
    <3> QED BY <3>1
  <2>3. CASE 4 \notin Holder.af
    <3>1. ~Full' /\ ~Full
      BY <2>1, <2>3 DEF Full, Looping, Holder
    <3>2. Active(status) \subseteq multi[4]
      BY <1>k, <2>3, <3>1
    <3>3. multi'[4] = multi[4]
      BY <1>1, <2>3 DEF Begin, Families
    <3> QED BY <2>1, <3>1, <3>2, <3>3
  <2> QED BY <2>2, <2>3
<1>2. CASE Turn
  BY <1>2, <1>r DEF Turn
<1>3. CASE TurnRead
  <2>1. /\ Looping /\ run'.pc = "loop" /\ Past' = Past /\ status' = status
        /\ run'.read = status[Head(run.todo)].ready /\ run'.hops = run.hops
        /\ run'.todo = run.todo /\ run.todo # <<>> /\ jobs' = jobs /\ ~Begin /\ multi' = multi
    BY <1>3, TurnReadLeaves, BeginFacts DEF Looping, TurnRead
  <2>2. Full' = Full /\ Active(status') = Active(status)
    BY <2>1, FlagsStay DEF Full, Looping, Holder
  <2>3. ASSUME ~Full PROVE Rest'
    <3>1. Ready(status) \subseteq Active(status) /\ Active(status) \subseteq multi[4]
      BY <1>d, <1>r, <2>1, <2>3 DEF Chosen
    <3>2. run'.read = TRUE => Head(run'.todo) \in Active(status)
      BY <2>1, <3>1, TodoFacts, FirstFacts
    <3> QED BY <2>1, <2>2, <3>1, <3>2
  <2>4. Full => Way'
    BY <1>d, <2>1, <2>2
  <2> QED BY <2>2, <2>3, <2>4
<1>4. CASE TurnWrite
  <2> DEFINE w == Head(run.todo)
  <2>1. /\ Looping /\ run'.pc = "loop" /\ Past' = Past \cup {w} /\ w \in Wan
        /\ run.read \in BOOLEAN /\ run.read # None /\ run'.read = None
        /\ run'.hops = IF run.read /\ HasGateway(w) THEN run.hops \cup {w} ELSE run.hops
        /\ Active(status') = IF run.read THEN Active(status) \cup {w} ELSE Active(status) \ {w}
        /\ jobs' = jobs /\ ~Begin /\ multi' = multi
    BY <1>4, TurnWriteLeaves, TurnWriteRoutes, BeginFacts DEF Looping, TurnWrite
  <2>2. Full' = Full
    BY <2>1 DEF Full, Looping, Holder
  <2>3. HasGateway(w)
    BY <1>r, <2>1 DEF HasGateway, DeviceInv
  <2>4. ASSUME ~Full PROVE Rest'
    <3>1. Active(status) \subseteq multi[4] /\ (run.read => w \in Active(status))
      BY <1>d, <2>1, <2>4
    <3> HIDE DEF w
    <3>2. Active(status') \subseteq multi[4]
      BY <2>1, <3>1
    <3> QED BY <2>1, <3>2
  <2>5. ASSUME Full PROVE Way'
    <3>1. Active(status) \cap Past \subseteq run.hops
      BY <1>d, <2>1, <2>5
    <3> HIDE DEF w
    <3>2. Active(status') \cap Past' \subseteq run'.hops
      BY <2>1, <2>3, <3>1
    <3> QED BY <3>2
  <2> QED BY <2>2, <2>4, <2>5
<1>5. CASE End
  <2>1. /\ Looping /\ run'.pc = "idle" /\ ~Begin /\ ~Full' /\ ~Looping' /\ Past = Known
        /\ Active(status') = Active(status) /\ Active(status) \subseteq Known
    BY <1>5, EndLeaves, BeginFacts, FirstFacts DEF Looping, Full
  <2>2. multi'[4] = IF 4 \in Holder.af /\ run.hops # {} THEN run.hops ELSE multi[4]
    BY <1>5 DEF End, Families
  <2>3. Full => Active(status) \subseteq run.hops
    BY <1>d, <2>1
  <2>4. ~Full => Active(status) \subseteq multi[4]
    BY <1>d, <2>1
  <2>5. Full <=> 4 \in Holder.af
    BY <2>1 DEF Full
  <2>6. Active(status') \subseteq multi'[4]
    BY <2>1, <2>2, <2>3, <2>4, <2>5
  <2> QED BY <2>1, <2>6
<1>6. CASE Aside
  <2>1. /\ status' = status /\ run' = run /\ multi' = multi
        /\ \E j \in Jobs : jobs' = Append(jobs, j)
    BY <1>6, AsideFacts
  <2> QED BY <1>s, <2>1
<1>7. CASE Between
  <2>1. ~Looping /\ ~Looping' /\ ~Begin /\ status' = status
    BY <1>7, BetweenFacts, BeginFacts DEF Looping
  <2>2. ~Full /\ ~Full' /\ Active(status) \subseteq multi[4] /\ Active(status') = Active(status)
    BY <1>d, <2>1, FlagsStay DEF Full
  <2>3. multi'[4] = multi[4]
    <3>1. multi \in [Families -> SUBSET Wan] /\ 4 \in Families
      BY DEF Base, Types, Families
    <3> QED BY <1>7, <3>1
         DEF Between, RefreshRead, RefreshWrite, ApplyStart, ApplyBuild, Flush6
  <2> QED BY <2>1, <2>2, <2>3
<1>8. ASSUME NEW b \in BOOLEAN, Notified(b)
      PROVE  (~Full' => Rest') /\ (Full' => Way')
  BY <1>8, <1>s DEF Notified
<1>9. ASSUME NEW w \in setup.wans, NEW s \in {"gone", "down", "up"}, DeviceChange(w, s)
      PROVE  (~Full' => Rest') /\ (Full' => Way')
  <2>1. s # "gone"
    BY <1>9, <1>r DEF DeviceChange, Happens
  <2> QED BY <1>9, <1>s, <2>1 DEF DeviceChange
<1>10. ASSUME NEW w \in setup.wans, NEW b \in BOOLEAN, Check(w, b)
      PROVE  (~Full' => Rest') /\ (Full' => Way')
  BY <1>10, <1>a, CheckLeaves
<1>11. CASE UNCHANGED vars
  BY <1>11, <1>s DEF vars
<1> QED BY <1>c, <1>1, <1>2, <1>3, <1>4, <1>5, <1>6, <1>7, <1>8, <1>9, <1>10, <1>11
        DEF Next, System, Environment, Aside, Between

-----------------------------------------------------------------------------
(* The traffic follows the active WAN                                      *)

\* A penalty outweighs the ranks.
Few == \A c \in setup.configs : Len(c.order) =< 100

\* At rest the route of an active WAN is the one that is taken.
LEMMA TrafficAtRest ==
  ASSUME Base, Placed, Metrics, ChoiceInv, CheapInv, HopsInv,
         Steady, Returning, Few, Failover \/ "hotplug" \notin Kinds,
         Settled, "carrier" \notin Kinds,
         NEW w \in Active(status), route[4][w] > 0 \/ multi[4] # {}
  PROVE  w \in Preferred(4)
<1>1. run.pc = "idle" /\ ~Full /\ ~Due
  BY DEF Settled, Base, Queue, Full, Looping, Due
<1>2. CASE ~Failover
  <2>1. Active(status) \subseteq multi[4]
    BY <1>1, <1>2 DEF HopsInv
  <2> QED BY <2>1 DEF Preferred
<1>3. CASE Failover
  <2>1. Standby
    BY <1>3, ConfFacts DEF Returning, Failover, Standby, Base, Types
  <2>2. multi[4] = {} /\ route[4][w] > 0
    BY <1>3 DEF Placed, LoopInv, Families
  <2>3. w \in FirstReady /\ Cheapest
    BY <1>1, <2>1 DEF ChoiceInv, Chosen, CheapInv
  <2>4. w \in Known /\ w \in Wan /\ status[w].seq \in Nat
    BY FirstFacts, OrderFacts
  <2>5. route[4][w] = status[w].seq + 1 /\ \A v \in Known : status[v].seq < status[w].seq => Behind(v, 101)
    BY <2>2, <2>3, <2>4 DEF Cheapest
  <2>6. status[w].seq < 100
    <3>1. Order = conf.order
      BY DEF Settled, Base, Ranked, Fresh
    <3>2. Len(conf.order) =< 100
      BY DEF Few, Base, Types
    <3>3. Len(Order) \in Nat /\ status[w].seq \in 0..Len(Order) - 1
      BY <2>4, OrderFacts
    <3> DEFINE n == Len(Order)
    <3>4. n =< 100 /\ n \in Nat /\ status[w].seq \in 0..n - 1
      BY <3>1, <3>2, <3>3
    <3> HIDE DEF n
    <3> QED BY <3>4
  <2>7. ASSUME NEW v \in Wan, route[4][v] > 0 PROVE route[4][w] =< route[4][v]
    <3>1. v \in Known
      BY <1>1, <2>7 DEF Placed, SteadyInv, Via, Families
    <3>2. Behind(v, 1)
      BY <1>1, <3>1 DEF Metrics
    <3>3. status[v].seq \in Nat /\ route[4][v] \in Nat
      <4>1. 4 \in Families /\ route \in [Families -> [Wan -> Nat]]
        BY DEF Base, Types, Families
      <4> QED BY <3>1, <4>1, FirstFacts
    <3>4. CASE status[v].seq < status[w].seq
      <4>1. route[4][v] >= status[v].seq + 101
        BY <2>5, <2>7, <3>1, <3>4 DEF Behind
      <4> QED BY <2>4, <2>5, <2>6, <3>3, <4>1
    <3>5. CASE ~(status[v].seq < status[w].seq)
      <4>1. route[4][v] >= status[v].seq + 1
        BY <2>7, <3>2 DEF Behind
      <4> QED BY <2>4, <2>5, <3>3, <3>5, <4>1
    <3> QED BY <3>4, <3>5
  <2> QED BY <2>2, <2>4, <2>7 DEF Preferred
<1> QED BY <1>2, <1>3

\* What the metrics and the multipath route are, for every box.
LEMMA TrafficAlways == Spec => [](Steady => Metrics) /\ []CheapInv /\ []HopsInv
<1>1. Init => Metrics /\ CheapInv /\ HopsInv
  <2> SUFFICES ASSUME Init PROVE Metrics /\ CheapInv /\ HopsInv
    OBVIOUS
  <2>1. run.pc = "idle" /\ Known = {} /\ Due
    BY IdleRun DEF Init, Known, Due
  <2> QED BY <2>1 DEF Metrics, CheapInv, HopsInv
<1>2. Base /\ Placed /\ (Steady => Metrics) /\ [Next]_vars => (Steady => Metrics)'
  <2> SUFFICES ASSUME Base, Placed, Steady => Metrics, [Next]_vars, Steady' PROVE Metrics'
    OBVIOUS
  <2>1. Steady
    BY ConfStays DEF Steady
  <2> QED BY <2>1, MetricsKeep DEF Placed
<1>3. Base /\ Placed /\ ChoiceInv /\ CheapInv /\ [Next]_vars => CheapInv'
  BY CheapKeep DEF Placed
<1>4. Base /\ Placed /\ ChoiceInv /\ HopsInv /\ [Next]_vars => HopsInv'
  BY HopsKeep DEF Placed
<1>5. Spec => [](Steady => Metrics)
  <2>1. Init => (Steady => Metrics)
    BY <1>1
  <2> QED BY <1>2, <2>1, Invariant, PlacedAlways, PTL DEF Spec
<1>6. Spec => []CheapInv
  BY <1>1, <1>3, Invariant, PlacedAlways, ChoiceAlways, PTL DEF Spec
<1>7. Spec => []HopsInv
  BY <1>1, <1>4, Invariant, PlacedAlways, ChoiceAlways, PTL DEF Spec
<1> QED BY <1>5, <1>6, <1>7

\* At rest IPv4 traffic leaves through the active WAN, for every box that
\* keeps its configuration under smooth failover and whose WANs take their
\* place again when they return: the metrics that the loop and
\* refreshGlobalIntfRoutes() computed at different times agree with the active
\* flags.  In load_balance the devices stay: one that returns is not in the
\* multipath route before the plugin is rebuilt.
THEOREM TrafficFollowsActiveAlways ==
  Spec => [](Steady /\ Returning /\ Few /\ (Failover \/ "hotplug" \notin Kinds)
               => TrafficFollowsActive)
<1>1. Base /\ Placed /\ (Steady => Metrics) /\ ChoiceInv /\ CheapInv /\ HopsInv =>
        (Steady /\ Returning /\ Few /\ (Failover \/ "hotplug" \notin Kinds)
           => TrafficFollowsActive)
  BY TrafficAtRest DEF TrafficFollowsActive
<1> QED BY <1>1, Invariant, PlacedAlways, TrafficAlways, ChoiceAlways, PTL

=============================================================================
