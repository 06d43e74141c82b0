------------------------ MODULE SystemRouting_proofs ------------------------
(***************************************************************************)
(* Proofs about SystemRouting, for any network services, any number of     *)
(* commands, failures, crashes and edits, and any sessions.                *)
(***************************************************************************)
EXTENDS SystemRouting, TLAPS

-----------------------------------------------------------------------------
(* What makes NothingIsLost and ForeignIsLeftAlone inductive.              *)

\* A command whose next step reads or writes the settings for a routing that owns them.
NeedsNetwork(c) ==
  \/ c.pc \in {"enable", "arm", "tighten", "undo"}
  \/ /\ c.pc \in {"switch", "start", "restore", "stop", "save"}
     /\ c.mode = "system" \/ c.verb = "set system" \/ (c.pc = "restore" /\ c.goal = "retry")

NetworkLeaseInv ==
  \A p \in Procs : /\ NeedsNetwork(cmd[p]) => lease["network"] = p
                   /\ cmd[p].goal = "retry" => cmd[p].pc \in {"restore", "undo", "profile"}

\* Only what the snapshot can give back is still to be written, and no endpoint that
\* somebody else took before the command got the network lease is.
TodoInv ==
  \A p \in Procs :
    /\ cmd[p].todo # {} => cmd[p].pc \in {"arm", "tighten", "undo"}
    /\ \A w \in cmd[p].todo :
         /\ w[1] \in Saved
         /\ w[2] # "bypass" /\ endpoint[w[1]][w[2]] = "foreign" => w \in late

RoutingInv == TypeOK /\ NetworkLeaseInv /\ TodoInv /\ NothingIsLost

-----------------------------------------------------------------------------
(* What StopsOnlyWhenDirect needs on top of it.                            *)

\* A command that works on the profile.
Works(c) ==
  \/ c.pc \in {"network", "switch", "start", "enable", "arm", "tighten", "stop", "save"}
  \/ c.pc \in {"restore", "undo"} /\ c.goal # "retry"

\* It has the profile lease, and the profile's routing is the one it knows.
ProfileLeaseInv ==
  \A p \in Procs : Works(cmd[p]) => lease["profile"] = p /\ cmd[p].mode = mode

\* An installation is not repaired and the routing not set in one session.
Apart == ~("repair" \in verbs /\ verbs \cap {"set system", "set explicit"} # {})

VerbInv ==
  \A p \in Procs : cmd[p].pc # "idle" => /\ cmd[p].verb \in verbs
                                         /\ cmd[p].verb = "repair" => cmd[p].mode = mode

\* Behind restore() nothing of the settings is owned any more.
ReleasedInv ==
  \A p \in Procs :
    /\ cmd[p].pc \in {"enable", "arm", "tighten"} => cmd[p].mode = "system"
    /\ cmd[p].pc \in {"stop", "save"} /\ cmd[p].mode = "system" => snapshot = None
    /\ cmd[p].pc = "stop" /\ cmd[p].mode = "system" =>
         \A s \in enabled, k \in Kinds : endpoint[s][k] = "own" => <<s, k>> \in late

ExplicitInv == mode = "explicit" => snapshot = None

StopInv == Apart => ProfileLeaseInv /\ VerbInv /\ ReleasedInv /\ ExplicitInv

-----------------------------------------------------------------------------
(* Constants, types and writes.                                            *)

Values == {"off", "own", "foreign"}
Leased == {"profile", "network"}

LEMMA WriteFacts ==
  ASSUME TypeOK, NEW w \in Work, NEW value \in Values, NEW list \in Lists, Write(w, value, list)
  PROVE  /\ endpoint' \in [Services -> [Kinds -> Values]] /\ bypass' \in [Services -> Lists]
         /\ manual' \subseteq {e \in Endpoints : endpoint'[e[1]][e[2]] = "own"}
         /\ \A s \in Services, k \in Kinds :
              /\ endpoint'[s][k] = IF <<s, k>> = w THEN value ELSE endpoint[s][k]
              /\ <<s, k>> \in manual /\ <<s, k>> # w => <<s, k>> \in manual'
         /\ \A s \in Services : s # w[1] => bypass'[s] = bypass[s]
  <1>1. /\ endpoint \in [Services -> [Kinds -> Values]] /\ bypass \in [Services -> Lists]
        /\ manual \subseteq {e \in Endpoints : endpoint[e[1]][e[2]] = "own"}
    BY DEF TypeOK, Values
  <1>2. PICK s \in Services, k \in Kinds \cup {"bypass"} : w = <<s, k>>
    BY DEF Work, Endpoints
  <1>3. CASE k = "bypass"
    <2>1. bypass' = [bypass EXCEPT ![s] = list] /\ endpoint' = endpoint /\ manual' = manual
      BY <1>2, <1>3 DEF Write
    <2>2. \A other \in Services, kind \in Kinds : <<other, kind>> # w
      BY <1>2, <1>3 DEF Kinds
    <2>3. QED
      BY <1>1, <1>2, <2>1, <2>2
  <1>4. CASE k # "bypass"
    <2>1. /\ endpoint' = [endpoint EXCEPT ![s][k] = value] /\ manual' = manual \ {w} /\ bypass' = bypass
          /\ k \in Kinds
      BY <1>2, <1>4 DEF Write
    <2>2. /\ endpoint' \in [Services -> [Kinds -> Values]]
          /\ \A other \in Services, kind \in Kinds :
               endpoint'[other][kind] = IF other = s /\ kind = k THEN value ELSE endpoint[other][kind]
      BY <1>1, <2>1
    <2>3. \A other \in Services, kind \in Kinds : <<other, kind>> = w <=> other = s /\ kind = k
      BY <1>2
    <2>4. manual' \subseteq {e \in Endpoints : endpoint'[e[1]][e[2]] = "own"}
      <3>1. ASSUME NEW e \in manual'
            PROVE  e \in Endpoints /\ endpoint'[e[1]][e[2]] = "own"
        <4>1. e \in Endpoints /\ e # w /\ endpoint[e[1]][e[2]] = "own"
          BY <1>1, <2>1
        <4>2. PICK other \in Services, kind \in Kinds : e = <<other, kind>>
          BY <4>1 DEF Endpoints
        <4>3. QED
          BY <2>2, <2>3, <4>1, <4>2
      <3>2. QED
        BY <3>1
    <2>5. QED
      BY <1>1, <2>1, <2>2, <2>3, <2>4
  <1>5. QED
    BY <1>3, <1>4

LEMMA SpendFacts ==
  ASSUME TypeOK, NEW what \in {"commands", "failures", "crashes", "edits"}, Spend(what)
  PROVE  spent' \in [commands : 0..MaxCommands, failures : 0..MaxFailures,
                     crashes : 0..MaxCrashes, edits : 0..MaxEdits]
  <1>1. /\ spent \in [commands : 0..MaxCommands, failures : 0..MaxFailures,
                      crashes : 0..MaxCrashes, edits : 0..MaxEdits]
        /\ MaxCommands \in Nat /\ MaxFailures \in Nat /\ MaxCrashes \in Nat /\ MaxEdits \in Nat
    BY RoutingAssumption DEF TypeOK
  <1>2. spent[what] < Limit[what] /\ spent' = [spent EXCEPT ![what] = spent[what] + 1]
    BY DEF Spend
  <1>3. CASE what = "commands"
    BY <1>1, <1>2, <1>3 DEF Limit
  <1>4. CASE what = "failures"
    BY <1>1, <1>2, <1>4 DEF Limit
  <1>5. CASE what = "crashes"
    BY <1>1, <1>2, <1>5 DEF Limit
  <1>6. CASE what = "edits"
    BY <1>1, <1>2, <1>6 DEF Limit
  <1>7. QED
    BY <1>3, <1>4, <1>5, <1>6

-----------------------------------------------------------------------------
(* A step of one command that leaves the settings alone.                   *)

\* p goes on as c; only leases of its own change hands.
Moves(p, c) ==
  /\ c \in Command /\ cmd' = [cmd EXCEPT ![p] = c]
  /\ lease' \in [Leased -> Procs \cup {None}]
  /\ \A l \in Leased : /\ lease[l] \notin {None, p} => lease'[l] = lease[l]
                       /\ lease'[l] \in {lease[l], None, p}
                       /\ lease'[l] = p => c.pc # "idle"
  /\ NeedsNetwork(c) => lease'["network"] = p
  /\ c.goal = "retry" => c.pc \in {"restore", "undo", "profile"}
  /\ late' = late \/ (late' = {} /\ lease["network"] = None)

LEMMA MovesFacts ==
  ASSUME RoutingInv, NEW p \in Procs, NEW c, Moves(p, c)
  PROVE  /\ cmd' \in [Procs -> Command] /\ cmd'[p] = c /\ \A q \in Procs : q # p => cmd'[q] = cmd[q]
         /\ lease' \in [Leased -> {q \in Procs : cmd'[q].pc # "idle"} \cup {None}]
         /\ \A q \in Procs : q # p => \A l \in Leased : lease'[l] = q <=> lease[l] = q
         /\ NetworkLeaseInv' /\ late' \subseteq Endpoints
         /\ \A q \in Procs : q # p /\ NeedsNetwork(cmd[q]) => late' = late
  <1>1. /\ cmd \in [Procs -> Command] /\ late \subseteq Endpoints /\ NetworkLeaseInv /\ None \notin Procs
        /\ lease \in [Leased -> {q \in Procs : cmd[q].pc # "idle"} \cup {None}]
    BY RoutingAssumption DEF RoutingInv, TypeOK, Leased
  <1>2. cmd' \in [Procs -> Command] /\ cmd'[p] = c /\ \A q \in Procs : q # p => cmd'[q] = cmd[q]
    BY <1>1 DEF Moves
  <1>3. \A q \in Procs : q # p => \A l \in Leased : lease'[l] = q <=> lease[l] = q
    BY <1>1 DEF Moves
  <1>4. lease' \in [Leased -> {q \in Procs : cmd'[q].pc # "idle"} \cup {None}]
    <2>1. ASSUME NEW l \in Leased, lease'[l] # None
          PROVE  lease'[l] \in Procs /\ cmd'[lease'[l]].pc # "idle"
      <3>1. lease'[l] \in Procs
        BY <2>1 DEF Moves
      <3>2. CASE lease'[l] = p
        BY <1>2, <3>2 DEF Moves
      <3>3. CASE lease'[l] # p
        <4>1. lease[l] = lease'[l]
          BY <1>3, <3>1, <3>3
        <4>2. QED
          BY <1>1, <1>2, <2>1, <3>1, <3>3, <4>1
      <3>4. QED
        BY <3>1, <3>2, <3>3
    <2>2. QED
      BY <2>1 DEF Moves
  <1>5. NetworkLeaseInv'
    <2>1. ASSUME NEW q \in Procs
          PROVE  /\ NeedsNetwork(cmd'[q]) => lease'["network"] = q
                 /\ cmd'[q].goal = "retry" => cmd'[q].pc \in {"restore", "undo", "profile"}
      BY <1>1, <1>2, <1>3 DEF Moves, NetworkLeaseInv, Leased
    <2>2. QED
      BY <2>1 DEF NetworkLeaseInv, NeedsNetwork
  <1>6. late' \subseteq Endpoints
    BY <1>1 DEF Moves
  <1>7. \A q \in Procs : q # p /\ NeedsNetwork(cmd[q]) => late' = late
    BY <1>1 DEF Moves, NetworkLeaseInv
  <1>8. QED
    BY <1>2, <1>3, <1>4, <1>5, <1>6, <1>7

LEMMA ArmedKeepsInv ==
  ASSUME RoutingInv, NEW p \in Procs, NEW c, Moves(p, c),
         c.todo # {} => c.pc \in {"arm", "tighten", "undo"},
         \A w \in c.todo : /\ w[1] \in Saved
                           /\ w[2] # "bypass" /\ endpoint[w[1]][w[2]] = "foreign" => w \in late',
         UNCHANGED <<settings, enabled, theirs, snapshot, verbs>>,
         mode' \in Modes, capture' \in {"down", "up", "hung"},
         spent' \in [commands : 0..MaxCommands, failures : 0..MaxFailures,
                     crashes : 0..MaxCrashes, edits : 0..MaxEdits]
  PROVE  RoutingInv'
  <1>1. /\ TypeOK /\ TodoInv /\ NothingIsLost
        /\ UNCHANGED <<endpoint, bypass, manual, enabled, theirs, snapshot, verbs>>
    BY DEF RoutingInv, settings
  <1>2. TypeOK'
    BY <1>1, MovesFacts DEF TypeOK, Leased
  <1>3. TodoInv'
    <2>1. Saved' = Saved
      BY <1>1 DEF Saved
    <2>2. ASSUME NEW q \in Procs
          PROVE  /\ cmd'[q].todo # {} => cmd'[q].pc \in {"arm", "tighten", "undo"}
                 /\ \A w \in cmd'[q].todo :
                      /\ w[1] \in Saved'
                      /\ w[2] # "bypass" /\ endpoint'[w[1]][w[2]] = "foreign" => w \in late'
      <3>1. CASE q = p
        <4>1. cmd'[q] = c
          BY <3>1, MovesFacts
        <4>2. ASSUME NEW w \in cmd'[q].todo
              PROVE  /\ w[1] \in Saved'
                     /\ w[2] # "bypass" /\ endpoint'[w[1]][w[2]] = "foreign" => w \in late'
          <5>1. w \in c.todo
            BY <4>1
          <5>2. w[1] \in Saved /\ (w[2] # "bypass" /\ endpoint[w[1]][w[2]] = "foreign" => w \in late')
            BY <5>1
          <5>3. QED
            BY <1>1, <2>1, <5>2
        <4>3. cmd'[q].todo # {} => cmd'[q].pc \in {"arm", "tighten", "undo"}
          BY <4>1
        <4>4. QED
          BY <4>2, <4>3
      <3>2. CASE q # p
        <4>1. cmd'[q] = cmd[q] /\ (NeedsNetwork(cmd[q]) => late' = late)
          BY <3>2, MovesFacts
        <4>2. cmd[q].todo # {} => NeedsNetwork(cmd[q])
          BY <1>1 DEF TodoInv, NeedsNetwork
        <4>3. QED
          BY <1>1, <2>1, <4>1, <4>2 DEF TodoInv
      <3>3. QED
        BY <3>1, <3>2
    <2>3. QED
      BY <2>2 DEF TodoInv
  <1>4. NothingIsLost'
    BY <1>1 DEF NothingIsLost, Saved
  <1>5. QED
    BY <1>2, <1>3, <1>4, MovesFacts DEF RoutingInv

LEMMA MovesKeepInv ==
  ASSUME RoutingInv, NEW p \in Procs, NEW c, Moves(p, c),
         c.todo \subseteq cmd[p].todo, c.todo # {} => c.pc \in {"arm", "tighten", "undo"} /\ late' = late,
         UNCHANGED <<settings, enabled, theirs, snapshot, verbs>>,
         mode' \in Modes, capture' \in {"down", "up", "hung"},
         spent' \in [commands : 0..MaxCommands, failures : 0..MaxFailures,
                     crashes : 0..MaxCrashes, edits : 0..MaxEdits]
  PROVE  RoutingInv'
  <1>1. \A w \in c.todo : /\ w[1] \in Saved
                          /\ w[2] # "bypass" /\ endpoint[w[1]][w[2]] = "foreign" => w \in late'
    BY DEF RoutingInv, TodoInv
  <1>2. QED
    BY <1>1, ArmedKeepsInv

\* What p and the profile have to agree on when p goes on as c.
Agrees(p, c) ==
  /\ c.pc # "idle" => c.verb \in verbs /\ (c.verb = "repair" => c.mode = mode')
  /\ Works(c) => lease'["profile"] = p /\ c.mode = mode'
  /\ c.pc \in {"enable", "arm", "tighten"} => c.mode = "system"
  /\ c.pc \in {"stop", "save"} /\ c.mode = "system" => snapshot' = None
  /\ c.pc = "stop" /\ c.mode = "system" =>
       \A s \in enabled, k \in Kinds : endpoint[s][k] = "own" => <<s, k>> \in late'
  /\ mode' = "explicit" => snapshot' = None
  /\ mode' # mode => lease["profile"] = p /\ cmd[p].pc # "idle" /\ Sets(p)

LEMMA AgreesKeepsInv ==
  ASSUME RoutingInv, StopInv, NEW p \in Procs, NEW c, Moves(p, c), Apart => Agrees(p, c),
         UNCHANGED <<settings, enabled, verbs>>, snapshot' \in {snapshot, None}
  PROVE  StopInv'
  <1> SUFFICES ASSUME Apart
               PROVE  ProfileLeaseInv' /\ VerbInv' /\ ReleasedInv' /\ ExplicitInv'
    BY DEF StopInv, Apart
  <1>1. /\ ProfileLeaseInv /\ VerbInv /\ ReleasedInv /\ ExplicitInv /\ Agrees(p, c)
        /\ UNCHANGED <<endpoint, enabled, verbs>> /\ NetworkLeaseInv
    BY DEF StopInv, settings, RoutingInv
  <1>2. /\ cmd'[p] = c /\ \A q \in Procs : q # p => cmd'[q] = cmd[q]
        /\ \A q \in Procs : q # p => (lease'["profile"] = q <=> lease["profile"] = q)
        /\ \A q \in Procs : q # p /\ NeedsNetwork(cmd[q]) => late' = late
    BY MovesFacts DEF Leased
  <1>3. ProfileLeaseInv'
    <2>1. ASSUME NEW q \in Procs, Works(cmd'[q])
          PROVE  lease'["profile"] = q /\ cmd'[q].mode = mode'
      <3>1. CASE q = p
        BY <1>1, <1>2, <2>1, <3>1 DEF Agrees
      <3>2. CASE q # p
        <4>1. lease["profile"] = q /\ cmd[q].mode = mode /\ cmd'[q] = cmd[q]
          BY <1>1, <1>2, <2>1, <3>2 DEF ProfileLeaseInv
        <4>2. mode' = mode
          BY <1>1, <3>2, <4>1 DEF Agrees
        <4>3. QED
          BY <1>2, <3>2, <4>1, <4>2
      <3>3. QED
        BY <3>1, <3>2
    <2>2. QED
      BY <2>1 DEF ProfileLeaseInv, Works
  <1>4. VerbInv'
    <2>1. ASSUME NEW q \in Procs, cmd'[q].pc # "idle"
          PROVE  cmd'[q].verb \in verbs /\ (cmd'[q].verb = "repair" => cmd'[q].mode = mode')
      <3>1. CASE q = p
        BY <1>1, <1>2, <2>1, <3>1 DEF Agrees
      <3>2. CASE q # p
        <4>1. cmd'[q] = cmd[q] /\ cmd[q].verb \in verbs /\ (cmd[q].verb = "repair" => cmd[q].mode = mode)
          BY <1>1, <1>2, <2>1, <3>2 DEF VerbInv
        <4>2. cmd[q].verb = "repair" => mode' = mode
          <5>1. SUFFICES ASSUME cmd[q].verb = "repair", mode' # mode
                         PROVE  FALSE
            OBVIOUS
          <5>2. cmd[p].verb \in verbs /\ cmd[p].verb \in {"set system", "set explicit"}
            BY <1>1, <5>1 DEF Agrees, Sets, VerbInv
          <5>3. QED
            BY <4>1, <5>1, <5>2 DEF Apart
        <4>3. QED
          BY <4>1, <4>2
      <3>3. QED
        BY <3>1, <3>2
    <2>2. QED
      BY <1>1, <2>1 DEF VerbInv
  <1>5. ReleasedInv'
    <2>1. ASSUME NEW q \in Procs
          PROVE  /\ cmd'[q].pc \in {"enable", "arm", "tighten"} => cmd'[q].mode = "system"
                 /\ cmd'[q].pc \in {"stop", "save"} /\ cmd'[q].mode = "system" => snapshot' = None
                 /\ cmd'[q].pc = "stop" /\ cmd'[q].mode = "system" =>
                      \A s \in enabled, k \in Kinds : endpoint[s][k] = "own" => <<s, k>> \in late'
      <3>1. CASE q = p
        BY <1>1, <1>2, <3>1 DEF Agrees
      <3>2. CASE q # p
        <4>1. cmd'[q] = cmd[q] /\ (cmd[q].pc = "stop" /\ cmd[q].mode = "system" => late' = late)
          BY <1>2, <3>2 DEF NeedsNetwork
        <4>2. QED
          BY <1>1, <4>1 DEF ReleasedInv
      <3>3. QED
        BY <3>1, <3>2
    <2>2. QED
      BY <1>1, <2>1 DEF ReleasedInv
  <1>6. ExplicitInv'
    BY <1>1 DEF ExplicitInv, Agrees
  <1>7. QED
    BY <1>3, <1>4, <1>5, <1>6

-----------------------------------------------------------------------------
(* Steps that several actions have in common.                              *)

Inv == RoutingInv /\ StopInv

\* What a step of a command finds.
LEMMA StepFacts ==
  ASSUME Inv, NEW p \in Procs
  PROVE  /\ cmd \in [Procs -> Command] /\ cmd[p] \in Command /\ None \notin Procs /\ p # None
         /\ lease \in [Leased -> Procs \cup {None}] /\ mode \in Modes
         /\ capture \in {"down", "up", "hung"}
         /\ spent \in [commands : 0..MaxCommands, failures : 0..MaxFailures,
                        crashes : 0..MaxCrashes, edits : 0..MaxEdits]
         /\ NeedsNetwork(cmd[p]) => lease["network"] = p
         /\ cmd[p].goal = "retry" => cmd[p].pc \in {"restore", "undo", "profile"}
         /\ cmd[p].pc \notin {"arm", "tighten", "undo"} => cmd[p].todo = {}
  BY RoutingAssumption DEF Inv, RoutingInv, TypeOK, NetworkLeaseInv, TodoInv, Leased

LEMMA AgreementFacts ==
  ASSUME Inv, Apart, NEW p \in Procs
  PROVE  /\ Works(cmd[p]) => lease["profile"] = p /\ cmd[p].mode = mode
         /\ cmd[p].pc # "idle" => cmd[p].verb \in verbs /\ (cmd[p].verb = "repair" => cmd[p].mode = mode)
         /\ cmd[p].pc \in {"enable", "arm", "tighten"} => cmd[p].mode = "system"
         /\ cmd[p].pc \in {"stop", "save"} /\ cmd[p].mode = "system" => snapshot = None
         /\ cmd[p].pc = "stop" /\ cmd[p].mode = "system" =>
              \A s \in enabled, k \in Kinds : endpoint[s][k] = "own" => <<s, k>> \in late
         /\ mode = "explicit" => snapshot = None
  BY DEF Inv, StopInv, ProfileLeaseInv, VerbInv, ReleasedInv, ExplicitInv

LEMMA IdleFacts ==
  /\ Idle \in Command /\ Idle.pc = "idle" /\ Idle.todo = {} /\ Idle.goal = "end"
  /\ ~NeedsNetwork(Idle) /\ ~Works(Idle)
  BY DEF Idle, Command, NeedsNetwork, Works, Verbs, Modes

LEMMA EndMoves ==
  ASSUME Inv, NEW p \in Procs, End(p), late' = late
  PROVE  Moves(p, Idle)
  <1>1. /\ cmd' = [cmd EXCEPT ![p] = Idle]
        /\ lease' = [l \in Leased |-> IF lease[l] = p THEN None ELSE lease[l]]
    BY StepFacts DEF End, Free, Leased
  <1>2. lease' \in [Leased -> Procs \cup {None}]
    BY <1>1, StepFacts
  <1>3. \A l \in Leased : /\ lease[l] \notin {None, p} => lease'[l] = lease[l]
                         /\ lease'[l] \in {lease[l], None, p} /\ lease'[l] # p
    BY <1>1, StepFacts
  <1>4. QED
    BY <1>1, <1>2, <1>3, IdleFacts DEF Moves

LEMMA EndKeepsInv ==
  ASSUME Inv, NEW p \in Procs, End(p), UNCHANGED <<settings, users, snapshot>>,
         capture' \in {"down", "up", "hung"},
         spent' \in [commands : 0..MaxCommands, failures : 0..MaxFailures,
                     crashes : 0..MaxCrashes, edits : 0..MaxEdits]
  PROVE  Inv'
  <1>1. /\ UNCHANGED <<enabled, theirs, late, mode, verbs>> /\ Moves(p, Idle) /\ mode' \in Modes
    BY EndMoves, StepFacts DEF users, saved
  <1>2. RoutingInv'
    BY <1>1, IdleFacts, MovesKeepInv DEF Inv
  <1>3. Apart => Agrees(p, Idle)
    BY <1>1, IdleFacts, AgreementFacts DEF Agrees
  <1>4. StopInv'
    BY <1>1, <1>3, AgreesKeepsInv DEF Inv
  <1>5. QED
    BY <1>2, <1>4 DEF Inv

\* p keeps its leases and goes on as c.
LEMMA GoesOn ==
  ASSUME Inv, NEW p \in Procs, cmd[p].pc # "idle", NEW c \in Command, c.pc # "idle",
         cmd' = [cmd EXCEPT ![p] = c], lease' = lease,
         NeedsNetwork(c) => NeedsNetwork(cmd[p]), c.goal = "retry" => c.pc \in {"restore", "undo", "profile"},
         c.todo \subseteq cmd[p].todo, c.todo # {} => c.pc \in {"arm", "tighten", "undo"},
         Apart => Agrees(p, c),
         UNCHANGED <<settings, enabled, theirs, late, snapshot, verbs>>,
         mode' \in Modes, capture' \in {"down", "up", "hung"},
         spent' \in [commands : 0..MaxCommands, failures : 0..MaxFailures,
                     crashes : 0..MaxCrashes, edits : 0..MaxEdits]
  PROVE  Inv'
  <1>1. Moves(p, c)
    BY StepFacts DEF Moves, Leased
  <1>2. RoutingInv'
    BY <1>1, MovesKeepInv DEF Inv
  <1>3. StopInv'
    BY <1>1, AgreesKeepsInv DEF Inv
  <1>4. QED
    BY <1>2, <1>3 DEF Inv

LEMMA RecoverKeepsInv ==
  ASSUME Inv, NEW p \in Procs, NEW goal \in {"end", "cleanup"}, Recover(p, goal),
         cmd[p].pc \in {"start", "enable", "arm", "tighten"},
         UNCHANGED <<settings, users, snapshot>>, capture' \in {"down", "up", "hung"},
         spent' \in [commands : 0..MaxCommands, failures : 0..MaxFailures,
                     crashes : 0..MaxCrashes, edits : 0..MaxEdits]
  PROVE  Inv'
  <1> DEFINE c == [cmd[p] EXCEPT !.pc = "restore", !.goal = goal, !.todo = {}]
  <1>1. /\ cmd' = [cmd EXCEPT ![p] = c] /\ lease' = lease
        /\ UNCHANGED <<enabled, theirs, late, mode, verbs>>
    BY DEF Recover, users, saved
  <1>2. /\ c \in Command /\ c.pc = "restore" /\ c.goal = goal /\ c.todo = {}
        /\ c.mode = cmd[p].mode /\ c.verb = cmd[p].verb
    <2>1. cmd[p] \in Command /\ (cmd[p].pc \notin {"arm", "tighten", "undo"} => cmd[p].todo = {})
      BY StepFacts
    <2>2. QED
      BY <2>1 DEF Command
  <1> HIDE DEF c
  <1>3. NeedsNetwork(c) => NeedsNetwork(cmd[p])
    BY <1>2 DEF NeedsNetwork
  <1>4. Apart => Agrees(p, c)
    <2>1. Works(cmd[p])
      BY DEF Works
    <2>2. QED
      BY <1>1, <1>2, <2>1, AgreementFacts DEF Agrees
  <1>5. QED
    BY <1>1, <1>2, <1>3, <1>4, StepFacts, GoesOn

LEMMA WritesForWork ==
  ASSUME NEW held, held \subseteq Services
  PROVE  WritesFor(held) \in SUBSET Work
  BY DEF WritesFor, Work, Endpoints

-----------------------------------------------------------------------------
(* Issuing, leases.                                                        *)

LEMMA IssueKeepsInv ==
  ASSUME Inv, NEW p \in Procs, NEW verb \in Verbs, Issue(p, verb)
  PROVE  Inv'
  <1> DEFINE c == [Idle EXCEPT !.verb = verb, !.mode = mode, !.pc = FirstLease(verb)]
  <1>1. /\ cmd' = [cmd EXCEPT ![p] = c] /\ lease' = lease /\ capture' = capture /\ verb \in verbs
        /\ UNCHANGED <<settings, enabled, theirs, late, mode, verbs, snapshot>>
        /\ spent' \in [commands : 0..MaxCommands, failures : 0..MaxFailures,
                       crashes : 0..MaxCrashes, edits : 0..MaxEdits]
    BY SpendFacts DEF Issue, users, saved, Inv, RoutingInv
  <1>2. FirstLease(verb) \in {"emergency", "profile"}
    BY DEF FirstLease
  <1>3. /\ c \in Command /\ c.pc \in {"emergency", "profile"} /\ c.goal = "end" /\ c.todo = {}
        /\ c.mode = mode /\ c.verb = verb
    <2>1. mode \in Modes
      BY StepFacts
    <2>2. QED
      BY <1>2, <2>1 DEF Command, Idle
  <1> HIDE DEF c
  <1>4. Moves(p, c)
    BY <1>1, <1>3, StepFacts DEF Moves, NeedsNetwork, Leased
  <1>5. RoutingInv'
    BY <1>1, <1>3, <1>4, StepFacts, MovesKeepInv DEF Inv
  <1>6. Apart => Agrees(p, c)
    BY <1>1, <1>3, AgreementFacts DEF Agrees, Works
  <1>7. StopInv'
    BY <1>1, <1>4, <1>6, AgreesKeepsInv DEF Inv
  <1>8. QED
    BY <1>5, <1>7 DEF Inv

LEMMA EmergencyKeepsInv ==
  ASSUME Inv, NEW p \in Procs, Emergency(p)
  PROVE  Inv'
  <1>1. /\ UNCHANGED <<settings, enabled, theirs, mode, verbs, snapshot, capture, spent>>
        /\ cmd[p].pc = "emergency"
    BY DEF Emergency, saved, At
  <1>2. CASE End(p) /\ late' = late
    BY <1>1, <1>2, StepFacts, EndKeepsInv DEF users, saved
  <1>3. CASE /\ lease["network"] = None
             /\ lease' = [lease EXCEPT !["network"] = p] /\ late' = {}
             /\ cmd' = [cmd EXCEPT ![p].pc = "restore", ![p].goal = "retry"]
    <2> DEFINE c == [cmd[p] EXCEPT !.pc = "restore", !.goal = "retry"]
    <2>1. cmd' = [cmd EXCEPT ![p] = c]
      BY <1>3, StepFacts
    <2>2. /\ c \in Command /\ c.pc = "restore" /\ c.goal = "retry" /\ c.todo = {}
          /\ c.mode = cmd[p].mode /\ c.verb = cmd[p].verb
      <3>1. cmd[p] \in Command /\ (cmd[p].pc \notin {"arm", "tighten", "undo"} => cmd[p].todo = {})
        BY StepFacts
      <3>2. QED
        BY <1>1, <3>1 DEF Command
    <2> HIDE DEF c
    <2>3. /\ lease' \in [Leased -> Procs \cup {None}] /\ lease'["network"] = p
          /\ \A l \in Leased : lease'[l] = IF l = "network" THEN p ELSE lease[l]
      BY <1>3, StepFacts DEF Leased
    <2>4. Moves(p, c)
      BY <1>3, <2>1, <2>2, <2>3, StepFacts DEF Moves, Leased
    <2>5. RoutingInv'
      BY <1>1, <2>2, <2>4, StepFacts, MovesKeepInv DEF Inv
    <2>6. Apart => Agrees(p, c)
      BY <1>1, <2>2, AgreementFacts DEF Agrees, Works
    <2>7. StopInv'
      BY <1>1, <2>4, <2>6, AgreesKeepsInv DEF Inv
    <2>8. QED
      BY <2>5, <2>7 DEF Inv
  <1>4. QED
    BY <1>2, <1>3 DEF Emergency

LEMMA TakeProfileKeepsInv ==
  ASSUME Inv, NEW p \in Procs, TakeProfile(p)
  PROVE  Inv'
  <1>1. /\ UNCHANGED <<settings, enabled, theirs, late, mode, verbs, snapshot, capture, spent>>
        /\ cmd[p].pc = "profile"
    BY DEF TakeProfile, users, saved, At
  <1>2. CASE End(p)
    BY <1>1, <1>2, StepFacts, EndKeepsInv DEF users, saved
  <1>3. CASE /\ lease["profile"] = None
             /\ lease' = [lease EXCEPT !["profile"] = p]
             /\ cmd' = [cmd EXCEPT ![p].pc = NextLease(p), ![p].mode = Routing(p), ![p].goal = "stop"]
    <2> DEFINE c == [cmd[p] EXCEPT !.pc = NextLease(p), !.mode = Routing(p), !.goal = "stop"]
    <2>1. cmd' = [cmd EXCEPT ![p] = c]
      BY <1>3, StepFacts
    <2>2. /\ NextLease(p) \in {"other", "network", "start", "restore", "switch"} /\ Routing(p) \in Modes
          /\ NextLease(p) \in {"start", "restore", "switch"}
                => Routing(p) # "system" /\ cmd[p].verb # "set system"
          /\ Routing(p) = IF cmd[p].verb = "repair" THEN cmd[p].mode ELSE mode
      BY StepFacts DEF NextLease, FirstStep, Routing, Command
    <2>3. /\ c \in Command /\ c.pc = NextLease(p) /\ c.goal = "stop" /\ c.todo = {}
          /\ c.mode = Routing(p) /\ c.verb = cmd[p].verb
      <3>1. cmd[p] \in Command /\ (cmd[p].pc \notin {"arm", "tighten", "undo"} => cmd[p].todo = {})
        BY StepFacts
      <3>2. QED
        BY <1>1, <2>2, <3>1 DEF Command
    <2> HIDE DEF c
    <2>4. /\ lease' \in [Leased -> Procs \cup {None}] /\ lease'["profile"] = p
          /\ \A l \in Leased : lease'[l] = IF l = "profile" THEN p ELSE lease[l]
      BY <1>3, StepFacts DEF Leased
    <2>5. Moves(p, c)
      <3>1. ~NeedsNetwork(c) /\ c.pc # "idle" /\ c.goal # "retry"
        BY <2>2, <2>3 DEF NeedsNetwork
      <3>2. QED
        BY <1>1, <1>3, <2>1, <2>3, <2>4, <3>1, StepFacts DEF Moves, Leased
    <2>6. RoutingInv'
      BY <1>1, <2>3, <2>5, StepFacts, MovesKeepInv DEF Inv
    <2>7. Apart => Agrees(p, c)
      BY <1>1, <2>2, <2>3, <2>4, AgreementFacts DEF Agrees
    <2>8. StopInv'
      BY <1>1, <2>5, <2>7, AgreesKeepsInv DEF Inv
    <2>9. QED
      BY <2>6, <2>8 DEF Inv
  <1>4. QED
    BY <1>2, <1>3 DEF TakeProfile

LEMMA TakeNetworkKeepsInv ==
  ASSUME Inv, NEW p \in Procs, TakeNetwork(p)
  PROVE  Inv'
  <1>1. /\ UNCHANGED <<settings, enabled, theirs, mode, verbs, snapshot, capture, spent>>
        /\ cmd[p].pc = "network"
    BY DEF TakeNetwork, saved, At
  <1>2. CASE End(p) /\ late' = late
    BY <1>1, <1>2, StepFacts, EndKeepsInv DEF users, saved
  <1>3. CASE /\ lease["network"] = None
             /\ lease' = [lease EXCEPT !["network"] = p] /\ late' = {}
             /\ Goto(p, FirstStep(cmd[p].verb))
    <2> DEFINE c == [cmd[p] EXCEPT !.pc = FirstStep(cmd[p].verb)]
    <2>1. cmd' = [cmd EXCEPT ![p] = c]
      BY <1>3, StepFacts DEF Goto
    <2>2. FirstStep(cmd[p].verb) \in {"start", "restore", "switch"}
      BY DEF FirstStep
    <2>3. /\ c \in Command /\ c.pc \in {"start", "restore", "switch"} /\ c.goal = cmd[p].goal /\ c.todo = {}
          /\ c.mode = cmd[p].mode /\ c.verb = cmd[p].verb
      <3>1. cmd[p] \in Command /\ (cmd[p].pc \notin {"arm", "tighten", "undo"} => cmd[p].todo = {})
        BY StepFacts
      <3>2. QED
        BY <1>1, <2>2, <3>1 DEF Command
    <2> HIDE DEF c
    <2>4. /\ lease' \in [Leased -> Procs \cup {None}] /\ lease'["network"] = p
          /\ \A l \in Leased : lease'[l] = IF l = "network" THEN p ELSE lease[l]
      BY <1>3, StepFacts DEF Leased
    <2>5. Moves(p, c)
      BY <1>1, <1>3, <2>1, <2>3, <2>4, StepFacts DEF Moves, Leased
    <2>6. RoutingInv'
      BY <1>1, <2>3, <2>5, StepFacts, MovesKeepInv DEF Inv
    <2>7. Apart => Agrees(p, c)
      <3>1. Works(cmd[p])
        BY <1>1 DEF Works
      <3>2. QED
        BY <1>1, <2>3, <2>4, <3>1, AgreementFacts DEF Agrees, Leased
    <2>8. StopInv'
      BY <1>1, <2>5, <2>7, AgreesKeepsInv DEF Inv
    <2>9. QED
      BY <2>6, <2>8 DEF Inv
  <1>4. QED
    BY <1>2, <1>3 DEF TakeNetwork

-----------------------------------------------------------------------------
(* tap on.                                                                 *)

LEMMA StartsKeepsInv ==
  ASSUME Inv, NEW p \in Procs, Starts(p)
  PROVE  Inv'
  <1>1. /\ UNCHANGED <<settings, enabled, theirs, late, mode, verbs, snapshot, spent>>
        /\ cmd[p].pc = "start" /\ capture' = "up"
    BY DEF Starts, users, saved, At
  <1>2. CASE End(p)
    BY <1>1, <1>2, StepFacts, EndKeepsInv DEF users, saved
  <1>3. CASE cmd[p].mode # "explicit" /\ Goto(p, "enable") /\ lease' = lease
    <2> DEFINE c == [cmd[p] EXCEPT !.pc = "enable"]
    <2>1. cmd' = [cmd EXCEPT ![p] = c]
      BY <1>3, StepFacts DEF Goto
    <2>2. /\ c \in Command /\ c.pc = "enable" /\ c.goal = cmd[p].goal /\ c.todo = {}
          /\ c.mode = "system" /\ c.verb = cmd[p].verb /\ cmd[p].mode = "system"
      <3>1. cmd[p] \in Command /\ (cmd[p].pc \notin {"arm", "tighten", "undo"} => cmd[p].todo = {})
        BY StepFacts
      <3>2. QED
        BY <1>1, <1>3, <3>1 DEF Command, Modes
    <2> HIDE DEF c
    <2>3. NeedsNetwork(cmd[p]) /\ Works(cmd[p])
      BY <1>1, <2>2 DEF NeedsNetwork, Works
    <2>4. Apart => Agrees(p, c)
      BY <1>1, <1>3, <2>2, <2>3, AgreementFacts DEF Agrees
    <2>5. QED
      BY <1>1, <1>3, <2>1, <2>2, <2>3, <2>4, StepFacts, GoesOn
  <1>4. QED
    BY <1>2, <1>3 DEF Starts

LEMMA StartRefusedKeepsInv ==
  ASSUME Inv, NEW p \in Procs, StartRefused(p) \/ StartFails(p)
  PROVE  Inv'
  <1>1. /\ UNCHANGED <<settings, users, snapshot>> /\ cmd[p].pc = "start" /\ capture' \in {"down", "up", "hung"}
        /\ spent' \in [commands : 0..MaxCommands, failures : 0..MaxFailures,
                       crashes : 0..MaxCrashes, edits : 0..MaxEdits]
    <2>1. Spend("failures")
      BY DEF StartRefused, StartFails
    <2>2. QED
      BY <2>1, SpendFacts, StepFacts DEF StartRefused, StartFails, At, Inv, RoutingInv
  <1>2. End(p) \/ Recover(p, "end") \/ Recover(p, "cleanup")
    BY DEF StartRefused, StartFails
  <1>3. QED
    BY <1>1, <1>2, EndKeepsInv, RecoverKeepsInv

LEMMA RearmKeepsInv ==
  ASSUME Inv, NEW p \in Procs, Rearm(p)
  PROVE  Inv'
  <1>1. /\ UNCHANGED <<settings, users, enabled, theirs, late, mode, verbs, snapshot, capture, spent>>
        /\ cmd[p].pc = "enable"
    BY DEF Rearm, users, saved, At
  <1>2. CASE End(p)
    BY <1>1, <1>2, StepFacts, EndKeepsInv
  <1>3. CASE Recover(p, "end")
    BY <1>1, <1>3, StepFacts, RecoverKeepsInv
  <1>4. CASE /\ lease' = lease /\ cmd' = [cmd EXCEPT ![p].pc = "tighten", ![p].todo = Saved \X {"bypass"}]
    <2> DEFINE c == [cmd[p] EXCEPT !.pc = "tighten", !.todo = Saved \X {"bypass"}]
    <2>1. cmd' = [cmd EXCEPT ![p] = c]
      BY <1>4, StepFacts
    <2>2. Saved \subseteq Services
      BY DEF Saved, Inv, RoutingInv, TypeOK
    <2>3. /\ c \in Command /\ c.pc = "tighten" /\ c.goal = cmd[p].goal /\ c.todo = Saved \X {"bypass"}
          /\ c.mode = cmd[p].mode /\ c.verb = cmd[p].verb
      <3>1. cmd[p] \in Command
        BY StepFacts
      <3>2. QED
        BY <2>2, <3>1 DEF Command, Work
    <2> HIDE DEF c
    <2>4. NeedsNetwork(cmd[p]) /\ Works(cmd[p]) /\ cmd[p].goal # "retry"
      BY <1>1, StepFacts DEF NeedsNetwork, Works
    <2>5. Moves(p, c)
      BY <1>1, <1>4, <2>1, <2>3, <2>4, StepFacts DEF Moves, Leased
    <2>6. RoutingInv'
      <3>1. \A w \in c.todo : w[1] \in Saved /\ w[2] = "bypass"
        BY <2>3
      <3>2. QED
        BY <1>1, <2>3, <2>5, <3>1, StepFacts, ArmedKeepsInv DEF Inv
    <2>7. Apart => Agrees(p, c)
      BY <1>1, <1>4, <2>3, <2>4, AgreementFacts DEF Agrees
    <2>8. StopInv'
      BY <1>1, <2>5, <2>7, AgreesKeepsInv DEF Inv
    <2>9. QED
      BY <2>6, <2>8 DEF Inv
  <1>5. QED
    BY <1>2, <1>3, <1>4 DEF Rearm

LEMMA TakeOverKeepsInv ==
  ASSUME Inv, NEW p \in Procs, TakeOver(p)
  PROVE  Inv'
  <1>1. /\ UNCHANGED <<settings, users, enabled, theirs, late, mode, verbs, capture, spent>>
        /\ UNCHANGED <<endpoint, bypass, manual>> /\ cmd[p].pc = "enable" /\ snapshot = None
    BY DEF TakeOver, settings, users, saved, At
  <1>2. CASE Recover(p, "end") /\ snapshot' = snapshot
    BY <1>1, <1>2, StepFacts, RecoverKeepsInv
  <1>3. CASE /\ ~ProxyInUse /\ lease' = lease /\ snapshot' = [s \in enabled |-> bypass[s]]
             /\ cmd' = [cmd EXCEPT ![p].pc = "arm", ![p].todo = WritesFor(enabled)]
    <2> DEFINE c == [cmd[p] EXCEPT !.pc = "arm", !.todo = WritesFor(enabled)]
    <2>1. cmd' = [cmd EXCEPT ![p] = c]
      BY <1>3, StepFacts
    <2>2. /\ TypeOK /\ NothingIsLost /\ TodoInv /\ NetworkLeaseInv
          /\ enabled \in (SUBSET Services) \ {{}} /\ theirs \in [Services -> Lists \ {"declared"}]
          /\ bypass \in [Services -> Lists]
      BY DEF Inv, RoutingInv, TypeOK
    <2>3. /\ c \in Command /\ c.pc = "arm" /\ c.goal = cmd[p].goal /\ c.todo = WritesFor(enabled)
          /\ c.mode = cmd[p].mode /\ c.verb = cmd[p].verb
      <3>1. cmd[p] \in Command
        BY StepFacts
      <3>2. QED
        BY <2>2, WritesForWork, <3>1 DEF Command
    <2> HIDE DEF c
    <2>4. NeedsNetwork(cmd[p]) /\ Works(cmd[p]) /\ cmd[p].goal # "retry"
      BY <1>1, StepFacts DEF NeedsNetwork, Works
    <2>5. Moves(p, c)
      BY <1>1, <1>3, <2>1, <2>3, <2>4, StepFacts DEF Moves, Leased
    <2>6. Saved = {} /\ \A s \in Services : bypass[s] = theirs[s]
      BY <1>1, <2>2 DEF Saved, NothingIsLost
    <2>7. /\ snapshot' \in [enabled -> Lists \ {"declared"}] /\ snapshot' # None
          /\ Saved' = enabled /\ \A s \in enabled : snapshot'[s] = theirs[s]
      <3>1. snapshot' \in [enabled -> Lists \ {"declared"}] /\ \A s \in enabled : snapshot'[s] = theirs[s]
        BY <1>3, <2>2, <2>6
      <3>2. None \notin [enabled -> Lists]
        BY <2>2, RoutingAssumption
      <3>3. snapshot' # None
        BY <3>1, <3>2
      <3>4. QED
        BY <3>1, <3>3 DEF Saved
    <2>8. TypeOK'
      BY <1>1, <2>2, <2>5, <2>7, MovesFacts DEF TypeOK, Leased, Inv
    <2>9. \A q \in Procs : q # p => cmd'[q] = cmd[q] /\ ~NeedsNetwork(cmd[q]) /\ cmd[q].todo = {}
      <3>1. ASSUME NEW q \in Procs, q # p
            PROVE  cmd'[q] = cmd[q] /\ ~NeedsNetwork(cmd[q]) /\ cmd[q].todo = {}
        <4>1. cmd'[q] = cmd[q] /\ ~NeedsNetwork(cmd[q])
          BY <2>4, <2>5, <3>1, StepFacts, MovesFacts DEF Inv
        <4>2. QED
          BY <4>1, StepFacts DEF NeedsNetwork
      <3>2. QED
        BY <3>1
    <2>10. TodoInv'
      <3>1. \A w \in WritesFor(enabled) : w[1] \in enabled /\ (w[2] # "bypass" => endpoint[w[1]][w[2]] = "off")
        BY <1>3 DEF WritesFor, ProxyInUse
      <3>2. ASSUME NEW q \in Procs
            PROVE  /\ cmd'[q].todo # {} => cmd'[q].pc \in {"arm", "tighten", "undo"}
                   /\ \A w \in cmd'[q].todo :
                        /\ w[1] \in Saved'
                        /\ w[2] # "bypass" /\ endpoint'[w[1]][w[2]] = "foreign" => w \in late'
        <4>1. CASE q = p
          <5>1. cmd'[q] = c
            BY <2>5, <4>1, MovesFacts DEF Inv
          <5>2. QED
            BY <1>1, <2>3, <2>7, <3>1, <5>1
        <4>2. CASE q # p
          BY <2>9, <4>2
        <4>3. QED
          BY <4>1, <4>2
      <3>3. QED
        BY <3>2 DEF TodoInv
    <2>11. NothingIsLost'
      BY <1>1, <2>2, <2>6, <2>7 DEF NothingIsLost
    <2>12. RoutingInv'
      BY <2>5, <2>8, <2>10, <2>11, MovesFacts DEF RoutingInv, Inv
    <2>13. StopInv'
      <3> SUFFICES ASSUME Apart
                   PROVE  ProfileLeaseInv' /\ VerbInv' /\ ReleasedInv' /\ ExplicitInv'
        BY <1>1 DEF StopInv, Apart
      <3>1. /\ ProfileLeaseInv /\ VerbInv /\ ReleasedInv /\ ExplicitInv
            /\ cmd'[p] = c /\ \A q \in Procs : q # p => cmd'[q] = cmd[q] /\ ~NeedsNetwork(cmd[q])
            /\ c.mode = "system" /\ mode = "system" /\ lease["profile"] = p /\ c.verb \in verbs
        BY <1>1, <2>3, <2>4, <2>5, <2>9, AgreementFacts, MovesFacts DEF StopInv, Inv
      <3>2. ProfileLeaseInv'
        BY <1>1, <1>3, <3>1 DEF ProfileLeaseInv
      <3>3. VerbInv'
        BY <1>1, <3>1 DEF VerbInv
      <3>4. ReleasedInv'
        <4>1. \A q \in Procs \ {p} : cmd[q].pc \in {"stop", "save"} => cmd[q].mode # "system"
          BY <3>1 DEF NeedsNetwork
        <4>2. QED
          BY <1>1, <2>3, <3>1, <4>1 DEF ReleasedInv
      <3>5. ExplicitInv'
        BY <1>1, <3>1 DEF ExplicitInv
      <3>6. QED
        BY <3>2, <3>3, <3>4, <3>5
    <2>14. QED
      BY <2>12, <2>13 DEF Inv
  <1>4. QED
    BY <1>2, <1>3 DEF TakeOver

-----------------------------------------------------------------------------
(* Writes.                                                                 *)

\* p writes a setting that is still to be written, and perhaps goes on as c.
LEMMA WriteKeepsInv ==
  ASSUME Inv, NEW p \in Procs, NEW w \in Work, w \in cmd[p].todo, NEW value \in {"own", "off"},
         NEW list \in Lists, Write(w, value, list),
         NEW c, Moves(p, c), lease' = lease, late' = late,
         c.todo \subseteq cmd[p].todo, c.todo # {} => c.pc \in {"arm", "tighten", "undo"},
         c.pc \notin {"stop", "save"}, Apart => Agrees(p, c),
         UNCHANGED <<enabled, theirs, snapshot, verbs, mode, capture>>,
         spent' \in [commands : 0..MaxCommands, failures : 0..MaxFailures,
                     crashes : 0..MaxCrashes, edits : 0..MaxEdits]
  PROVE  Inv'
  <1>1. /\ TypeOK /\ TodoInv /\ NothingIsLost /\ NetworkLeaseInv /\ RoutingInv
        /\ cmd[p].pc \in {"arm", "tighten", "undo"} /\ w[1] \in Saved
    BY DEF Inv, RoutingInv, TodoInv
  <1>2. /\ endpoint' \in [Services -> [Kinds -> Values]] /\ bypass' \in [Services -> Lists]
        /\ manual' \subseteq {e \in Endpoints : endpoint'[e[1]][e[2]] = "own"}
        /\ \A s \in Services, k \in Kinds :
             /\ endpoint'[s][k] = IF <<s, k>> = w THEN value ELSE endpoint[s][k]
             /\ <<s, k>> \in manual /\ <<s, k>> # w => <<s, k>> \in manual'
        /\ \A s \in Services : s # w[1] => bypass'[s] = bypass[s]
    BY <1>1, WriteFacts DEF Values
  <1>3. \A q \in Procs : q # p => cmd'[q] = cmd[q] /\ ~NeedsNetwork(cmd[q]) /\ cmd[q].todo = {}
    <2>1. ASSUME NEW q \in Procs, q # p
          PROVE  cmd'[q] = cmd[q] /\ ~NeedsNetwork(cmd[q]) /\ cmd[q].todo = {}
      <3>1. lease["network"] = p
        BY <1>1, StepFacts DEF NeedsNetwork
      <3>2. cmd'[q] = cmd[q] /\ ~NeedsNetwork(cmd[q])
        BY <1>1, <2>1, <3>1, StepFacts, MovesFacts
      <3>3. QED
        BY <3>2, StepFacts DEF NeedsNetwork
    <2>2. QED
      BY <2>1
  <1>4. cmd'[p] = c
    BY <1>1, MovesFacts
  <1>5. TypeOK'
    BY <1>1, <1>2, MovesFacts DEF TypeOK, Leased, Values
  <1>6. TodoInv'
    <2>1. Saved' = Saved
      BY DEF Saved
    <2>2. ASSUME NEW v \in cmd[p].todo, v[2] # "bypass", endpoint'[v[1]][v[2]] = "foreign"
          PROVE  v \in late
      <3>1. v \in Work
        BY <1>1, <2>2, StepFacts DEF Command
      <3>2. PICK s \in Services, k \in Kinds : v = <<s, k>>
        BY <2>2, <3>1 DEF Work, Endpoints
      <3>3. endpoint[s][k] = "foreign"
        BY <1>2, <2>2, <3>2
      <3>4. QED
        BY <1>1, <2>2, <3>2, <3>3 DEF TodoInv
    <2>3. ASSUME NEW q \in Procs
          PROVE  /\ cmd'[q].todo # {} => cmd'[q].pc \in {"arm", "tighten", "undo"}
                 /\ \A v \in cmd'[q].todo :
                      /\ v[1] \in Saved'
                      /\ v[2] # "bypass" /\ endpoint'[v[1]][v[2]] = "foreign" => v \in late'
      <3>1. CASE q = p
        BY <1>1, <1>4, <2>1, <2>2, <3>1 DEF TodoInv
      <3>2. CASE q # p
        BY <1>3, <3>2
      <3>3. QED
        BY <3>1, <3>2
    <2>4. QED
      BY <2>3 DEF TodoInv
  <1>7. NothingIsLost'
    <2>1. Saved' = Saved
      BY DEF Saved
    <2>2. ASSUME NEW s \in Services, s \notin Saved
          PROVE  /\ bypass'[s] = theirs[s]
                 /\ \A k \in Kinds : endpoint'[s][k] = "own" => <<s, k>> \in manual'
      <3>1. s # w[1] /\ bypass[s] = theirs[s]
        BY <1>1, <2>2 DEF NothingIsLost
      <3>2. \A k \in Kinds : <<s, k>> # w
        BY <3>1
      <3>3. QED
        BY <1>1, <1>2, <2>2, <3>1, <3>2 DEF NothingIsLost
    <2>3. QED
      BY <1>1, <2>1, <2>2 DEF NothingIsLost
  <1>8. RoutingInv'
    BY <1>1, <1>5, <1>6, <1>7, MovesFacts DEF RoutingInv
  <1>9. StopInv'
    <2> SUFFICES ASSUME Apart
                 PROVE  ProfileLeaseInv' /\ VerbInv' /\ ReleasedInv' /\ ExplicitInv'
      BY DEF StopInv, Apart
    <2>1. ProfileLeaseInv /\ VerbInv /\ ReleasedInv /\ ExplicitInv /\ Agrees(p, c)
      BY DEF StopInv, Inv
    <2>2. ProfileLeaseInv'
      BY <1>3, <1>4, <2>1 DEF ProfileLeaseInv, Agrees
    <2>3. VerbInv'
      BY <1>3, <1>4, <2>1 DEF VerbInv, Agrees
    <2>4. ReleasedInv'
      <3>1. \A q \in Procs \ {p} : cmd'[q] = cmd[q] /\ ~NeedsNetwork(cmd[q])
        BY <1>3, <1>4
      <3>2. \A q \in Procs \ {p} : cmd[q].pc \in {"stop", "save"} => cmd[q].mode # "system"
        BY <3>1 DEF NeedsNetwork
      <3>3. QED
        BY <1>3, <1>4, <2>1, <3>1, <3>2 DEF ReleasedInv, Agrees
    <2>5. ExplicitInv'
      BY <2>1 DEF ExplicitInv
    <2>6. QED
      BY <2>2, <2>3, <2>4, <2>5
  <1>10. QED
    BY <1>8, <1>9 DEF Inv

LEMMA ArmKeepsInv ==
  ASSUME Inv, NEW p \in Procs, Arm(p)
  PROVE  Inv'
  <1>1. PICK w \in Work : /\ w \in cmd[p].todo /\ Write(w, "own", "declared")
                          /\ cmd' = [cmd EXCEPT ![p].todo = @ \ {w}]
    BY DEF Arm, NextWrite
  <1>2. /\ UNCHANGED <<enabled, theirs, late, mode, verbs, snapshot, capture, spent, lease>>
        /\ cmd[p].pc \in {"arm", "tighten"}
    BY DEF Arm, users, saved
  <1> DEFINE c == [cmd[p] EXCEPT !.todo = cmd[p].todo \ {w}]
  <1>3. cmd' = [cmd EXCEPT ![p] = c]
    BY <1>1, StepFacts
  <1>4. /\ c \in Command /\ c.pc = cmd[p].pc /\ c.goal = cmd[p].goal /\ c.todo \subseteq cmd[p].todo
        /\ c.mode = cmd[p].mode /\ c.verb = cmd[p].verb
    <2>1. cmd[p] \in Command
      BY StepFacts
    <2>2. QED
      BY <2>1 DEF Command
  <1> HIDE DEF c
  <1>5. NeedsNetwork(cmd[p]) /\ Works(cmd[p])
    BY <1>2 DEF NeedsNetwork, Works
  <1>6. Moves(p, c)
    BY <1>2, <1>3, <1>4, <1>5, StepFacts DEF Moves, Leased
  <1>7. Apart => Agrees(p, c)
    BY <1>2, <1>4, <1>5, AgreementFacts DEF Agrees
  <1>8. "declared" \in Lists
    BY DEF Lists
  <1>9. QED
    BY <1>1, <1>2, <1>4, <1>6, <1>7, <1>8, StepFacts, WriteKeepsInv

LEMMA VerifyKeepsInv ==
  ASSUME Inv, NEW p \in Procs, Verify(p)
  PROVE  Inv'
  <1>1. /\ UNCHANGED <<settings, users, snapshot, capture, spent>> /\ cmd[p].pc \in {"arm", "tighten"}
        /\ End(p) \/ Recover(p, "end")
    BY DEF Verify
  <1>2. QED
    BY <1>1, StepFacts, EndKeepsInv, RecoverKeepsInv

LEMMA EnableFailsKeepsInv ==
  ASSUME Inv, NEW p \in Procs, EnableFails(p)
  PROVE  Inv'
  <1>1. /\ UNCHANGED <<users, enabled, theirs, late, mode, verbs, snapshot, capture>>
        /\ cmd[p].pc \in {"enable", "arm", "tighten"} /\ Recover(p, "end")
        /\ spent' \in [commands : 0..MaxCommands, failures : 0..MaxFailures,
                       crashes : 0..MaxCrashes, edits : 0..MaxEdits]
    BY SpendFacts DEF EnableFails, users, saved, Inv, RoutingInv
  <1>2. CASE UNCHANGED settings
    BY <1>1, <1>2, StepFacts, RecoverKeepsInv
  <1>3. CASE \E w \in Work : NextWrite(p, w) /\ Write(w, "own", "declared")
    <2>1. PICK w \in Work : w \in cmd[p].todo /\ Write(w, "own", "declared")
      BY <1>3 DEF NextWrite
    <2> DEFINE c == [cmd[p] EXCEPT !.pc = "restore", !.goal = "end", !.todo = {}]
    <2>2. cmd' = [cmd EXCEPT ![p] = c] /\ lease' = lease
      BY <1>1 DEF Recover
    <2>3. /\ c \in Command /\ c.pc = "restore" /\ c.goal = "end" /\ c.todo = {}
          /\ c.mode = cmd[p].mode /\ c.verb = cmd[p].verb
      <3>1. cmd[p] \in Command /\ (cmd[p].pc \notin {"arm", "tighten", "undo"} => cmd[p].todo = {})
        BY StepFacts
      <3>2. QED
        BY <3>1 DEF Command
    <2> HIDE DEF c
    <2>4. NeedsNetwork(cmd[p]) /\ Works(cmd[p])
      BY <1>1 DEF NeedsNetwork, Works
    <2>5. Moves(p, c)
      BY <1>1, <2>2, <2>3, <2>4, StepFacts DEF Moves, Leased
    <2>6. Apart => Agrees(p, c)
      BY <1>1, <2>2, <2>3, <2>4, AgreementFacts DEF Agrees
    <2>7. "declared" \in Lists
      BY DEF Lists
    <2>8. QED
      BY <1>1, <2>1, <2>2, <2>3, <2>5, <2>6, <2>7, WriteKeepsInv
  <1>4. QED
    BY <1>2, <1>3 DEF EnableFails

-----------------------------------------------------------------------------
(* restore().                                                              *)

\* Where a restore that returned leaves p: done, before the profile lease, or going on.
LEMMA ReleasedMoves ==
  ASSUME Inv, NEW p \in Procs, cmd[p].pc \in {"restore", "undo"}, cmd[p].todo = {},
         Released(p), late' = late
  PROVE  \E c : /\ Moves(p, c) /\ c.todo = {}
                /\ \/ c = Idle
                   \/ /\ c.pc = "profile" /\ c.mode = cmd[p].mode /\ c.verb = cmd[p].verb
                   \/ /\ c.pc \in {"stop", "save"} /\ cmd[p].goal # "retry" /\ lease' = lease
                      /\ c.mode = cmd[p].mode /\ c.verb = cmd[p].verb
  <1>1. CASE /\ cmd[p].goal = "retry" /\ lease' = Free(p)
             /\ cmd' = [cmd EXCEPT ![p].pc = "profile", ![p].errors = FALSE]
    <2> DEFINE c == [cmd[p] EXCEPT !.pc = "profile", !.errors = FALSE]
    <2>1. cmd' = [cmd EXCEPT ![p] = c]
      BY <1>1, StepFacts
    <2>2. /\ c \in Command /\ c.pc = "profile" /\ c.todo = {} /\ c.mode = cmd[p].mode /\ c.verb = cmd[p].verb
      <3>1. cmd[p] \in Command /\ (cmd[p].pc \notin {"arm", "tighten", "undo"} => cmd[p].todo = {})
        BY StepFacts
      <3>2. QED
        BY <3>1 DEF Command
    <2> HIDE DEF c
    <2>3. ~NeedsNetwork(c)
      BY <2>2 DEF NeedsNetwork
    <2>4. lease' = [l \in Leased |-> IF lease[l] = p THEN None ELSE lease[l]]
      BY <1>1, StepFacts DEF Free
    <2>5. /\ lease' \in [Leased -> Procs \cup {None}]
          /\ \A l \in Leased : lease'[l] = IF lease[l] = p THEN None ELSE lease[l]
      BY <2>4, StepFacts
    <2>6. Moves(p, c)
      BY <2>1, <2>2, <2>3, <2>5, StepFacts DEF Moves
    <2>7. QED
      BY <2>2, <2>6
  <1>2. CASE End(p)
    BY <1>2, EndMoves, IdleFacts
  <1>3. CASE /\ cmd[p].goal \notin {"retry", "end"} /\ lease' = lease
             /\ cmd' = [cmd EXCEPT ![p].pc = IF cmd[p].goal = "save" THEN "save" ELSE "stop",
                                   ![p].errors = FALSE]
    <2> DEFINE c == [cmd[p] EXCEPT !.pc = IF cmd[p].goal = "save" THEN "save" ELSE "stop", !.errors = FALSE]
    <2>1. cmd' = [cmd EXCEPT ![p] = c]
      BY <1>3, StepFacts
    <2>2. /\ c \in Command /\ c.pc \in {"stop", "save"} /\ c.todo = {} /\ c.goal = cmd[p].goal
          /\ c.mode = cmd[p].mode /\ c.verb = cmd[p].verb
      <3>1. cmd[p] \in Command /\ (cmd[p].pc \notin {"arm", "tighten", "undo"} => cmd[p].todo = {})
        BY StepFacts
      <3>2. QED
        BY <3>1 DEF Command
    <2> HIDE DEF c
    <2>3. NeedsNetwork(c) => NeedsNetwork(cmd[p])
      BY <2>2 DEF NeedsNetwork
    <2>4. Moves(p, c)
      BY <1>3, <2>1, <2>2, <2>3, StepFacts DEF Moves, Leased
    <2>5. QED
      BY <1>3, <2>2, <2>4
  <1>4. QED
    BY <1>1, <1>2, <1>3 DEF Released

\* What restore() has made sure of is what the steps behind it rely on.
LEMMA ReleasedKeepsStopInv ==
  ASSUME Inv, NEW p \in Procs, cmd[p].pc \in {"restore", "undo"},
         NEW c, Moves(p, c),
         \/ c = Idle
         \/ c.pc = "profile" /\ c.mode = cmd[p].mode /\ c.verb = cmd[p].verb
         \/ /\ c.pc \in {"stop", "save"} /\ cmd[p].goal # "retry" /\ lease' = lease
            /\ c.mode = cmd[p].mode /\ c.verb = cmd[p].verb,
         UNCHANGED <<settings, enabled, late, mode, verbs>>, snapshot' \in {snapshot, None},
         cmd[p].mode = "system" => snapshot' = None,
         cmd[p].mode = "system" =>
           \A s \in enabled, k \in Kinds : endpoint[s][k] = "own" => <<s, k>> \in late
  PROVE  StopInv'
  <1>1. Apart => Agrees(p, c)
    <2> SUFFICES ASSUME Apart
                 PROVE  Agrees(p, c)
      OBVIOUS
    <2>1. CASE c = Idle
      BY <2>1, IdleFacts, AgreementFacts DEF Agrees
    <2>2. CASE c.pc = "profile" /\ c.mode = cmd[p].mode /\ c.verb = cmd[p].verb
      BY <2>2, AgreementFacts DEF Agrees, Works
    <2>3. CASE /\ c.pc \in {"stop", "save"} /\ cmd[p].goal # "retry" /\ lease' = lease
               /\ c.mode = cmd[p].mode /\ c.verb = cmd[p].verb
      <3>1. Works(cmd[p])
        BY <2>3 DEF Works
      <3>2. QED
        BY <2>3, <3>1, AgreementFacts DEF Agrees
    <2>4. QED
      BY <2>1, <2>2, <2>3
  <1>2. QED
    BY <1>1, AgreesKeepsInv DEF Inv

LEMMA RestoreKeepsInv ==
  ASSUME Inv, NEW p \in Procs, Restore(p)
  PROVE  Inv'
  <1>1. /\ UNCHANGED <<settings, users, enabled, theirs, late, mode, verbs, snapshot, capture, spent>>
        /\ cmd[p].pc = "restore" /\ cmd[p].todo = {}
    BY StepFacts DEF Restore, users, saved, At
  <1>2. CASE End(p)
    BY <1>1, <1>2, StepFacts, EndKeepsInv
  <1>3. CASE Released(p) /\ (OwnsSettings(p) => snapshot = None /\ Strays = {})
    <2>1. PICK c : /\ Moves(p, c) /\ c.todo = {}
                   /\ \/ c = Idle
                      \/ /\ c.pc = "profile" /\ c.mode = cmd[p].mode /\ c.verb = cmd[p].verb
                      \/ /\ c.pc \in {"stop", "save"} /\ cmd[p].goal # "retry" /\ lease' = lease
                         /\ c.mode = cmd[p].mode /\ c.verb = cmd[p].verb
      BY <1>1, <1>3, ReleasedMoves
    <2>2. cmd[p].mode = "system" => snapshot = None /\ Strays = {}
      BY <1>3 DEF OwnsSettings
    <2>3. cmd[p].mode = "system" =>
            \A s \in enabled, k \in Kinds : endpoint[s][k] = "own" => <<s, k>> \in late
      BY <2>2 DEF Strays, Saved, Ours
    <2>4. StopInv'
      BY <1>1, <2>1, <2>2, <2>3, ReleasedKeepsStopInv
    <2>5. RoutingInv'
      BY <1>1, <2>1, StepFacts, MovesKeepInv DEF Inv
    <2>6. QED
      BY <2>4, <2>5 DEF Inv
  <1>4. CASE /\ OwnsSettings(p) /\ ~Taken /\ lease' = lease
             /\ cmd' = [cmd EXCEPT ![p].pc = "undo", ![p].todo = WritesFor(Saved)]
    <2> DEFINE c == [cmd[p] EXCEPT !.pc = "undo", !.todo = WritesFor(Saved)]
    <2>1. cmd' = [cmd EXCEPT ![p] = c]
      BY <1>4, StepFacts
    <2>2. Saved \subseteq Services
      BY DEF Saved, Inv, RoutingInv, TypeOK
    <2>3. /\ c \in Command /\ c.pc = "undo" /\ c.goal = cmd[p].goal /\ c.todo = WritesFor(Saved)
          /\ c.mode = cmd[p].mode /\ c.verb = cmd[p].verb
      <3>1. cmd[p] \in Command
        BY StepFacts
      <3>2. QED
        BY <2>2, WritesForWork, <3>1 DEF Command
    <2> HIDE DEF c
    <2>4. NeedsNetwork(cmd[p]) /\ (Works(c) => Works(cmd[p]))
      BY <1>1, <1>4, <2>3 DEF NeedsNetwork, Works, OwnsSettings
    <2>5. Moves(p, c)
      BY <1>1, <1>4, <2>1, <2>3, <2>4, StepFacts DEF Moves, Leased
    <2>6. \A w \in c.todo : /\ w[1] \in Saved
                            /\ w[2] # "bypass" /\ endpoint[w[1]][w[2]] = "foreign" => w \in late'
      BY <1>4, <2>3 DEF WritesFor, Taken
    <2>7. RoutingInv'
      BY <1>1, <2>3, <2>5, <2>6, StepFacts, ArmedKeepsInv DEF Inv
    <2>8. Apart => Agrees(p, c)
      BY <1>1, <1>4, <2>3, <2>4, AgreementFacts DEF Agrees
    <2>9. StopInv'
      BY <1>1, <2>5, <2>8, AgreesKeepsInv DEF Inv
    <2>10. QED
      BY <2>7, <2>9 DEF Inv
  <1>5. QED
    BY <1>2, <1>3, <1>4 DEF Restore

LEMMA UndoKeepsInv ==
  ASSUME Inv, NEW p \in Procs, Undo(p)
  PROVE  Inv'
  <1>1. /\ UNCHANGED <<users, enabled, theirs, late, mode, verbs, snapshot, capture, lease>>
        /\ cmd[p].pc = "undo"
    BY DEF Undo, users, saved, At
  <1>2. PICK w \in Work :
          /\ w \in cmd[p].todo
          /\ \/ /\ Write(w, "off", snapshot[w[1]]) /\ spent' = spent
                /\ cmd' = [cmd EXCEPT ![p].todo = @ \ {w}]
             \/ /\ Spend("failures")
                /\ cmd' = [cmd EXCEPT ![p].todo = @ \ {w}, ![p].errors = TRUE]
                /\ Write(w, "off", snapshot[w[1]]) \/ UNCHANGED settings
    BY DEF Undo, NextWrite
  <1>3. /\ Write(w, "off", snapshot[w[1]]) \/ UNCHANGED settings
        /\ spent' \in [commands : 0..MaxCommands, failures : 0..MaxFailures,
                       crashes : 0..MaxCrashes, edits : 0..MaxEdits]
    BY <1>2, SpendFacts, StepFacts DEF Inv, RoutingInv
  <1>4. PICK c : /\ c \in Command /\ cmd' = [cmd EXCEPT ![p] = c]
                 /\ c.pc = "undo" /\ c.goal = cmd[p].goal /\ c.todo = cmd[p].todo \ {w}
                 /\ c.mode = cmd[p].mode /\ c.verb = cmd[p].verb
    <2>1. CASE cmd' = [cmd EXCEPT ![p].todo = @ \ {w}]
      <3> DEFINE c == [cmd[p] EXCEPT !.todo = cmd[p].todo \ {w}]
      <3>1. cmd' = [cmd EXCEPT ![p] = c]
        BY <2>1, StepFacts
      <3>2. /\ c \in Command /\ c.pc = "undo" /\ c.goal = cmd[p].goal /\ c.todo = cmd[p].todo \ {w}
            /\ c.mode = cmd[p].mode /\ c.verb = cmd[p].verb
        <4>1. cmd[p] \in Command
          BY StepFacts
        <4>2. QED
          BY <1>1, <4>1 DEF Command
      <3>3. QED
        BY <3>1, <3>2
    <2>2. CASE cmd' = [cmd EXCEPT ![p].todo = @ \ {w}, ![p].errors = TRUE]
      <3> DEFINE c == [cmd[p] EXCEPT !.todo = cmd[p].todo \ {w}, !.errors = TRUE]
      <3>1. cmd' = [cmd EXCEPT ![p] = c]
        BY <2>2, StepFacts
      <3>2. /\ c \in Command /\ c.pc = "undo" /\ c.goal = cmd[p].goal /\ c.todo = cmd[p].todo \ {w}
            /\ c.mode = cmd[p].mode /\ c.verb = cmd[p].verb
        <4>1. cmd[p] \in Command
          BY StepFacts
        <4>2. QED
          BY <1>1, <4>1 DEF Command
      <3>3. QED
        BY <3>1, <3>2
    <2>3. QED
      BY <1>2, <2>1, <2>2
  <1>5. NeedsNetwork(cmd[p]) /\ NeedsNetwork(c) /\ (Works(c) <=> Works(cmd[p]))
    BY <1>1, <1>4 DEF NeedsNetwork, Works
  <1>6. Moves(p, c)
    BY <1>1, <1>4, <1>5, StepFacts DEF Moves, Leased
  <1>7. Apart => Agrees(p, c)
    BY <1>1, <1>4, <1>5, AgreementFacts DEF Agrees
  <1>8. CASE Write(w, "off", snapshot[w[1]])
    <2>1. w[1] \in Saved
      BY <1>2 DEF Inv, RoutingInv, TodoInv
    <2>2. snapshot[w[1]] \in Lists
      BY <2>1 DEF Inv, RoutingInv, TypeOK, Saved
    <2> DEFINE list == snapshot[w[1]]
    <2>3. list \in Lists /\ Write(w, "off", list)
      BY <1>8, <2>2
    <2> HIDE DEF list
    <2>4. QED
      BY <1>1, <1>2, <1>3, <1>4, <1>6, <1>7, <2>3, WriteKeepsInv
  <1>9. CASE UNCHANGED settings
    BY <1>1, <1>3, <1>4, <1>5, <1>7, <1>9, StepFacts, GoesOn
  <1>10. QED
    BY <1>3, <1>8, <1>9

LEMMA ConfirmKeepsInv ==
  ASSUME Inv, NEW p \in Procs, Confirm(p)
  PROVE  Inv'
  <1>1. /\ UNCHANGED <<settings, users, enabled, theirs, late, mode, verbs, capture, spent>>
        /\ UNCHANGED <<endpoint, bypass, manual>> /\ cmd[p].pc = "undo" /\ cmd[p].todo = {}
    BY DEF Confirm, users, saved, settings, At
  <1>2. CASE End(p) /\ snapshot' = snapshot
    BY <1>1, <1>2, StepFacts, EndKeepsInv
  <1>3. CASE Undone /\ snapshot' = None /\ Released(p)
    <2>1. PICK c : /\ Moves(p, c) /\ c.todo = {}
                   /\ \/ c = Idle
                      \/ /\ c.pc = "profile" /\ c.mode = cmd[p].mode /\ c.verb = cmd[p].verb
                      \/ /\ c.pc \in {"stop", "save"} /\ cmd[p].goal # "retry" /\ lease' = lease
                         /\ c.mode = cmd[p].mode /\ c.verb = cmd[p].verb
      BY <1>1, <1>3, ReleasedMoves
    <2>2. \A s \in enabled, k \in Kinds : endpoint[s][k] # "own"
      BY <1>3 DEF Undone, Strays, Ours
    <2>3. StopInv'
      BY <1>1, <1>3, <2>1, <2>2, ReleasedKeepsStopInv
    <2>4. TypeOK /\ NothingIsLost /\ Saved' = {}
      BY <1>3 DEF Inv, RoutingInv, Saved
    <2>5. TypeOK'
      BY <1>1, <1>3, <2>1, <2>4, MovesFacts DEF TypeOK, Leased, Inv
    <2>6. TodoInv'
      <3>1. ASSUME NEW q \in Procs
            PROVE  cmd'[q].todo = {}
        <4>1. CASE q = p
          BY <2>1, <4>1, MovesFacts DEF Inv
        <4>2. CASE q # p
          <5>1. cmd'[q] = cmd[q]
            BY <2>1, <4>2, MovesFacts DEF Inv
          <5>2. NeedsNetwork(cmd[p])
            BY <1>1 DEF NeedsNetwork
          <5>3. ~NeedsNetwork(cmd[q])
            BY <4>2, <5>2, StepFacts
          <5>4. cmd[q].pc \notin {"arm", "tighten", "undo"}
            BY <5>3 DEF NeedsNetwork
          <5>5. QED
            BY <5>1, <5>4, StepFacts
        <4>3. QED
          BY <4>1, <4>2
      <3>2. QED
        BY <3>1 DEF TodoInv
    <2>7. NothingIsLost'
      <3>1. ASSUME NEW s \in Services
            PROVE  /\ bypass[s] = theirs[s]
                   /\ \A k \in Kinds : endpoint[s][k] = "own" => <<s, k>> \in manual
        BY <1>3, <2>4 DEF NothingIsLost, Undone
      <3>2. QED
        BY <1>1, <2>4, <3>1 DEF NothingIsLost
    <2>8. QED
      BY <2>1, <2>3, <2>5, <2>6, <2>7, MovesFacts DEF Inv, RoutingInv
  <1>4. QED
    BY <1>2, <1>3 DEF Confirm

-----------------------------------------------------------------------------
(* Stopping, routing set and install.                                      *)

LEMMA StopKeepsInv ==
  ASSUME Inv, NEW p \in Procs, Stop(p)
  PROVE  Inv'
  <1>1. /\ UNCHANGED <<settings, users, enabled, theirs, late, mode, verbs, snapshot, spent>>
        /\ cmd[p].pc = "stop" /\ capture' = "down"
    BY DEF Stop, users, saved, At
  <1>2. CASE End(p)
    BY <1>1, <1>2, StepFacts, EndKeepsInv
  <1>3. CASE cmd' = [cmd EXCEPT ![p].pc = "save", ![p].again = TRUE] /\ lease' = lease
    <2> DEFINE c == [cmd[p] EXCEPT !.pc = "save", !.again = TRUE]
    <2>1. cmd' = [cmd EXCEPT ![p] = c]
      BY <1>3, StepFacts
    <2>2. /\ c \in Command /\ c.pc = "save" /\ c.goal = cmd[p].goal /\ c.todo = {}
          /\ c.mode = cmd[p].mode /\ c.verb = cmd[p].verb
      <3>1. cmd[p] \in Command /\ (cmd[p].pc \notin {"arm", "tighten", "undo"} => cmd[p].todo = {})
        BY StepFacts
      <3>2. QED
        BY <1>1, <3>1 DEF Command
    <2> HIDE DEF c
    <2>3. (NeedsNetwork(c) => NeedsNetwork(cmd[p])) /\ Works(cmd[p])
      BY <1>1, <2>2 DEF NeedsNetwork, Works
    <2>4. Apart => Agrees(p, c)
      BY <1>1, <1>3, <2>2, <2>3, AgreementFacts DEF Agrees
    <2>5. QED
      BY <1>1, <1>3, <2>1, <2>2, <2>3, <2>4, StepFacts, GoesOn
  <1>4. QED
    BY <1>2, <1>3 DEF Stop

LEMMA SwitchKeepsInv ==
  ASSUME Inv, NEW p \in Procs, Switch(p)
  PROVE  Inv'
  <1>1. /\ UNCHANGED <<settings, users, enabled, theirs, late, mode, verbs, snapshot, capture, spent>>
        /\ cmd[p].pc = "switch" /\ cmd[p].goal # "retry"
    BY StepFacts DEF Switch, users, saved, At
  <1>2. CASE End(p)
    BY <1>1, <1>2, StepFacts, EndKeepsInv
  <1>3. CASE lease' = lease /\ \E c \in Command :
               /\ cmd' = [cmd EXCEPT ![p] = c] /\ c.mode = cmd[p].mode /\ c.verb = cmd[p].verb /\ c.todo = {}
               /\ \/ c.pc = "restore" /\ c.goal # "retry"
                  \/ c.pc = "save" /\ snapshot = None /\ c.goal # "retry"
    <2>1. PICK c \in Command :
               /\ cmd' = [cmd EXCEPT ![p] = c] /\ c.mode = cmd[p].mode /\ c.verb = cmd[p].verb /\ c.todo = {}
               /\ \/ c.pc = "restore" /\ c.goal # "retry"
                  \/ c.pc = "save" /\ snapshot = None /\ c.goal # "retry"
      BY <1>3
    <2>2. (NeedsNetwork(c) => NeedsNetwork(cmd[p])) /\ Works(cmd[p])
      BY <1>1, <2>1 DEF NeedsNetwork, Works
    <2>3. Apart => Agrees(p, c)
      BY <1>1, <1>3, <2>1, <2>2, AgreementFacts DEF Agrees
    <2>4. QED
      BY <1>1, <1>3, <2>1, <2>2, <2>3, StepFacts, GoesOn
  <1>4. ASSUME ~End(p)
        PROVE  lease' = lease /\ \E c \in Command :
               /\ cmd' = [cmd EXCEPT ![p] = c] /\ c.mode = cmd[p].mode /\ c.verb = cmd[p].verb /\ c.todo = {}
               /\ \/ c.pc = "restore" /\ c.goal # "retry"
                  \/ c.pc = "save" /\ snapshot = None /\ c.goal # "retry"
    <2>1. lease' = lease
      BY <1>4 DEF Switch
    <2>2. CASE cmd' = [cmd EXCEPT ![p].pc = "restore"]
      <3> DEFINE c == [cmd[p] EXCEPT !.pc = "restore"]
      <3>1. /\ c \in Command /\ cmd' = [cmd EXCEPT ![p] = c] /\ c.mode = cmd[p].mode
            /\ c.verb = cmd[p].verb /\ c.todo = {} /\ c.pc = "restore" /\ c.goal # "retry"
        <4>1. cmd[p] \in Command /\ (cmd[p].pc \notin {"arm", "tighten", "undo"} => cmd[p].todo = {})
          BY StepFacts
        <4>2. QED
          BY <1>1, <2>2, <4>1 DEF Command
      <3>2. QED
        BY <2>1, <3>1
    <2>3. CASE cmd' = [cmd EXCEPT ![p].pc = "restore", ![p].goal = "save"]
      <3> DEFINE c == [cmd[p] EXCEPT !.pc = "restore", !.goal = "save"]
      <3>1. /\ c \in Command /\ cmd' = [cmd EXCEPT ![p] = c] /\ c.mode = cmd[p].mode
            /\ c.verb = cmd[p].verb /\ c.todo = {} /\ c.pc = "restore" /\ c.goal # "retry"
        <4>1. cmd[p] \in Command /\ (cmd[p].pc \notin {"arm", "tighten", "undo"} => cmd[p].todo = {})
          BY StepFacts
        <4>2. QED
          BY <1>1, <2>3, <4>1 DEF Command
      <3>2. QED
        BY <2>1, <3>1
    <2>4. CASE cmd' = [cmd EXCEPT ![p].pc = "save"] /\ snapshot = None
      <3> DEFINE c == [cmd[p] EXCEPT !.pc = "save"]
      <3>1. /\ c \in Command /\ cmd' = [cmd EXCEPT ![p] = c] /\ c.mode = cmd[p].mode
            /\ c.verb = cmd[p].verb /\ c.todo = {} /\ c.pc = "save" /\ c.goal # "retry"
        <4>1. cmd[p] \in Command /\ (cmd[p].pc \notin {"arm", "tighten", "undo"} => cmd[p].todo = {})
          BY StepFacts
        <4>2. QED
          BY <1>1, <2>4, <4>1 DEF Command
      <3>2. QED
        BY <2>1, <2>4, <3>1
    <2>5. QED
      BY <1>4, <2>2, <2>3, <2>4 DEF Switch
  <1>5. QED
    BY <1>2, <1>3, <1>4

\* The new routing is saved when nothing of the settings is owned under the old one.
LEMMA SaveKeepsInv ==
  ASSUME Inv, NEW p \in Procs, Save(p)
  PROVE  Inv'
  <1>1. /\ UNCHANGED <<settings, enabled, theirs, late, verbs, snapshot, capture, spent>>
        /\ cmd[p].pc = "save" /\ Sets(p) /\ mode' = Target(p)
    BY DEF Save, At
  <1>2. /\ mode' \in Modes /\ (mode' = "system" => cmd[p].verb = "set system") /\ Works(cmd[p])
        /\ cmd[p].verb # "repair"
    BY <1>1 DEF Target, Modes, Works, Sets
  <1>3. Apart => snapshot = None /\ lease["profile"] = p
    <2>1. cmd[p].mode \in Modes
      BY StepFacts DEF Command
    <2>2. QED
      BY <1>1, <1>2, <2>1, AgreementFacts DEF Modes
  <1>4. CASE End(p)
    <2>1. Moves(p, Idle)
      BY <1>1, <1>4, EndMoves
    <2>2. RoutingInv'
      BY <1>1, <1>2, <2>1, IdleFacts, StepFacts, MovesKeepInv DEF Inv
    <2>3. Apart => Agrees(p, Idle)
      BY <1>1, <1>3, IdleFacts DEF Agrees
    <2>4. StopInv'
      BY <1>1, <2>1, <2>3, AgreesKeepsInv DEF Inv
    <2>5. QED
      BY <2>2, <2>4 DEF Inv
  <1>5. CASE cmd' = [cmd EXCEPT ![p].pc = "start", ![p].mode = mode'] /\ lease' = lease
    <2>1. PICK m \in Modes : m = mode'
      BY <1>2
    <2> DEFINE c == [cmd[p] EXCEPT !.pc = "start", !.mode = m]
    <2>2. cmd' = [cmd EXCEPT ![p] = c]
      BY <1>5, <2>1, StepFacts
    <2>3. /\ c \in Command /\ c.pc = "start" /\ c.goal = cmd[p].goal /\ c.todo = {}
          /\ c.mode = mode' /\ c.verb = cmd[p].verb
      <3>1. cmd[p] \in Command /\ (cmd[p].pc \notin {"arm", "tighten", "undo"} => cmd[p].todo = {})
        BY StepFacts
      <3>2. QED
        BY <1>1, <2>1, <3>1 DEF Command
    <2> HIDE DEF c
    <2>4. NeedsNetwork(c) => NeedsNetwork(cmd[p])
      BY <1>1, <1>2, <2>3 DEF NeedsNetwork
    <2>5. Apart => Agrees(p, c)
      BY <1>1, <1>2, <1>3, <1>5, <2>3, AgreementFacts DEF Agrees
    <2>6. QED
      BY <1>1, <1>2, <1>5, <2>2, <2>3, <2>4, <2>5, StepFacts, GoesOn
  <1>6. QED
    BY <1>4, <1>5 DEF Save

LEMMA ReinstallKeepsInv ==
  ASSUME Inv, NEW p \in Procs, Reinstall(p)
  PROVE  Inv'
  <1>1. /\ UNCHANGED <<settings, enabled, theirs, late, verbs, snapshot, capture, spent>>
        /\ cmd[p].pc = "save" /\ ~Sets(p) /\ mode' = cmd[p].mode /\ Goto(p, "start") /\ lease' = lease
    BY DEF Reinstall, At
  <1> DEFINE c == [cmd[p] EXCEPT !.pc = "start"]
  <1>2. cmd' = [cmd EXCEPT ![p] = c]
    BY <1>1, StepFacts DEF Goto
  <1>3. /\ c \in Command /\ c.pc = "start" /\ c.goal = cmd[p].goal /\ c.todo = {}
        /\ c.mode = cmd[p].mode /\ c.verb = cmd[p].verb /\ cmd[p].mode \in Modes
    <2>1. cmd[p] \in Command /\ (cmd[p].pc \notin {"arm", "tighten", "undo"} => cmd[p].todo = {})
      BY StepFacts
    <2>2. QED
      BY <1>1, <2>1 DEF Command
  <1> HIDE DEF c
  <1>4. (NeedsNetwork(c) => NeedsNetwork(cmd[p])) /\ Works(cmd[p])
    BY <1>1, <1>3 DEF NeedsNetwork, Works
  <1>5. Apart => Agrees(p, c)
    BY <1>1, <1>3, <1>4, AgreementFacts DEF Agrees
  <1>6. QED
    BY <1>1, <1>2, <1>3, <1>4, <1>5, StepFacts, GoesOn

\* What only ends the command.
LEMMA EndsKeepInv ==
  ASSUME Inv, NEW p \in Procs,
         RestoreFails(p) \/ StopFails(p) \/ SaveFails(p) \/ TimedOut(p) \/ OtherEnds(p) \/ Crash(p)
  PROVE  Inv'
  <1>1. /\ End(p) /\ UNCHANGED <<settings, users, snapshot>> /\ capture' \in {capture, "down"}
        /\ spent' = spent \/ Spend("failures") \/ Spend("crashes")
    BY DEF RestoreFails, StopFails, SaveFails, TimedOut, OtherEnds, Crash
  <1>2. spent' \in [commands : 0..MaxCommands, failures : 0..MaxFailures,
                    crashes : 0..MaxCrashes, edits : 0..MaxEdits]
    BY <1>1, SpendFacts, StepFacts DEF Inv, RoutingInv
  <1>3. capture' \in {"down", "up", "hung"}
    BY <1>1, StepFacts
  <1>4. QED
    BY <1>1, <1>2, <1>3, EndKeepsInv

-----------------------------------------------------------------------------
(* The listener and the user.                                              *)

LEMMA ListenerKeepsInv ==
  ASSUME Inv, ListenerHangs \/ ListenerReturns \/ UNCHANGED vars
  PROVE  Inv'
  <1>1. /\ UNCHANGED <<endpoint, bypass, manual, enabled, theirs, late, mode, verbs, snapshot, lease, cmd>>
        /\ (spent' = spent \/ Spend("failures"))
        /\ capture' \in {capture, "up", "hung"}
    BY DEF ListenerHangs, ListenerReturns, vars, settings, users, saved
  <1>2. spent' \in [commands : 0..MaxCommands, failures : 0..MaxFailures,
                    crashes : 0..MaxCrashes, edits : 0..MaxEdits]
    BY <1>1, SpendFacts DEF Inv, RoutingInv, TypeOK
  <1>3. TypeOK'
    BY <1>1, <1>2 DEF Inv, RoutingInv, TypeOK
  <1>4. NetworkLeaseInv' /\ TodoInv' /\ NothingIsLost'
    BY <1>1 DEF Inv, RoutingInv, NetworkLeaseInv, NeedsNetwork, TodoInv, NothingIsLost, Saved
  <1>5. StopInv'
    BY <1>1 DEF Inv, StopInv, Apart, ProfileLeaseInv, Works, VerbInv, ReleasedInv, ExplicitInv
  <1>6. QED
    BY <1>3, <1>4, <1>5 DEF Inv, RoutingInv

\* An edit of a proxy while a command has the network lease is marked as late.
LEMMA UserSetsProxyKeepsInv ==
  ASSUME Inv, NEW s \in Services, NEW k \in Kinds, NEW value \in Values, UserSetsProxy(s, k, value)
  PROVE  Inv'
  <1>1. /\ endpoint' = [endpoint EXCEPT ![s][k] = value] /\ Late({<<s, k>>})
        /\ manual' = IF value = "own" THEN manual \cup {<<s, k>>} ELSE manual \ {<<s, k>>}
        /\ UNCHANGED <<bypass, enabled, theirs, mode, verbs, snapshot, capture, lease, cmd>>
        /\ spent' \in [commands : 0..MaxCommands, failures : 0..MaxFailures,
                       crashes : 0..MaxCrashes, edits : 0..MaxEdits]
    BY SpendFacts DEF UserSetsProxy, saved, Inv, RoutingInv
  <1>2. /\ TypeOK /\ NetworkLeaseInv /\ TodoInv /\ NothingIsLost
        /\ endpoint \in [Services -> [Kinds -> Values]] /\ late \subseteq Endpoints
        /\ manual \subseteq {e \in Endpoints : endpoint[e[1]][e[2]] = "own"} /\ Saved' = Saved
    BY <1>1 DEF Inv, RoutingInv, TypeOK, Values, Saved
  <1>3. /\ endpoint' \in [Services -> [Kinds -> Values]]
        /\ \A other \in Services, kind \in Kinds :
             endpoint'[other][kind] = IF <<other, kind>> = <<s, k>> THEN value ELSE endpoint[other][kind]
    BY <1>1, <1>2
  <1>4. late' \subseteq Endpoints /\ late \subseteq late'
    BY <1>1, <1>2 DEF Late, Endpoints
  <1>5. \A q \in Procs : NeedsNetwork(cmd[q]) => <<s, k>> \in late'
    BY <1>1, <1>2, StepFacts DEF Late
  <1>6. manual' \subseteq {e \in Endpoints : endpoint'[e[1]][e[2]] = "own"}
    <2>1. ASSUME NEW e \in manual'
          PROVE  e \in Endpoints /\ endpoint'[e[1]][e[2]] = "own"
      <3>1. CASE e = <<s, k>>
        BY <1>1, <1>3, <2>1, <3>1 DEF Endpoints
      <3>2. CASE e # <<s, k>>
        <4>1. e \in manual
          BY <1>1, <2>1, <3>2
        <4>2. PICK other \in Services, kind \in Kinds : e = <<other, kind>>
          BY <1>2, <4>1 DEF Endpoints
        <4>3. QED
          BY <1>2, <1>3, <3>2, <4>1, <4>2
      <3>3. QED
        BY <3>1, <3>2
    <2>2. QED
      BY <2>1
  <1>7. TypeOK'
    BY <1>1, <1>2, <1>3, <1>4, <1>6 DEF TypeOK, Values
  <1>8. NetworkLeaseInv'
    BY <1>1, <1>2 DEF NetworkLeaseInv, NeedsNetwork
  <1>9. TodoInv'
    <2>1. ASSUME NEW q \in Procs, NEW w \in cmd[q].todo, w[2] # "bypass", endpoint'[w[1]][w[2]] = "foreign"
          PROVE  w \in late'
      <3>1. NeedsNetwork(cmd[q]) /\ w \in Work
        BY <1>2, <2>1, StepFacts DEF TodoInv, NeedsNetwork, Command
      <3>2. PICK other \in Services, kind \in Kinds : w = <<other, kind>>
        BY <2>1, <3>1 DEF Work, Endpoints
      <3>3. CASE w = <<s, k>>
        BY <1>5, <3>1, <3>3
      <3>4. CASE w # <<s, k>>
        BY <1>2, <1>3, <1>4, <2>1, <3>2, <3>4 DEF TodoInv
      <3>5. QED
        BY <3>3, <3>4
    <2>2. QED
      BY <1>1, <1>2, <2>1 DEF TodoInv
  <1>10. NothingIsLost'
    <2>1. ASSUME NEW other \in Services, other \notin Saved
          PROVE  /\ bypass[other] = theirs[other]
                 /\ \A kind \in Kinds : endpoint'[other][kind] = "own" => <<other, kind>> \in manual'
      <3>1. ASSUME NEW kind \in Kinds, endpoint'[other][kind] = "own"
            PROVE  <<other, kind>> \in manual'
        <4>1. CASE <<other, kind>> = <<s, k>>
          BY <1>1, <1>3, <3>1, <4>1
        <4>2. CASE <<other, kind>> # <<s, k>>
          BY <1>1, <1>2, <1>3, <2>1, <3>1, <4>2 DEF NothingIsLost
        <4>3. QED
          BY <4>1, <4>2
      <3>2. QED
        BY <1>2, <2>1, <3>1 DEF NothingIsLost
    <2>2. QED
      BY <1>1, <1>2, <2>1 DEF NothingIsLost
  <1>11. StopInv'
    <2> SUFFICES ASSUME Apart
                 PROVE  ProfileLeaseInv' /\ VerbInv' /\ ReleasedInv' /\ ExplicitInv'
      BY <1>1 DEF StopInv, Apart
    <2>1. ProfileLeaseInv /\ VerbInv /\ ReleasedInv /\ ExplicitInv
      BY DEF Inv, StopInv
    <2>2. ASSUME NEW q \in Procs, cmd[q].pc = "stop", cmd[q].mode = "system",
                 NEW other \in enabled, NEW kind \in Kinds, endpoint'[other][kind] = "own"
          PROVE  <<other, kind>> \in late'
      <3>1. NeedsNetwork(cmd[q]) /\ other \in Services
        BY <1>2, <2>2 DEF NeedsNetwork, TypeOK
      <3>2. QED
        BY <1>3, <1>4, <1>5, <2>1, <2>2, <3>1 DEF ReleasedInv
    <2>3. ReleasedInv'
      BY <1>1, <2>1, <2>2 DEF ReleasedInv
    <2>4. ProfileLeaseInv' /\ VerbInv' /\ ExplicitInv'
      BY <1>1, <2>1 DEF ProfileLeaseInv, Works, VerbInv, ExplicitInv
    <2>5. QED
      BY <2>3, <2>4
  <1>12. QED
    BY <1>7, <1>8, <1>9, <1>10, <1>11 DEF Inv, RoutingInv

LEMMA UserSetsBypassKeepsInv ==
  ASSUME Inv, NEW s \in Services, UserSetsBypass(s)
  PROVE  Inv'
  <1>1. /\ bypass' = [bypass EXCEPT ![s] = "edited"]
        /\ theirs' = IF s \in Saved THEN theirs ELSE [theirs EXCEPT ![s] = "edited"]
        /\ UNCHANGED <<endpoint, manual, enabled, late, mode, verbs, snapshot, capture, lease, cmd>>
        /\ spent' \in [commands : 0..MaxCommands, failures : 0..MaxFailures,
                       crashes : 0..MaxCrashes, edits : 0..MaxEdits]
    BY SpendFacts DEF UserSetsBypass, saved, Inv, RoutingInv
  <1>2. TypeOK /\ NothingIsLost /\ Saved' = Saved
    BY <1>1 DEF Inv, RoutingInv, Saved
  <1>3. TypeOK'
    BY <1>1, <1>2 DEF TypeOK, Lists
  <1>4. NetworkLeaseInv' /\ TodoInv'
    BY <1>1, <1>2 DEF Inv, RoutingInv, NetworkLeaseInv, NeedsNetwork, TodoInv
  <1>5. NothingIsLost'
    BY <1>1, <1>2 DEF NothingIsLost, TypeOK
  <1>6. StopInv'
    BY <1>1 DEF Inv, StopInv, Apart, ProfileLeaseInv, Works, VerbInv, ReleasedInv, ExplicitInv
  <1>7. QED
    BY <1>3, <1>4, <1>5, <1>6 DEF Inv, RoutingInv

LEMMA UserTogglesServiceKeepsInv ==
  ASSUME Inv, NEW s \in Services, UserTogglesService(s)
  PROVE  Inv'
  <1>1. /\ enabled' = (enabled \ {s}) \cup ({s} \ enabled) /\ enabled # {s} /\ Late({s} \X Kinds)
        /\ UNCHANGED <<endpoint, bypass, manual, theirs, mode, verbs, snapshot, capture, lease, cmd>>
        /\ spent' \in [commands : 0..MaxCommands, failures : 0..MaxFailures,
                       crashes : 0..MaxCrashes, edits : 0..MaxEdits]
    BY SpendFacts DEF UserTogglesService, SymDiff, settings, saved, Inv, RoutingInv
  <1>2. /\ TypeOK /\ NothingIsLost /\ enabled \in SUBSET Services /\ enabled # {}
        /\ late \subseteq Endpoints
    BY DEF Inv, RoutingInv, TypeOK
  <1>3. enabled' \in (SUBSET Services) \ {{}}
    BY <1>1, <1>2
  <1>4. late' \subseteq Endpoints /\ late \subseteq late'
    BY <1>1, <1>2 DEF Late, Endpoints
  <1>5. TypeOK'
    BY <1>1, <1>2, <1>3, <1>4 DEF TypeOK
  <1>6. NetworkLeaseInv' /\ TodoInv' /\ NothingIsLost'
    BY <1>1, <1>4 DEF Inv, RoutingInv, NetworkLeaseInv, NeedsNetwork, TodoInv, NothingIsLost, Saved
  <1>7. StopInv'
    <2> SUFFICES ASSUME Apart
                 PROVE  ProfileLeaseInv' /\ VerbInv' /\ ReleasedInv' /\ ExplicitInv'
      BY <1>1 DEF StopInv, Apart
    <2>1. ProfileLeaseInv /\ VerbInv /\ ReleasedInv /\ ExplicitInv
      BY DEF Inv, StopInv
    <2>2. ASSUME NEW q \in Procs, cmd[q].pc = "stop", cmd[q].mode = "system",
                 NEW other \in enabled', NEW kind \in Kinds, endpoint[other][kind] = "own"
          PROVE  <<other, kind>> \in late'
      <3>1. lease["network"] = q /\ q # None
        BY <2>2, StepFacts DEF NeedsNetwork
      <3>2. CASE other \in enabled
        BY <1>4, <2>1, <2>2, <3>2 DEF ReleasedInv
      <3>3. CASE other = s
        BY <1>1, <3>1, <3>3 DEF Late
      <3>4. QED
        BY <1>1, <2>2, <3>2, <3>3
    <2>3. ReleasedInv'
      BY <1>1, <2>1, <2>2 DEF ReleasedInv
    <2>4. ProfileLeaseInv' /\ VerbInv' /\ ExplicitInv'
      BY <1>1, <2>1 DEF ProfileLeaseInv, Works, VerbInv, ExplicitInv
    <2>5. QED
      BY <2>3, <2>4
  <1>8. QED
    BY <1>5, <1>6, <1>7 DEF Inv, RoutingInv

-----------------------------------------------------------------------------
(* The specification.                                                      *)

LEMMA InitInv == Init => Inv
  <1> SUFFICES ASSUME Init
               PROVE  Inv
    OBVIOUS
  <1>1. PICK s \in Sessions : mode = s.mode /\ verbs = s.verbs /\ spent = s.spent
    BY DEF Init
  <1>2. /\ mode \in Modes /\ verbs \subseteq Verbs
        /\ spent \in [commands : 0..MaxCommands, failures : 0..MaxFailures,
                      crashes : 0..MaxCrashes, edits : 0..MaxEdits]
    BY <1>1, RoutingAssumption
  <1>3. /\ endpoint = [s1 \in Services |-> [k \in Kinds |-> "off"]]
        /\ bypass = [s1 \in Services |-> "user"] /\ theirs = bypass /\ manual = {} /\ late = {}
        /\ enabled \in (SUBSET Services) \ {{}} /\ snapshot = None /\ capture = "down"
        /\ lease = [l \in {"profile", "network"} |-> None] /\ cmd = [p \in Procs |-> Idle]
    BY DEF Init
  <1>4. TypeOK
    BY <1>2, <1>3, IdleFacts DEF TypeOK, Lists
  <1>5. \A p \in Procs : cmd[p] = Idle
    BY <1>3
  <1>6. NetworkLeaseInv /\ TodoInv
    BY <1>5, IdleFacts DEF NetworkLeaseInv, TodoInv
  <1>7. NothingIsLost
    BY <1>3 DEF NothingIsLost, Saved
  <1>8. ProfileLeaseInv /\ VerbInv /\ ReleasedInv /\ ExplicitInv
    BY <1>3, <1>5, IdleFacts DEF ProfileLeaseInv, VerbInv, ReleasedInv, ExplicitInv
  <1>9. QED
    BY <1>4, <1>6, <1>7, <1>8 DEF Inv, RoutingInv, StopInv

LEMMA StepInv == Inv /\ [Next]_vars => Inv'
  <1> SUFFICES ASSUME Inv, [Next]_vars
               PROVE  Inv'
    OBVIOUS
  <1>1. ASSUME NEW p \in Procs, Leases(p)
        PROVE  Inv'
    BY <1>1, EmergencyKeepsInv, TakeProfileKeepsInv, EndsKeepInv, TakeNetworkKeepsInv DEF Leases
  <1>2. ASSUME NEW p \in Procs, On(p)
        PROVE  Inv'
    BY <1>2, StartsKeepsInv, StartRefusedKeepsInv, RearmKeepsInv, TakeOverKeepsInv, ArmKeepsInv,
       VerifyKeepsInv, EnableFailsKeepsInv DEF On
  <1>3. ASSUME NEW p \in Procs, Off(p)
        PROVE  Inv'
    BY <1>3, RestoreKeepsInv, UndoKeepsInv, ConfirmKeepsInv, StopKeepsInv, EndsKeepInv DEF Off
  <1>4. ASSUME NEW p \in Procs, Switch(p) \/ Save(p) \/ Reinstall(p) \/ SaveFails(p) \/ OtherEnds(p) \/ Crash(p)
        PROVE  Inv'
    BY <1>4, SwitchKeepsInv, SaveKeepsInv, ReinstallKeepsInv, EndsKeepInv
  <1>5. ASSUME NEW p \in Procs, NEW verb \in Verbs, Issue(p, verb)
        PROVE  Inv'
    BY <1>5, IssueKeepsInv
  <1>6. CASE ListenerHangs \/ ListenerReturns \/ Rest \/ UNCHANGED vars
    BY <1>6, ListenerKeepsInv DEF Rest
  <1>7. ASSUME NEW s \in Services, NEW k \in Kinds, NEW value \in Values, UserSetsProxy(s, k, value)
        PROVE  Inv'
    BY <1>7, UserSetsProxyKeepsInv
  <1>8. ASSUME NEW s \in Services, UserSetsBypass(s) \/ UserTogglesService(s)
        PROVE  Inv'
    BY <1>8, UserSetsBypassKeepsInv, UserTogglesServiceKeepsInv
  <1>9. QED
    BY <1>1, <1>2, <1>3, <1>4, <1>5, <1>6, <1>7, <1>8 DEF Next, CommandStep, Values

LEMMA VerbsStay == [Next]_vars => verbs' = verbs
  <1> SUFFICES ASSUME [Next]_vars
               PROVE  verbs' = verbs
    OBVIOUS
  <1> USE DEF users, saved
  <1>1. ASSUME NEW p \in Procs, Leases(p) \/ On(p)
        PROVE  verbs' = verbs
    BY <1>1 DEF Leases, On, Emergency, TakeProfile, TimedOut, TakeNetwork, Starts, StartRefused, StartFails,
                Rearm, TakeOver, Arm, Verify, EnableFails
  <1>2. ASSUME NEW p \in Procs, Off(p)
        PROVE  verbs' = verbs
    BY <1>2 DEF Off, Restore, Undo, Confirm, RestoreFails, Stop, StopFails
  <1>3. ASSUME NEW p \in Procs, Switch(p) \/ Save(p) \/ Reinstall(p) \/ SaveFails(p) \/ OtherEnds(p) \/ Crash(p)
        PROVE  verbs' = verbs
    BY <1>3 DEF Switch, Save, Reinstall, SaveFails, OtherEnds, Crash
  <1>4. ASSUME NEW p \in Procs, NEW verb \in Verbs, Issue(p, verb)
        PROVE  verbs' = verbs
    BY <1>4 DEF Issue
  <1>5. CASE ListenerHangs \/ ListenerReturns \/ Rest \/ UNCHANGED vars
    BY <1>5 DEF ListenerHangs, ListenerReturns, Rest, vars
  <1>6. ASSUME NEW s \in Services, NEW k \in Kinds, NEW value \in Values, UserSetsProxy(s, k, value)
        PROVE  verbs' = verbs
    BY <1>6 DEF UserSetsProxy
  <1>7. ASSUME NEW s \in Services, UserSetsBypass(s) \/ UserTogglesService(s)
        PROVE  verbs' = verbs
    BY <1>7 DEF UserSetsBypass, UserTogglesService
  <1>8. QED
    BY <1>1, <1>2, <1>3, <1>4, <1>5, <1>6, <1>7 DEF Next, CommandStep, Values

\* Whatever the sessions, the inductive invariant holds.
THEOREM RoutingInvariant == Spec => []Inv
  BY InitInv, StepInv, PTL DEF Spec

\* The variables keep their types; a lease is held by a command that runs.
THEOREM RoutingTypes == Spec => []TypeOK
  <1>1. Inv => TypeOK
    BY DEF Inv, RoutingInv
  <1>2. QED
    BY <1>1, RoutingInvariant, PTL

\* Whatever fails or dies in whatever order, what the user had is on the
\* service or in the snapshot: for any services, commands and edits.
THEOREM SettingsAreNeverLost == Spec => []NothingIsLost
  <1>1. Inv => NothingIsLost
    BY DEF Inv, RoutingInv
  <1>2. QED
    BY <1>1, RoutingInvariant, PTL

-----------------------------------------------------------------------------
(* Action properties.                                                      *)

LEMMA WritesSpareForeign ==
  ASSUME Inv, NEW p \in Procs, NEW w \in Work, w \in cmd[p].todo, NEW value, NEW list, Write(w, value, list),
         NEW s \in Services, NEW k \in Kinds, endpoint[s][k] = "foreign", <<s, k>> \notin late
  PROVE  endpoint'[s][k] = "foreign"
  <1>1. endpoint \in [Services -> [Kinds -> Values]]
    BY DEF Inv, RoutingInv, TypeOK, Values
  <1>2. <<s, k>> # w
    <2>1. SUFFICES ASSUME w = <<s, k>>
                   PROVE  FALSE
      OBVIOUS
    <2>2. w[2] # "bypass" /\ endpoint[w[1]][w[2]] = "foreign"
      BY <2>1 DEF Kinds
    <2>3. QED
      BY <2>1, <2>2 DEF Inv, RoutingInv, TodoInv
  <1>3. CASE w[2] = "bypass"
    BY <1>3 DEF Write
  <1>4. CASE w[2] # "bypass"
    <2>1. PICK other \in Services, kind \in Kinds : w = <<other, kind>>
      BY <1>4 DEF Work, Endpoints
    <2>2. endpoint' = [endpoint EXCEPT ![other][kind] = value] /\ ~(other = s /\ kind = k)
      BY <1>2, <1>4, <2>1 DEF Write
    <2>3. QED
      BY <1>1, <2>2
  <1>5. QED
    BY <1>3, <1>4

LEMMA StepSparesForeign ==
  ASSUME Inv, [Next]_vars, cmd' # cmd,
         NEW s \in Services, NEW k \in Kinds, endpoint[s][k] = "foreign", <<s, k>> \notin late
  PROVE  endpoint'[s][k] = "foreign"
  <1> USE DEF settings
  <1>1. ASSUME NEW p \in Procs, Leases(p)
        PROVE  endpoint' = endpoint
    BY <1>1 DEF Leases, Emergency, TakeProfile, TimedOut, TakeNetwork
  <1>2. ASSUME NEW p \in Procs, On(p)
        PROVE  endpoint' = endpoint \/ \E w \in Work : w \in cmd[p].todo /\ Write(w, "own", "declared")
    BY <1>2 DEF On, Starts, StartRefused, StartFails, Rearm, TakeOver, Arm, Verify, EnableFails, NextWrite
  <1>3. ASSUME NEW p \in Procs, Off(p)
        PROVE  endpoint' = endpoint \/ \E w \in Work : w \in cmd[p].todo /\ Write(w, "off", snapshot[w[1]])
    BY <1>3 DEF Off, Restore, Undo, Confirm, RestoreFails, Stop, StopFails, NextWrite
  <1>4. ASSUME NEW p \in Procs, Switch(p) \/ Save(p) \/ Reinstall(p) \/ SaveFails(p) \/ OtherEnds(p) \/ Crash(p)
        PROVE  endpoint' = endpoint
    BY <1>4 DEF Switch, Save, Reinstall, SaveFails, OtherEnds, Crash
  <1>5. ASSUME NEW p \in Procs, NEW verb \in Verbs, Issue(p, verb)
        PROVE  endpoint' = endpoint
    BY <1>5 DEF Issue
  <1>6. ASSUME ListenerHangs \/ ListenerReturns \/ Rest \/ UNCHANGED vars
        PROVE  FALSE
    BY <1>6 DEF ListenerHangs, ListenerReturns, Rest, vars
  <1>7. ASSUME NEW other \in Services, NEW kind \in Kinds, NEW value \in Values,
               UserSetsProxy(other, kind, value)
        PROVE  FALSE
    BY <1>7 DEF UserSetsProxy
  <1>8. ASSUME NEW other \in Services, UserSetsBypass(other) \/ UserTogglesService(other)
        PROVE  FALSE
    BY <1>8 DEF UserSetsBypass, UserTogglesService
  <1>9. endpoint' = endpoint \/ \E p \in Procs, w \in Work, value \in Values :
          w \in cmd[p].todo /\ \E list : Write(w, value, list)
    <2>1. "own" \in Values /\ "off" \in Values
      BY DEF Values
    <2>2. CASE \E p \in Procs : On(p)
      BY <1>2, <2>1, <2>2
    <2>3. CASE \E p \in Procs : Off(p)
      BY <1>3, <2>1, <2>3
    <2>4. QED
      BY <1>1, <1>4, <1>5, <1>6, <1>7, <1>8, <2>2, <2>3 DEF Next, CommandStep, Values
  <1>10. QED
    BY <1>9, WritesSpareForeign

\* No command writes over a proxy that somebody else enabled before the command
\* took the network lease, however earlier commands failed.
THEOREM ForeignProxiesAreSpared == Spec => ForeignIsLeftAlone
  <1>1. Inv /\ [Next]_vars =>
          [cmd' # cmd => \A s \in Services, k \in Kinds :
             endpoint[s][k] = "foreign" /\ <<s, k>> \notin late => endpoint'[s][k] = "foreign"]_vars
    BY StepSparesForeign
  <1>2. QED
    BY <1>1, RoutingInvariant, PTL DEF Spec, ForeignIsLeftAlone

\* The steps that take an answering listener down are those of a stop.
LEMMA OnlyStopsStop ==
  ASSUME [Next]_vars, capture = "up", capture' = "down"
  PROVE  \E p \in Procs : (Stop(p) \/ StopFails(p)) /\ cmd[p].pc = "stop"
  <1>1. ASSUME NEW p \in Procs, Leases(p)
        PROVE  capture' = capture
    BY <1>1 DEF Leases, Emergency, TakeProfile, TimedOut, TakeNetwork
  <1>2. ASSUME NEW p \in Procs, On(p)
        PROVE  capture' = capture \/ capture' = "up"
    BY <1>2 DEF On, Starts, StartRefused, StartFails, Rearm, TakeOver, Arm, Verify, EnableFails
  <1>3. ASSUME NEW p \in Procs, Off(p)
        PROVE  capture' = capture \/ ((Stop(p) \/ StopFails(p)) /\ cmd[p].pc = "stop")
    BY <1>3 DEF Off, Restore, Undo, Confirm, RestoreFails, Stop, StopFails, At
  <1>4. ASSUME NEW p \in Procs, Switch(p) \/ Save(p) \/ Reinstall(p) \/ SaveFails(p) \/ OtherEnds(p) \/ Crash(p)
        PROVE  capture' = capture
    BY <1>4 DEF Switch, Save, Reinstall, SaveFails, OtherEnds, Crash
  <1>5. ASSUME NEW p \in Procs, NEW verb \in Verbs, Issue(p, verb)
        PROVE  capture' = capture
    BY <1>5 DEF Issue
  <1>6. ASSUME ListenerHangs \/ ListenerReturns \/ Rest \/ UNCHANGED vars
        PROVE  capture' = capture \/ capture' \in {"up", "hung"}
    BY <1>6 DEF ListenerHangs, ListenerReturns, Rest, vars
  <1>7. ASSUME NEW s \in Services, NEW k \in Kinds, NEW value \in Values, UserSetsProxy(s, k, value)
        PROVE  capture' = capture
    BY <1>7 DEF UserSetsProxy
  <1>8. ASSUME NEW s \in Services, UserSetsBypass(s) \/ UserTogglesService(s)
        PROVE  capture' = capture
    BY <1>8 DEF UserSetsBypass, UserTogglesService
  <1>9. QED
    BY <1>1, <1>2, <1>3, <1>4, <1>5, <1>6, <1>7, <1>8 DEF Next, CommandStep, Values

LEMMA StopsWhenDirect ==
  ASSUME Inv, Apart, [Next]_vars, capture = "up", capture' = "down",
         NEW s \in enabled, NEW k \in Kinds, endpoint[s][k] = "own"
  PROVE  <<s, k>> \in late \/ (mode = "explicit" /\ <<s, k>> \in manual)
  <1>1. PICK p \in Procs : cmd[p].pc = "stop"
    BY OnlyStopsStop
  <1>2. cmd[p].mode = mode /\ mode \in Modes /\ s \in Services /\ NothingIsLost
    BY <1>1, AgreementFacts, StepFacts DEF Works, Inv, RoutingInv, TypeOK
  <1>3. CASE mode = "system"
    BY <1>1, <1>2, <1>3, AgreementFacts
  <1>4. CASE mode = "explicit"
    <2>1. Saved = {}
      BY <1>4, AgreementFacts DEF Saved
    <2>2. QED
      BY <1>2, <1>4, <2>1 DEF NothingIsLost
  <1>5. QED
    BY <1>2, <1>3, <1>4 DEF Modes

\* No session repairs an installation and sets the routing too.
SessionsApart ==
  \A s \in Sessions : ~("repair" \in s.verbs /\ s.verbs \cap {"set system", "set explicit"} # {})

\* A listener that answers is never stopped while a listed service still sends
\* its traffic there, in every session that does not repair and set the routing.
THEOREM StopsAreDirect ==
  ASSUME SessionsApart
  PROVE  Spec => StopsOnlyWhenDirect
  <1>1. Init => Apart
    BY DEF SessionsApart, Init, Apart
  <1>2. Apart /\ [Next]_vars => Apart'
    BY VerbsStay DEF Apart
  <1>3. Inv /\ Apart /\ [Next]_vars =>
          [capture = "up" /\ capture' = "down" =>
             \A s \in enabled, k \in Kinds : endpoint[s][k] = "own" =>
               <<s, k>> \in late \/ (mode = "explicit" /\ <<s, k>> \in manual)]_vars
    BY StopsWhenDirect
  <1>4. QED
    BY <1>1, <1>2, <1>3, RoutingInvariant, PTL DEF Spec, StopsOnlyWhenDirect

=============================================================================
