----------------------------- MODULE StackProofs ------------------------------
(* Proofs about the interface state machine with its layers (InterfaceSM):   *)
(* its type invariant, the two safety invariants and its refinement of the   *)
(* machine IfaceSM that the selection and failover threads are checked with. *)
(*                                                                           *)
(* The transitions of the code are functions that call one another.  Each    *)
(* has a lemma that says what it does to the fields the invariants are about;*)
(* the state functions are then reasoned about with the lemmas alone.        *)
EXTENDS InterfaceSM, TLAPS

-----------------------------------------------------------------------------
(* The inductive invariant, as predicates of the data of the interface.      *)

(* The states in which the machine runs no client and no check.              *)
Idle == Configuring \cup {"none", "created", "REFRESHING", "DECONFIGURING", "EXIT"}

Serving6 == {"IPV6_LEASED", "DUAL_STACK", "MAPT_ACTIVE"}

(* A client that runs is known to run.                                       *)
Known(x) ==
    /\ x.run4 /\ ~ x.late => x.d4
    /\ x.run6 /\ ~ x.late => x.d6

NoClient4(x) == x.run4 => x.late
NoClient6(x) == x.run6 => x.late

(* SM_Running follows the state of the machine, and in the states before     *)
(* OBTAINING and after the tear down nothing runs.                           *)
Running(x) ==
    /\ x.SMRunning <=> x.st \in Loop \cup {"DECONFIGURING"}
    /\ x.st \in Idle => ~ x.check /\ NoClient4(x) /\ NoClient6(x)
    /\ x.st \notin Idle => x.Conn

(* What is published and what is set up in the states that serve.  A lease   *)
(* with MAP-T parameters was set up before they are used: if it were not,    *)
(* wan_transition_ipv4_down would go back to OBTAINING in mapt_up.           *)
Serves(x) ==
    /\ x.st \in Leased => x.Status = "UP"
    /\ x.st = "VALIDATING" => x.Status = "VALIDATING"
    /\ x.st \in {"IPV4_LEASED", "DUAL_STACK"} /\ ~ x.late /\ x.v4 /\ ~ x.ch4 => 4 \in x.dns
    /\ x.st \in Serving6 /\ ~ x.late /\ x.v6 /\ ~ x.ch6 => 6 \in x.dns
    /\ x.st \in Serving6 /\ x.mapt => x.v6 /\ (x.ch6 \/ x.conn6)

(* A layer is being configured only in the state that waits for it, so that  *)
(* wan_state_obtaining_ip_addresses never finds one that is.                 *)
Layers(x) ==
    /\ x.VLAN = "CONFIGURING" => prof.vlan /\ x.st = "VLAN_CONFIGURING"
    /\ x.PPP = "CONFIGURING" => prof.ppp /\ x.st = "PPP_CONFIGURING"

Settled(x) == x.VLAN # "CONFIGURING" /\ x.PPP # "CONFIGURING"

MachineInv(x) == x \in WType /\ Known(x) /\ Running(x) /\ Serves(x) /\ Layers(x)

StackInv == StackTypeOK /\ MachineInv(w)

-----------------------------------------------------------------------------
(* What the transitions leave alone.                                         *)
Frame(x, y) ==
    /\ y \in WType
    /\ Known(x) => Known(y)
    /\ Settled(x) => Settled(y)
    /\ y.SMRunning = x.SMRunning /\ y.Reset = x.Reset
    /\ y.Conn = x.Conn /\ y.late = x.late

(* Only clients are started or stopped.                                      *)
Clients(x, y) ==
    /\ Frame(x, y)
    /\ y.st = x.st /\ y.Status = x.Status /\ y.check = x.check
    /\ y.v4 = x.v4 /\ y.v6 = x.v6 /\ y.mapt = x.mapt
    /\ y.ch4 = x.ch4 /\ y.ch6 = x.ch6
    /\ y.conn4 = x.conn4 /\ y.conn6 = x.conn6 /\ y.dns = x.dns

LEMMA ClientFacts ==
    ASSUME NEW x \in WType
    PROVE  /\ Clients(x, Start4(x)) /\ Clients(x, Start6(x))
           /\ Clients(x, StopStarted4(x)) /\ Clients(x, StopStarted6(x))
           /\ Clients(x, Stop6(x))
<1>1. Clients(x, Start4(x))
  BY ZenonT(60) DEF WType, Clients, Frame, Known, Settled, Start4
<1>2. Clients(x, Start6(x))
  BY ZenonT(60) DEF WType, Clients, Frame, Known, Settled, Start6
<1>3. Clients(x, Stop4(x))
  <2>1. Stop4(x) \in WType
    BY ZenonT(30) DEF WType, Stop4
  <2>2. ~ Stop4(x).run4 /\ Stop4(x).run6 = x.run6 /\ Stop4(x).d6 = x.d6 /\ Stop4(x).late = x.late
    BY DEF WType, Stop4
  <2>3. Known(x) => Known(Stop4(x))
    BY <2>2 DEF Known
  <2>4. QED
    BY <2>1, <2>2, <2>3 DEF WType, Clients, Frame, Settled, Stop4
<1>5. Clients(x, Stop6(x))
  <2>1. Stop6(x) \in WType
    BY ZenonT(30) DEF WType, Stop6
  <2>2. ~ Stop6(x).run6 /\ Stop6(x).run4 = x.run4 /\ Stop6(x).d4 = x.d4 /\ Stop6(x).late = x.late
    BY DEF WType, Stop6
  <2>3. Known(x) => Known(Stop6(x))
    BY <2>2 DEF Known
  <2>4. QED
    BY <2>1, <2>2, <2>3 DEF WType, Clients, Frame, Settled, Stop6
<1>4. Clients(x, x)
  BY DEF Clients, Frame
<1>6. QED
  BY <1>1, <1>2, <1>3, <1>4, <1>5 DEF StopStarted4, StopStarted6

(* A client that is known to run is stopped.                                 *)
LEMMA StopFacts ==
    ASSUME NEW x \in WType, Known(x)
    PROVE  /\ NoClient4(StopStarted4(x))
           /\ NoClient6(StopStarted6(x))
           /\ NoClient4(x) => NoClient4(StopStarted6(x))
  BY DEF WType, Known, NoClient4, NoClient6, StopStarted4, StopStarted6, Stop4, Stop6

LEMMA MonitorFacts ==
    ASSUME NEW x \in WType
    PROVE  Clients(x, MonitorDhcp(x))
<1> DEFINE asked == CASE x.Mode = "NO_IP"      -> <<FALSE, FALSE>>
                      [] x.Mode = "IPV6_ONLY"  -> <<FALSE, TRUE>>
                      [] x.Mode = "IPV4_ONLY"  -> <<TRUE, FALSE>>
                      [] x.Mode = "DUAL_STACK" -> <<TRUE, TRUE>>
           now == x.Refresh /\ <<x.d4, x.d6>> # asked
<1>1. now \in BOOLEAN
  OBVIOUS
<1>2. MonitorDhcp(x) = IF ~ ctl.en \/ adm.Sel = "NOT_SELECTED" \/ ~ adm.IfEnable THEN x
                       ELSE [x EXCEPT !.Refresh = now]
  BY DEF MonitorDhcp
<1> HIDE DEF now, asked
<1>3. QED
  BY <1>1, <1>2 DEF WType, Clients, Frame, Known, Settled

-----------------------------------------------------------------------------
(* Name servers, system events and the connectivity check.                   *)
SameLease(x, y) ==
    /\ y.st = x.st /\ y.Status = x.Status
    /\ y.v4 = x.v4 /\ y.v6 = x.v6 /\ y.mapt = x.mapt
    /\ y.ch4 = x.ch4 /\ y.ch6 = x.ch6

LEMMA FrameTransitive ==
    ASSUME NEW x, NEW y, NEW z, Frame(x, y), Frame(y, z)
    PROVE  Frame(x, z)
  BY DEF Frame

(* A step that changes none of these fields keeps what is known of clients.  *)
SameClients(x, y) ==
    /\ y.run4 = x.run4 /\ y.run6 = x.run6 /\ y.d4 = x.d4 /\ y.d6 = x.d6
    /\ y.SMRunning = x.SMRunning /\ y.Reset = x.Reset
    /\ y.Conn = x.Conn /\ y.late = x.late
    /\ y.VLAN = x.VLAN /\ y.PPP = x.PPP

LEMMA KnownKept ==
    ASSUME NEW x, NEW y \in WType, SameClients(x, y)
    PROVE  Frame(x, y)
  BY DEF Frame, Known, Settled, SameClients

LEMMA CheckFacts ==
    ASSUME NEW x \in WType
    PROVE  /\ Frame(x, StartCheck(x)) /\ SameLease(x, StartCheck(x))
           /\ StartCheck(x).conn4 = x.conn4 /\ StartCheck(x).conn6 = x.conn6
           /\ StartCheck(x).dns = x.dns
           /\ Frame(x, StopCheck(x)) /\ SameLease(x, StopCheck(x))
           /\ StopCheck(x).conn4 = x.conn4 /\ StopCheck(x).conn6 = x.conn6
           /\ StopCheck(x).dns = x.dns
           /\ ~ StopCheck(x).check
<1> DEFINE on == x.check \/ prof.tad \/ x.Status = "UP"
<1>1. on \in BOOLEAN
  OBVIOUS
<1>2. StartCheck(x) = [x EXCEPT !.check = on]
  BY DEF StartCheck
<1> HIDE DEF on
<1>3. Frame(x, StartCheck(x))
  <2>1. StartCheck(x) \in WType /\ SameClients(x, StartCheck(x))
    BY <1>1, <1>2 DEF WType, SameClients
  <2>2. QED
    BY <2>1, KnownKept
<1>4. Frame(x, StopCheck(x))
  <2>1. StopCheck(x) \in WType /\ SameClients(x, StopCheck(x))
    BY ZenonT(30) DEF WType, StopCheck, SameClients
  <2>2. QED
    BY <2>1, KnownKept
<1>5. QED
  BY <1>1, <1>2, <1>3, <1>4 DEF WType, StopCheck, SameLease

LEMMA FamiliesFacts ==
    ASSUME NEW x \in WType
    PROVE  /\ Families(x) \in SUBSET {4, 6}
           /\ 4 \in Families(x) <=> x.v4
           /\ 6 \in Families(x) <=> x.v6
  BY DEF WType, Families

(* The events of one family are set after its name servers.                  *)
LEMMA SetUp4Facts ==
    ASSUME NEW x \in WType
    PROVE  /\ Frame(x, SetUpIPv4(x)) /\ SameLease(x, SetUpIPv4(x))
           /\ SetUpIPv4(x).conn4 /\ SetUpIPv4(x).conn6 = x.conn6
           /\ SetUpIPv4(x).dns = Families(x) \cup {4}
<1> DEFINE fs == Families(x) \cup {4}
           y  == [x EXCEPT !.dns = fs, !.conn4 = TRUE, !.wan = TRUE]
<1>1. fs \in SUBSET {4, 6}
  BY FamiliesFacts
<1>2. SetUpIPv4(x) = StartCheck(y)
  BY DEF SetUpIPv4, AddDNS, WType
<1> HIDE DEF fs
<1>3. y \in WType /\ Frame(x, y) /\ SameLease(x, y) /\ y.conn4 /\ y.conn6 = x.conn6 /\ y.dns = fs
  <2>1. y \in WType /\ SameClients(x, y)
    BY <1>1, ZenonT(30) DEF WType, SameClients
  <2>2. Frame(x, y)
    <3> HIDE DEF y
    <3>1. QED
      BY <2>1, KnownKept
  <2>3. QED
    BY <2>1, <2>2 DEF WType, SameLease
<1> HIDE DEF y
<1>4. QED
  BY <1>2, <1>3, CheckFacts, FrameTransitive DEF SameLease, fs

LEMMA SetUp6Facts ==
    ASSUME NEW x \in WType
    PROVE  /\ Frame(x, SetUpIPv6(x)) /\ SameLease(x, SetUpIPv6(x))
           /\ SetUpIPv6(x).conn6 /\ SetUpIPv6(x).conn4 = x.conn4
           /\ SetUpIPv6(x).dns = Families(x) \cup {6}
<1> DEFINE fs == Families(x) \cup {6}
           y  == [x EXCEPT !.dns = fs, !.conn6 = TRUE, !.wan = TRUE]
<1>1. fs \in SUBSET {4, 6}
  BY FamiliesFacts
<1>2. SetUpIPv6(x) = StartCheck(y)
  BY DEF SetUpIPv6, AddDNS, WType
<1> HIDE DEF fs
<1>3. y \in WType /\ Frame(x, y) /\ SameLease(x, y) /\ y.conn6 /\ y.conn4 = x.conn4 /\ y.dns = fs
  <2>1. y \in WType /\ SameClients(x, y)
    BY <1>1, ZenonT(30) DEF WType, SameClients
  <2>2. Frame(x, y)
    <3> HIDE DEF y
    <3>1. QED
      BY <2>1, KnownKept
  <2>3. QED
    BY <2>1, <2>2 DEF WType, SameLease
<1> HIDE DEF y
<1>4. QED
  BY <1>2, <1>3, CheckFacts, FrameTransitive DEF SameLease, fs

LEMMA TearDown4Facts ==
    ASSUME NEW x \in WType
    PROVE  /\ Frame(x, TearDownIPv4(x)) /\ SameLease(x, TearDownIPv4(x))
           /\ TearDownIPv4(x).conn6 = x.conn6 /\ TearDownIPv4(x).check = x.check
           /\ TearDownIPv4(x).dns = Families(x) \ {4}
<1> DEFINE fs == Families(x) \ {4}
           on == x.wan /\ x.v6
           y  == [x EXCEPT !.dns = fs, !.conn4 = FALSE, !.wan = on]
<1>1. fs \in SUBSET {4, 6} /\ on \in BOOLEAN
  BY FamiliesFacts
<1>2. TearDownIPv4(x) = y
  BY DEF TearDownIPv4, RemoveDNS, WType
<1> HIDE DEF fs, on
<1>3. y \in WType /\ SameClients(x, y)
  <2>1. y \in WType
    BY <1>1, ZenonT(30) DEF WType
  <2>2. SameClients(x, y)
    BY DEF WType, SameClients
  <2>3. QED
    BY <2>1, <2>2
<1>4. Frame(x, y)
  <2> HIDE DEF y
  <2>1. QED
    BY <1>3, KnownKept
<1>5. SameLease(x, y) /\ y.conn6 = x.conn6 /\ y.check = x.check /\ y.dns = fs
  BY DEF WType, SameLease
<1>6. QED
  BY <1>2, <1>4, <1>5 DEF fs

LEMMA TearDown6Facts ==
    ASSUME NEW x \in WType
    PROVE  /\ Frame(x, TearDownIPv6(x)) /\ SameLease(x, TearDownIPv6(x))
           /\ TearDownIPv6(x).conn4 = x.conn4 /\ TearDownIPv6(x).check = x.check
           /\ TearDownIPv6(x).dns = Families(x) \ {6}
<1> DEFINE fs == Families(x) \ {6}
           on == x.wan /\ (x.v4 \/ x.mapt)
           y  == [x EXCEPT !.dns = fs, !.conn6 = FALSE, !.wan = on]
<1>1. fs \in SUBSET {4, 6} /\ on \in BOOLEAN
  BY FamiliesFacts
<1>2. TearDownIPv6(x) = y
  BY DEF TearDownIPv6, RemoveDNS, WType
<1> HIDE DEF fs, on
<1>3. y \in WType /\ SameClients(x, y)
  <2>1. y \in WType
    BY <1>1, ZenonT(30) DEF WType
  <2>2. SameClients(x, y)
    BY DEF WType, SameClients
  <2>3. QED
    BY <2>1, <2>2
<1>4. Frame(x, y)
  <2> HIDE DEF y
  <2>1. QED
    BY <1>3, KnownKept
<1>5. SameLease(x, y) /\ y.conn4 = x.conn4 /\ y.check = x.check /\ y.dns = fs
  BY DEF WType, SameLease
<1>6. QED
  BY <1>2, <1>4, <1>5 DEF fs

-----------------------------------------------------------------------------
(* The transitions of the leases.                                            *)
Up4(x, y) ==
    /\ Frame(x, y)
    /\ y.st \in {"IPV4_LEASED", "DUAL_STACK"} /\ y.Status = "UP"
    /\ y.v4 = x.v4 /\ y.v6 = x.v6 /\ y.mapt = x.mapt
    /\ ~ y.ch4 /\ y.ch6 = x.ch6 /\ y.conn6 = x.conn6
    /\ y.st = "DUAL_STACK" => x.v6 /\ x.conn6
    /\ 4 \in y.dns
    /\ x.v6 => 6 \in y.dns

Up6(x, y) ==
    /\ Frame(x, y)
    /\ y.st \in {"IPV6_LEASED", "DUAL_STACK"} /\ y.Status = "UP"
    /\ y.v4 = x.v4 /\ y.v6 = x.v6 /\ y.mapt = x.mapt
    /\ y.ch4 = x.ch4 /\ y.ch6 = x.ch6 /\ y.conn6
    /\ 6 \in y.dns
    /\ x.v4 => 4 \in y.dns

Down4(x, y) ==
    /\ Frame(x, y)
    /\ y.st = (IF x.v6 /\ x.conn6 THEN "IPV6_LEASED" ELSE "OBTAINING")
    /\ y.Status = (IF x.v6 /\ x.conn6 THEN x.Status ELSE "VALIDATING")
    /\ ~ y.v4 /\ y.v6 = x.v6 /\ y.mapt = x.mapt
    /\ y.ch6 = x.ch6 /\ y.conn6 = x.conn6 /\ y.check = x.check
    /\ x.Status = "UP" /\ x.v6 => 6 \in y.dns

Down6(x, y) ==
    /\ Frame(x, y)
    /\ \/ y.st = "IPV4_LEASED" /\ y.Status = x.Status
       \/ y.st = "OBTAINING" /\ y.Status = "VALIDATING"
    /\ y.v4 = x.v4 /\ ~ y.v6 /\ ~ y.mapt
    /\ y.ch4 = x.ch4 /\ y.check = x.check
    /\ x.Status = "UP" /\ x.v4 => 4 \in y.dns

LEMMA GotoFacts ==
    ASSUME NEW x \in WType, NEW s \in SMStates
    PROVE  /\ Frame(x, Goto(x, s))
           /\ Goto(x, s).st = s /\ Goto(x, s).Status = x.Status
           /\ Goto(x, s).v4 = x.v4 /\ Goto(x, s).v6 = x.v6 /\ Goto(x, s).mapt = x.mapt
           /\ Goto(x, s).ch4 = x.ch4 /\ Goto(x, s).ch6 = x.ch6
           /\ Goto(x, s).conn4 = x.conn4 /\ Goto(x, s).conn6 = x.conn6
           /\ Goto(x, s).dns = x.dns /\ Goto(x, s).check = x.check
           /\ NoClient4(x) => NoClient4(Goto(x, s))
           /\ NoClient6(x) => NoClient6(Goto(x, s))
<1>1. Goto(x, s) \in WType /\ SameClients(x, Goto(x, s))
  BY DEF WType, Goto, SameClients
<1>2. Frame(x, Goto(x, s))
  BY <1>1, KnownKept
<1>3. QED
  BY <1>2 DEF WType, Goto, NoClient4, NoClient6

LEMMA Ipv4UpFacts ==
    ASSUME NEW x \in WType
    PROVE  Up4(x, Ipv4Up(x))
<1> DEFINE a == [x EXCEPT !.Status = "UP"]
           b == SetUpIPv4(a)
           c == [b EXCEPT !.ch4 = FALSE]
<1>1. a \in WType /\ Frame(x, a)
  <2>1. a \in WType /\ SameClients(x, a)
    BY DEF WType, SameClients
  <2>2. QED
    BY <2>1, KnownKept
<1>2. /\ a.st = x.st /\ a.Status = "UP" /\ a.v4 = x.v4 /\ a.v6 = x.v6 /\ a.mapt = x.mapt
      /\ a.ch6 = x.ch6 /\ a.conn6 = x.conn6
  BY DEF WType
<1> HIDE DEF a
<1>3. Frame(a, b) /\ SameLease(a, b) /\ b.conn6 = a.conn6 /\ b.dns = Families(a) \cup {4}
  BY <1>1, SetUp4Facts
<1>4. b \in WType
  BY <1>3 DEF Frame
<1> HIDE DEF b
<1>5. c \in WType /\ Frame(b, c)
  <2>1. c \in WType
    BY <1>4, ZenonT(30) DEF WType
  <2>2. SameClients(b, c)
    BY <1>4 DEF WType, SameClients
  <2>3. QED
    BY <2>1, <2>2, KnownKept
<1>6. /\ c.Status = b.Status /\ c.v4 = b.v4 /\ c.v6 = b.v6 /\ c.mapt = b.mapt
      /\ ~ c.ch4 /\ c.ch6 = b.ch6 /\ c.conn6 = b.conn6 /\ c.dns = b.dns
  BY <1>4 DEF WType
<1>7. Ipv4Up(x) = Goto(c, IF c.v6 /\ c.conn6 THEN "DUAL_STACK" ELSE "IPV4_LEASED")
  BY DEF Ipv4Up, a, b
<1> HIDE DEF c
<1>8. Frame(x, c)
  BY <1>1, <1>3, <1>5, FrameTransitive
<1>9. (x.v6 => 6 \in c.dns) /\ 4 \in c.dns
  BY <1>1, <1>2, <1>3, <1>6, FamiliesFacts
<1>13. /\ c.Status = "UP" /\ c.v4 = x.v4 /\ c.v6 = x.v6 /\ c.mapt = x.mapt
       /\ ~ c.ch4 /\ c.ch6 = x.ch6 /\ c.conn6 = x.conn6
  BY <1>2, <1>3, <1>6 DEF SameLease
<1>10. CASE c.v6 /\ c.conn6
  <2>1. Ipv4Up(x) = Goto(c, "DUAL_STACK")
    BY <1>7, <1>10
  <2>2. Frame(x, Ipv4Up(x))
    BY <1>5, <1>8, <2>1, GotoFacts, FrameTransitive DEF SMStates, Loop, Leased
  <2>3. QED
    BY <1>5, <1>9, <1>10, <1>13, <2>1, <2>2, GotoFacts DEF Up4, SMStates, Loop, Leased
<1>11. CASE ~ (c.v6 /\ c.conn6)
  <2>1. Ipv4Up(x) = Goto(c, "IPV4_LEASED")
    BY <1>7, <1>11
  <2>2. Frame(x, Ipv4Up(x))
    BY <1>5, <1>8, <2>1, GotoFacts, FrameTransitive DEF SMStates, Loop, Leased
  <2>3. QED
    BY <1>5, <1>9, <1>11, <1>13, <2>1, <2>2, GotoFacts DEF Up4, SMStates, Loop, Leased
<1>12. QED
  BY <1>10, <1>11

LEMMA Ipv6UpFacts ==
    ASSUME NEW x \in WType
    PROVE  Up6(x, Ipv6Up(x))
<1> DEFINE a == [x EXCEPT !.Status = "UP"]
           b == SetUpIPv6(a)
<1>1. a \in WType /\ Frame(x, a)
  <2>1. a \in WType /\ SameClients(x, a)
    BY DEF WType, SameClients
  <2>2. QED
    BY <2>1, KnownKept
<1>2. /\ a.Status = "UP" /\ a.v4 = x.v4 /\ a.v6 = x.v6 /\ a.mapt = x.mapt
      /\ a.ch4 = x.ch4 /\ a.ch6 = x.ch6
  BY DEF WType
<1> HIDE DEF a
<1>3. Frame(a, b) /\ SameLease(a, b) /\ b.conn6 /\ b.dns = Families(a) \cup {6}
  BY <1>1, SetUp6Facts
<1>4. b \in WType /\ Frame(x, b)
  BY <1>1, <1>3, FrameTransitive DEF Frame
<1>5. (x.v4 => 4 \in b.dns) /\ 6 \in b.dns
  BY <1>1, <1>2, <1>3, FamiliesFacts
<1> DEFINE s == IF b.v4 /\ b.conn4 THEN "DUAL_STACK" ELSE "IPV6_LEASED"
<1>6. Ipv6Up(x) = Goto(b, s)
  BY DEF Ipv6Up, a
<1>7. s \in {"IPV6_LEASED", "DUAL_STACK"} /\ s \in SMStates
  BY DEF SMStates, Loop, Leased
<1> HIDE DEF b, s
<1>8. Frame(x, Ipv6Up(x))
  BY <1>4, <1>6, <1>7, GotoFacts, FrameTransitive
<1>9. QED
  BY <1>2, <1>3, <1>4, <1>5, <1>6, <1>7, <1>8, GotoFacts DEF Up6, SameLease

(* The connection of a family is marked as gone.                             *)
LEMMA ConnectionDownFacts ==
    ASSUME NEW x \in WType
    PROVE  /\ Frame(x, ConnectionDown4(x)) /\ Frame(x, ConnectionDown6(x))
           /\ LET y == ConnectionDown4(x)
              IN  /\ y.st = x.st /\ y.Status = x.Status /\ y.check = x.check
                  /\ ~ y.v4 /\ ~ y.ch4 /\ y.v6 = x.v6 /\ y.ch6 = x.ch6 /\ y.mapt = x.mapt
                  /\ y.conn6 = x.conn6 /\ y.dns = x.dns
           /\ LET y == ConnectionDown6(x)
              IN  /\ y.st = x.st /\ y.Status = x.Status /\ y.check = x.check
                  /\ y.v4 = x.v4 /\ y.ch4 = x.ch4 /\ ~ y.v6 /\ ~ y.ch6 /\ ~ y.mapt
                  /\ y.dns = x.dns
<1>1. ConnectionDown4(x) \in WType
  BY ZenonT(30) DEF WType, ConnectionDown4
<1>2. SameClients(x, ConnectionDown4(x))
  BY DEF WType, ConnectionDown4, SameClients
<1>3. ConnectionDown6(x) \in WType
  BY ZenonT(60) DEF WType, ConnectionDown6
<1>4. SameClients(x, ConnectionDown6(x))
  BY DEF WType, ConnectionDown6, SameClients
<1>5. Frame(x, ConnectionDown4(x)) /\ Frame(x, ConnectionDown6(x))
  BY <1>1, <1>2, <1>3, <1>4, KnownKept
<1>6. QED
  BY <1>5 DEF WType, ConnectionDown4, ConnectionDown6

LEMMA ObtainingFacts ==
    ASSUME NEW x \in WType
    PROVE  LET y == BackToObtaining(x)
           IN  /\ Frame(x, y)
               /\ y.st = "OBTAINING" /\ y.Status = "VALIDATING" /\ y.check = x.check
               /\ y.v4 = x.v4 /\ y.ch4 = x.ch4 /\ y.v6 = x.v6 /\ y.ch6 = x.ch6
               /\ y.mapt = x.mapt /\ y.conn4 = x.conn4 /\ y.conn6 = x.conn6 /\ y.dns = x.dns
<1>1. BackToObtaining(x) \in WType /\ SameClients(x, BackToObtaining(x))
  BY ZenonT(30) DEF WType, BackToObtaining, SameClients, SMStates, Loop
<1>2. Frame(x, BackToObtaining(x))
  BY <1>1, KnownKept
<1>3. QED
  BY <1>2 DEF WType, BackToObtaining

LEMMA Ipv4DownFacts ==
    ASSUME NEW x \in WType
    PROVE  Down4(x, Ipv4Down(x))
<1> DEFINE a == IF MustStop(x) \/ VlanDown(x) \/ (x.Refresh /\ ~ Wants4(x))
                THEN StopStarted4(x)
                ELSE IF ~ x.d4 /\ ~ prof.ppp /\ ~ (prof.mapt /\ Active /\ x.mapt)
                THEN Start4(x) ELSE x
           b == ConnectionDown4(a)
           c == IF x.Status = "UP" THEN TearDownIPv4(b) ELSE b
<1>1. Clients(x, a)
  <2>1. Clients(x, x)
    BY DEF Clients, Frame
  <2>2. QED
    BY <2>1, ClientFacts
<1>2. Ipv4Down(x) = IF c.v6 /\ c.conn6 THEN Goto(c, "IPV6_LEASED") ELSE BackToObtaining(c)
  BY DEF Ipv4Down
<1> HIDE DEF a
<1>3. a \in WType /\ Frame(x, a)
  BY <1>1 DEF Clients, Frame
<1>4. /\ Frame(a, b) /\ b.Status = a.Status /\ b.check = a.check
      /\ ~ b.v4 /\ b.v6 = a.v6 /\ b.ch6 = a.ch6 /\ b.mapt = a.mapt /\ b.conn6 = a.conn6
  BY <1>3, ConnectionDownFacts
<1> HIDE DEF b
<1>5. b \in WType /\ Frame(x, b)
  BY <1>3, <1>4, FrameTransitive DEF Frame
<1>6. /\ Frame(b, c) /\ c.Status = b.Status /\ c.check = b.check
      /\ ~ c.v4 /\ c.v6 = b.v6 /\ c.ch6 = b.ch6 /\ c.mapt = b.mapt /\ c.conn6 = b.conn6
      /\ x.Status = "UP" /\ b.v6 => 6 \in c.dns
  <2>1. CASE x.Status = "UP"
    <3>1. c = TearDownIPv4(b)
      BY <2>1
    <3> HIDE DEF c
    <3>2. Frame(b, c) /\ SameLease(b, c) /\ c.conn6 = b.conn6 /\ c.check = b.check
          /\ c.dns = Families(b) \ {4}
      BY <1>5, <3>1, TearDown4Facts
    <3>3. QED
      BY <1>4, <1>5, <3>2, FamiliesFacts DEF SameLease
  <2>2. CASE x.Status # "UP"
    <3>1. Frame(b, b)
      BY <1>5 DEF Frame
    <3>2. QED
      BY <1>4, <2>2, <3>1
  <2>3. QED
    BY <2>1, <2>2
<1> HIDE DEF c
<1>7. c \in WType /\ Frame(x, c)
  BY <1>5, <1>6, FrameTransitive DEF Frame
<1>8. /\ c.Status = x.Status /\ c.check = x.check
      /\ ~ c.v4 /\ c.v6 = x.v6 /\ c.ch6 = x.ch6 /\ c.mapt = x.mapt /\ c.conn6 = x.conn6
      /\ x.Status = "UP" /\ x.v6 => 6 \in c.dns
  BY <1>1, <1>4, <1>6 DEF Clients
<1>9. CASE c.v6 /\ c.conn6
  <2>1. Ipv4Down(x) = Goto(c, "IPV6_LEASED")
    BY <1>2, <1>9
  <2>2. Frame(x, Ipv4Down(x))
    BY <1>7, <2>1, GotoFacts, FrameTransitive DEF SMStates, Loop, Leased
  <2>3. x.v6 /\ x.conn6
    BY <1>8, <1>9
  <2>4. "IPV6_LEASED" \in SMStates
    BY DEF SMStates, Loop, Leased
  <2> DEFINE y == Ipv4Down(x)
  <2>5. /\ y.st = "IPV6_LEASED" /\ y.Status = c.Status /\ y.v4 = c.v4 /\ y.v6 = c.v6
        /\ y.mapt = c.mapt /\ y.ch6 = c.ch6 /\ y.conn6 = c.conn6 /\ y.check = c.check
        /\ y.dns = c.dns
    BY <1>7, <2>1, <2>4, GotoFacts
  <2> HIDE DEF y
  <2>6. Frame(x, y)
    BY <2>2 DEF y
  <2>7. Down4(x, y)
    BY <1>8, <2>3, <2>5, <2>6 DEF Down4
  <2>8. QED
    BY <2>7 DEF y
<1>10. CASE ~ (c.v6 /\ c.conn6)
  <2>1. Ipv4Down(x) = BackToObtaining(c)
    BY <1>2, <1>10
  <2>2. Frame(x, Ipv4Down(x))
    BY <1>7, <2>1, ObtainingFacts, FrameTransitive
  <2>3. QED
    BY <1>7, <1>8, <1>10, <2>1, <2>2, ObtainingFacts DEF Down4
<1>11. QED
  BY <1>9, <1>10

LEMMA Ipv6DownFacts ==
    ASSUME NEW x \in WType
    PROVE  Down6(x, Ipv6Down(x))
<1> DEFINE a == IF MustStop(x) \/ VlanDown(x) \/ PppNotUp(x) \/ (x.Refresh /\ ~ Wants6(x))
                THEN Stop6(x)
                ELSE IF ~ x.d6 THEN Start6(x) ELSE x
           b == ConnectionDown6(a)
           c == IF x.Status = "UP" THEN TearDownIPv6(b) ELSE b
<1>1. Clients(x, a)
  <2>1. Clients(x, x)
    BY DEF Clients, Frame
  <2>2. QED
    BY <2>1, ClientFacts
<1>2. Ipv6Down(x) = IF c.v4 /\ c.conn4 THEN Goto(c, "IPV4_LEASED") ELSE BackToObtaining(c)
  BY DEF Ipv6Down
<1> HIDE DEF a
<1>3. a \in WType /\ Frame(x, a)
  BY <1>1 DEF Clients, Frame
<1>4. /\ Frame(a, b) /\ b.Status = a.Status /\ b.check = a.check
      /\ b.v4 = a.v4 /\ b.ch4 = a.ch4 /\ ~ b.v6 /\ ~ b.mapt
  BY <1>3, ConnectionDownFacts
<1> HIDE DEF b
<1>5. b \in WType /\ Frame(x, b)
  BY <1>3, <1>4, FrameTransitive DEF Frame
<1>6. /\ Frame(b, c) /\ c.Status = b.Status /\ c.check = b.check
      /\ c.v4 = b.v4 /\ c.ch4 = b.ch4 /\ ~ c.v6 /\ ~ c.mapt
      /\ x.Status = "UP" /\ b.v4 => 4 \in c.dns
  <2>1. CASE x.Status = "UP"
    <3>1. c = TearDownIPv6(b)
      BY <2>1
    <3> HIDE DEF c
    <3>2. Frame(b, c) /\ SameLease(b, c) /\ c.check = b.check /\ c.dns = Families(b) \ {6}
      BY <1>5, <3>1, TearDown6Facts
    <3>3. QED
      BY <1>4, <1>5, <3>2, FamiliesFacts DEF SameLease
  <2>2. CASE x.Status # "UP"
    <3>1. Frame(b, b)
      BY <1>5 DEF Frame
    <3>2. QED
      BY <1>4, <2>2, <3>1
  <2>3. QED
    BY <2>1, <2>2
<1> HIDE DEF c
<1>7. c \in WType /\ Frame(x, c)
  BY <1>5, <1>6, FrameTransitive DEF Frame
<1>8. /\ c.Status = x.Status /\ c.check = x.check
      /\ c.v4 = x.v4 /\ c.ch4 = x.ch4 /\ ~ c.v6 /\ ~ c.mapt
      /\ x.Status = "UP" /\ x.v4 => 4 \in c.dns
  BY <1>1, <1>4, <1>6 DEF Clients
<1>9. CASE c.v4 /\ c.conn4
  <2>1. Ipv6Down(x) = Goto(c, "IPV4_LEASED")
    BY <1>2, <1>9
  <2>2. Frame(x, Ipv6Down(x))
    BY <1>7, <2>1, GotoFacts, FrameTransitive DEF SMStates, Loop, Leased
  <2>3. QED
    BY <1>7, <1>8, <2>1, <2>2, GotoFacts DEF Down6, SMStates, Loop, Leased
<1>10. CASE ~ (c.v4 /\ c.conn4)
  <2>1. Ipv6Down(x) = BackToObtaining(c)
    BY <1>2, <1>10
  <2>2. Frame(x, Ipv6Down(x))
    BY <1>7, <2>1, ObtainingFacts, FrameTransitive
  <2>3. QED
    BY <1>7, <1>8, <2>1, <2>2, ObtainingFacts DEF Down6
<1>11. QED
  BY <1>9, <1>10

-----------------------------------------------------------------------------
(* The transitions that call others.                                         *)
LEMMA FrameReflexive ==
    ASSUME NEW x \in WType
    PROVE  Frame(x, x) /\ Clients(x, x)
  BY DEF Frame, Clients

NoMapt(x, y) ==
    /\ Frame(x, y)
    /\ y.st = "IPV6_LEASED" /\ y.Status = x.Status
    /\ ~ y.v4 /\ y.v6 = x.v6 /\ ~ y.mapt
    /\ y.ch6 = x.ch6 /\ y.conn6 = x.conn6 /\ y.dns = x.dns

LEMMA MaptDownFacts ==
    ASSUME NEW x \in WType
    PROVE  NoMapt(x, MaptDown(x))
<1> DEFINE a == [x EXCEPT !.mapt = FALSE, !.chM = FALSE]
           b == ConnectionDown4(a)
           c == IF MustStop(x) \/ ~ Active THEN b
                ELSE IF prof.ppp THEN [b EXCEPT !.pppReq = TRUE] ELSE Start4(b)
<1>1. a \in WType /\ Frame(x, a)
  <2>1. a \in WType
    BY ZenonT(30) DEF WType
  <2>2. SameClients(x, a)
    BY DEF WType, SameClients
  <2>3. QED
    BY <2>1, <2>2, KnownKept
<1>2. /\ a.Status = x.Status /\ a.v6 = x.v6 /\ ~ a.mapt /\ a.ch6 = x.ch6
      /\ a.conn6 = x.conn6 /\ a.dns = x.dns
  BY DEF WType
<1>3. MaptDown(x) = Goto(c, "IPV6_LEASED")
  BY DEF MaptDown
<1> HIDE DEF a
<1>4. /\ Frame(a, b) /\ b.Status = a.Status /\ ~ b.v4 /\ b.v6 = a.v6 /\ b.mapt = a.mapt
      /\ b.ch6 = a.ch6 /\ b.conn6 = a.conn6 /\ b.dns = a.dns
  BY <1>1, ConnectionDownFacts
<1> HIDE DEF b
<1>5. b \in WType /\ Frame(x, b)
  BY <1>1, <1>4, FrameTransitive DEF Frame
<1>6. Clients(b, c)
  <2>1. Clients(b, [b EXCEPT !.pppReq = TRUE])
    <3> DEFINE r == [b EXCEPT !.pppReq = TRUE]
    <3>1. r \in WType
      BY <1>5, ZenonT(30) DEF WType
    <3>2. SameClients(b, r)
      BY <1>5 DEF WType, SameClients
    <3>3. Frame(b, r)
      <4> HIDE DEF r
      <4>1. QED
        BY <3>1, <3>2, KnownKept
    <3>4. QED
      BY <1>5, <3>3 DEF WType, Clients
  <2>2. QED
    BY <1>5, <2>1, ClientFacts, FrameReflexive
<1> HIDE DEF c
<1>7. c \in WType /\ Frame(x, c)
  BY <1>5, <1>6, FrameTransitive DEF Clients, Frame
<1>8. /\ c.Status = x.Status /\ ~ c.v4 /\ c.v6 = x.v6 /\ ~ c.mapt
      /\ c.ch6 = x.ch6 /\ c.conn6 = x.conn6 /\ c.dns = x.dns
  BY <1>2, <1>4, <1>6 DEF Clients
<1>9. "IPV6_LEASED" \in SMStates
  BY DEF SMStates, Loop, Leased
<1>10. Frame(x, MaptDown(x))
  BY <1>3, <1>7, <1>9, GotoFacts, FrameTransitive
<1>11. QED
  BY <1>3, <1>7, <1>8, <1>9, <1>10, GotoFacts DEF NoMapt

(* The last writes of wan_transition_physical_interface_down.                *)
LEMMA LinksFacts ==
    ASSUME NEW x \in WType, NEW p \in LinkStates, NEW v \in LinkStates
    PROVE  [x EXCEPT !.timer = "NOTSTARTED", !.pppReq = FALSE, !.vlanReq = FALSE,
                     !.PPP = p, !.VLAN = v] \in WType
  BY ZenonT(30) DEF WType

(* wan_transition_physical_interface_down leaves nothing that runs.          *)
TornDown(x, y) ==
    /\ Frame(x, y)
    /\ y.st = (IF x.Reset \/ x.VReset \/ x.Expired THEN "REFRESHING" ELSE "DECONFIGURING")
    /\ y.Status \in {x.Status, "VALIDATING"}
    /\ ~ y.check /\ Settled(y)
    /\ Known(x) => NoClient4(y) /\ NoClient6(y)

LEMMA PhysicalFacts ==
    ASSUME NEW x \in WType
    PROVE  TornDown(x, PhysicalInterfaceDown(x))
<1> DEFINE a == IF x.mapt THEN MaptDown(x) ELSE x
           b == IF a.v4 THEN Ipv4Down(a) ELSE a
           c == IF b.v6 THEN Ipv6Down(b) ELSE b
           d == StopStarted4(c)
           e == StopStarted6(d)
           f == StopCheck(e)
           ppp  == IF f.PPP = "CONFIGURING" THEN "DOWN" ELSE f.PPP
           vlan == IF f.VLAN = "CONFIGURING" THEN "DOWN" ELSE f.VLAN
           h == [f EXCEPT !.timer = "NOTSTARTED", !.pppReq = FALSE, !.vlanReq = FALSE,
                          !.PPP = ppp, !.VLAN = vlan]
           s == IF x.Reset \/ x.VReset \/ x.Expired THEN "REFRESHING" ELSE "DECONFIGURING"
<1>1. PhysicalInterfaceDown(x) = Goto(h, s)
  BY DEF PhysicalInterfaceDown
<1>2. s \in SMStates
  BY DEF SMStates, Loop
<1>3. Frame(x, a) /\ a.Status = x.Status
  BY MaptDownFacts, FrameReflexive DEF NoMapt
<1>4. a \in WType
  BY <1>3 DEF Frame
<1> HIDE DEF a, s
<1>5. Frame(a, b) /\ b.Status \in {a.Status, "VALIDATING"}
  BY <1>4, Ipv4DownFacts, FrameReflexive DEF Down4
<1>6. b \in WType
  BY <1>5 DEF Frame
<1> HIDE DEF b
<1>7. Frame(b, c) /\ c.Status \in {b.Status, "VALIDATING"}
  BY <1>6, Ipv6DownFacts, FrameReflexive DEF Down6
<1>8. c \in WType /\ Frame(x, c) /\ c.Status \in {x.Status, "VALIDATING"}
  BY <1>3, <1>5, <1>7, FrameTransitive DEF Frame
<1> HIDE DEF c
<1>9. Clients(c, d)
  BY <1>8, ClientFacts
<1>10. d \in WType /\ Frame(x, d) /\ d.Status = c.Status
  BY <1>8, <1>9, FrameTransitive DEF Clients, Frame
<1>11. Known(c) => NoClient4(d)
  BY <1>8, StopFacts
<1> HIDE DEF d
<1>12. Clients(d, e)
  BY <1>10, ClientFacts
<1>13. e \in WType /\ Frame(x, e) /\ e.Status = d.Status
  BY <1>10, <1>12, FrameTransitive DEF Clients, Frame
<1>14. Known(x) => NoClient4(e) /\ NoClient6(e)
  <2>1. Known(x) => Known(c) /\ Known(d)
    BY <1>8, <1>10 DEF Frame
  <2>2. QED
    BY <1>10, <1>11, <2>1, StopFacts
<1> HIDE DEF e
<1>15. f \in WType /\ Frame(e, f) /\ f.Status = e.Status /\ ~ f.check
  BY <1>13, CheckFacts DEF Frame, SameLease
<1>16. f.run4 = e.run4 /\ f.run6 = e.run6 /\ f.late = e.late
  BY <1>13 DEF WType, StopCheck
<1> HIDE DEF f
<1>17. /\ ppp \in LinkStates \ {"CONFIGURING"}
       /\ vlan \in LinkStates \ {"CONFIGURING"}
  BY <1>15 DEF WType, LinkStates
<1> HIDE DEF ppp, vlan
<1>18. h \in WType
  BY <1>15, <1>17, LinksFacts
<1>19. /\ h.Status = f.Status /\ h.check = f.check /\ h.run4 = f.run4 /\ h.run6 = f.run6
       /\ h.d4 = f.d4 /\ h.d6 = f.d6 /\ h.SMRunning = f.SMRunning /\ h.Reset = f.Reset
       /\ h.Conn = f.Conn /\ h.late = f.late /\ h.PPP = ppp /\ h.VLAN = vlan
  BY <1>15 DEF WType
<1> HIDE DEF h
<1>20. Settled(h)
  BY <1>17, <1>19 DEF Settled
<1>21. Frame(f, h)
  BY <1>18, <1>19, <1>20 DEF Frame, Known
<1>22. Frame(x, h)
  BY <1>13, <1>15, <1>21, FrameTransitive
<1>23. Known(x) => NoClient4(h) /\ NoClient6(h)
  BY <1>14, <1>16, <1>19 DEF NoClient4, NoClient6
<1>24. h.Status \in {x.Status, "VALIDATING"}
  BY <1>8, <1>10, <1>13, <1>15, <1>19
<1>25. ~ h.check
  BY <1>15, <1>19
<1> DEFINE y == Goto(h, s)
<1>26. /\ Frame(h, y) /\ y.st = s /\ y.Status = h.Status /\ y.check = h.check
       /\ NoClient4(h) => NoClient4(y)
       /\ NoClient6(h) => NoClient6(y)
  BY <1>2, <1>18, GotoFacts
<1> HIDE DEF y
<1>27. Frame(x, y) /\ Settled(y)
  BY <1>20, <1>22, <1>26, FrameTransitive DEF Frame
<1>28. TornDown(x, y)
  BY <1>23, <1>24, <1>25, <1>26, <1>27 DEF TornDown, s
<1>29. QED
  BY <1>1, <1>28 DEF y

(* The machine goes back to OBTAINING and asks for leases again.             *)
Back(x, y) == Frame(x, y) /\ y.st = "OBTAINING" /\ y.Status \in {x.Status, "VALIDATING"}

LEMMA DualStackDownFacts ==
    ASSUME NEW x \in WType
    PROVE  Back(x, DualStackDown(x))
<1> DEFINE a == [x EXCEPT !.Status = "VALIDATING"]
           b == Ipv4Down(a)
           c == Ipv6Down(b)
<1>1. a \in WType /\ SameClients(x, a) /\ a.Status = "VALIDATING"
  BY DEF WType, SameClients
<1>2. DualStackDown(x) = Goto(c, "OBTAINING")
  BY DEF DualStackDown
<1> HIDE DEF a
<1>3. Frame(x, a)
  BY <1>1, KnownKept
<1>4. Frame(a, b) /\ b.Status = "VALIDATING"
  BY <1>1, Ipv4DownFacts DEF Down4
<1>5. b \in WType
  BY <1>4 DEF Frame
<1> HIDE DEF b
<1>6. Frame(b, c) /\ c.Status = "VALIDATING"
  BY <1>4, <1>5, Ipv6DownFacts DEF Down6
<1>7. c \in WType
  BY <1>6 DEF Frame
<1> HIDE DEF c
<1>8. "OBTAINING" \in SMStates
  BY DEF SMStates, Loop
<1>9. Frame(x, Goto(c, "OBTAINING"))
  BY <1>3, <1>4, <1>6, <1>7, <1>8, GotoFacts, FrameTransitive
<1>10. QED
  BY <1>2, <1>6, <1>7, <1>8, <1>9, GotoFacts DEF Back

LEMMA MaptFeatureFacts ==
    ASSUME NEW x \in WType
    PROVE  Back(x, MaptFeatureRefresh(x))
<1> DEFINE a == Ipv6Down(x)
           b == [a EXCEPT !.featureChanged = FALSE]
           c == IF Wants6(x) THEN Start6(b) ELSE b
<1>1. Frame(x, a) /\ a.Status \in {x.Status, "VALIDATING"}
  BY Ipv6DownFacts DEF Down6
<1>2. a \in WType
  BY <1>1 DEF Frame
<1>3. MaptFeatureRefresh(x) = Goto(c, "OBTAINING")
  BY DEF MaptFeatureRefresh
<1> HIDE DEF a
<1>4. b \in WType
  BY <1>2, ZenonT(30) DEF WType
<1>5. SameClients(a, b) /\ b.Status = a.Status
  BY <1>2 DEF WType, SameClients
<1> HIDE DEF b
<1>6. Frame(a, b)
  BY <1>4, <1>5, KnownKept
<1>7. Clients(b, c)
  BY <1>4, ClientFacts, FrameReflexive
<1> HIDE DEF c
<1>8. Frame(b, c) /\ c.Status = b.Status /\ c \in WType
  BY <1>7 DEF Clients, Frame
<1>9. "OBTAINING" \in SMStates
  BY DEF SMStates, Loop
<1>10. Frame(x, Goto(c, "OBTAINING"))
  BY <1>1, <1>6, <1>8, <1>9, GotoFacts, FrameTransitive
<1>11. QED
  BY <1>1, <1>3, <1>5, <1>8, <1>9, <1>10, GotoFacts DEF Back

(* wan_transition_standby and wan_transition_standby_deconfig_ips            *)
StandsBy(x, y) == Frame(x, y) /\ y.st = "STANDBY" /\ y.Status = "STANDBY"

LEMMA StandbyFacts ==
    ASSUME NEW x \in WType
    PROVE  StandsBy(x, Standby(x))
<1> DEFINE a == [x EXCEPT !.Status = "STANDBY"]
           b == StartCheck(a)
<1>1. a \in WType /\ SameClients(x, a) /\ a.Status = "STANDBY"
  BY DEF WType, SameClients
<1>2. Standby(x) = Goto(b, "STANDBY")
  BY DEF Standby
<1> HIDE DEF a
<1>3. Frame(x, a)
  BY <1>1, KnownKept
<1>4. Frame(a, b) /\ b.Status = "STANDBY" /\ b \in WType
  BY <1>1, CheckFacts DEF SameLease, Frame
<1> HIDE DEF b
<1>5. "STANDBY" \in SMStates
  BY DEF SMStates, Loop
<1>6. Frame(x, Goto(b, "STANDBY"))
  BY <1>3, <1>4, <1>5, GotoFacts, FrameTransitive
<1>7. QED
  BY <1>2, <1>4, <1>5, <1>6, GotoFacts DEF StandsBy

LEMMA DeconfigFacts ==
    ASSUME NEW x \in WType
    PROVE  StandsBy(x, StandbyDeconfigIps(x))
<1> DEFINE a == IF prof.tad THEN x ELSE StopCheck(x)
           b == IF x.v4 THEN TearDownIPv4(a) ELSE a
           c == TearDownIPv6(b)
           d == [c EXCEPT !.ch6 = TRUE]
           e == IF x.v6 THEN d ELSE b
           y == [e EXCEPT !.Status = "STANDBY", !.st = "STANDBY"]
<1>1. StandbyDeconfigIps(x) = y
  BY DEF StandbyDeconfigIps
<1>2. Frame(x, a)
  BY CheckFacts, FrameReflexive
<1>3. a \in WType
  BY <1>2 DEF Frame
<1> HIDE DEF a
<1>4. Frame(a, b)
  BY <1>3, TearDown4Facts, FrameReflexive
<1>5. b \in WType /\ Frame(x, b)
  BY <1>2, <1>4, FrameTransitive DEF Frame
<1> HIDE DEF b
<1>6. c \in WType /\ Frame(x, c)
  BY <1>5, TearDown6Facts, FrameTransitive DEF Frame
<1> HIDE DEF c
<1>7. d \in WType
  BY <1>6, ZenonT(30) DEF WType
<1>8. SameClients(c, d)
  BY <1>6 DEF WType, SameClients
<1> HIDE DEF d
<1>9. Frame(x, d)
  BY <1>6, <1>7, <1>8, KnownKept, FrameTransitive
<1>10. e \in WType /\ Frame(x, e)
  BY <1>5, <1>7, <1>9
<1> HIDE DEF e
<1>11. y \in WType
  BY <1>10, ZenonT(30) DEF WType, SMStates, Loop
<1>12. SameClients(e, y) /\ y.st = "STANDBY" /\ y.Status = "STANDBY"
  BY <1>10 DEF WType, SameClients
<1> HIDE DEF y
<1>13. Frame(x, y)
  BY <1>10, <1>11, <1>12, KnownKept, FrameTransitive
<1>14. QED
  BY <1>1, <1>12, <1>13 DEF StandsBy

(* A changed lease: the other family keeps its name servers, this one has    *)
(* them again or its mark stays.                                             *)
Reconfigured4(x, y) ==
    /\ Frame(x, y) /\ y.st = x.st /\ y.Status = x.Status
    /\ y.v4 = x.v4 /\ y.v6 = x.v6 /\ y.mapt = x.mapt /\ y.ch6 = x.ch6 /\ y.conn6 = x.conn6
    /\ y.ch4 = x.ch4 \/ 4 \in y.dns
    /\ x.v6 => 6 \in y.dns

Reconfigured6(x, y) ==
    /\ Frame(x, y) /\ y.st = x.st /\ y.Status = x.Status
    /\ y.v4 = x.v4 /\ y.v6 = x.v6 /\ y.mapt = x.mapt /\ y.ch4 = x.ch4
    /\ y.ch6 = x.ch6 \/ (6 \in y.dns /\ y.conn6)
    /\ x.v4 => 4 \in y.dns

LEMMA Reconfigure4Facts ==
    ASSUME NEW x \in WType, NEW r \in Results
    PROVE  Reconfigured4(x, Reconfigure4(x, r))
<1> DEFINE a == TearDownIPv4(x)
           b == SetUpIPv4(a)
           c == [b EXCEPT !.ch4 = FALSE]
<1>1. /\ Frame(x, a) /\ SameLease(x, a) /\ a.conn6 = x.conn6
      /\ a.dns = Families(x) \ {4}
  BY TearDown4Facts
<1>2. a \in WType
  BY <1>1 DEF Frame
<1>3. Reconfigured4(x, a)
  BY <1>1, FamiliesFacts DEF Reconfigured4, SameLease
<1>4. \/ Reconfigure4(x, r) = a
      \/ Reconfigure4(x, r) = b
      \/ Reconfigure4(x, r) = c
  BY DEF Reconfigure4, Results
<1> HIDE DEF a
<1>5. Frame(a, b) /\ SameLease(a, b) /\ b.conn6 = a.conn6 /\ b.dns = Families(a) \cup {4}
  BY <1>2, SetUp4Facts
<1>6. b \in WType /\ Frame(x, b)
  BY <1>1, <1>5, FrameTransitive DEF Frame
<1>7. /\ b.st = x.st /\ b.Status = x.Status /\ b.v4 = x.v4 /\ b.v6 = x.v6
      /\ b.mapt = x.mapt /\ b.ch6 = x.ch6 /\ b.conn6 = x.conn6
      /\ 4 \in b.dns
      /\ x.v6 => 6 \in b.dns
  BY <1>1, <1>2, <1>5, FamiliesFacts DEF SameLease
<1>8. Reconfigured4(x, b)
  BY <1>6, <1>7 DEF Reconfigured4
<1> HIDE DEF b
<1>9. c \in WType
  BY <1>6, ZenonT(30) DEF WType
<1>10. /\ SameClients(b, c) /\ c.st = b.st /\ c.Status = b.Status /\ c.v4 = b.v4
       /\ c.v6 = b.v6 /\ c.mapt = b.mapt /\ c.ch6 = b.ch6 /\ c.conn6 = b.conn6 /\ c.dns = b.dns
  BY <1>6 DEF WType, SameClients
<1> HIDE DEF c
<1>11. Frame(x, c)
  BY <1>6, <1>9, <1>10, KnownKept, FrameTransitive
<1>12. Reconfigured4(x, c)
  BY <1>7, <1>10, <1>11 DEF Reconfigured4
<1>13. QED
  BY <1>3, <1>4, <1>8, <1>12

LEMMA Reconfigure6Facts ==
    ASSUME NEW x \in WType, NEW r \in Results
    PROVE  Reconfigured6(x, Reconfigure6(x, r))
<1> DEFINE a == TearDownIPv6(x)
           b == SetUpIPv6(a)
           c == [b EXCEPT !.ch6 = FALSE]
<1>1. Frame(x, a) /\ SameLease(x, a) /\ a.dns = Families(x) \ {6}
  BY TearDown6Facts
<1>2. a \in WType
  BY <1>1 DEF Frame
<1>3. Reconfigured6(x, a)
  BY <1>1, FamiliesFacts DEF Reconfigured6, SameLease
<1>4. \/ Reconfigure6(x, r) = a
      \/ Reconfigure6(x, r) = b
      \/ Reconfigure6(x, r) = c
  BY DEF Reconfigure6, Results
<1> HIDE DEF a
<1>5. Frame(a, b) /\ SameLease(a, b) /\ b.conn6 /\ b.dns = Families(a) \cup {6}
  BY <1>2, SetUp6Facts
<1>6. b \in WType /\ Frame(x, b)
  BY <1>1, <1>5, FrameTransitive DEF Frame
<1>7. /\ b.st = x.st /\ b.Status = x.Status /\ b.v4 = x.v4 /\ b.v6 = x.v6
      /\ b.mapt = x.mapt /\ b.ch4 = x.ch4 /\ b.conn6
      /\ 6 \in b.dns
      /\ x.v4 => 4 \in b.dns
  BY <1>1, <1>2, <1>5, FamiliesFacts DEF SameLease
<1>8. Reconfigured6(x, b)
  BY <1>6, <1>7 DEF Reconfigured6
<1> HIDE DEF b
<1>9. c \in WType
  BY <1>6, ZenonT(30) DEF WType
<1>10. /\ SameClients(b, c) /\ c.st = b.st /\ c.Status = b.Status /\ c.v4 = b.v4
       /\ c.v6 = b.v6 /\ c.mapt = b.mapt /\ c.ch4 = b.ch4 /\ c.conn6 = b.conn6 /\ c.dns = b.dns
  BY <1>6 DEF WType, SameClients
<1> HIDE DEF c
<1>11. Frame(x, c)
  BY <1>6, <1>9, <1>10, KnownKept, FrameTransitive
<1>12. Reconfigured6(x, c)
  BY <1>7, <1>10, <1>11 DEF Reconfigured6
<1>13. QED
  BY <1>3, <1>4, <1>8, <1>12

(* MAP-T is set up on an IPv6 lease that is: Status stays UP, since           *)
(* wan_transition_ipv4_down finds the IPv6 connection.                       *)
MaptIsUp(x, y) ==
    /\ Frame(x, y) /\ y.st \in {x.st, "MAPT_ACTIVE"} /\ y.Status = "UP"
    /\ ~ y.v4 /\ y.v6 = x.v6 /\ y.mapt = x.mapt /\ y.ch6 = x.ch6 /\ y.conn6 = x.conn6
    /\ 6 \in x.dns => 6 \in y.dns

LEMMA MaptUpFacts ==
    ASSUME NEW x \in WType, NEW r \in Results,
           x.st \in SMStates, x.Status = "UP", x.v6, x.conn6
    PROVE  MaptUp(x, r) = x \/ MaptIsUp(x, MaptUp(x, r))
<1> DEFINE seen == [x EXCEPT !.chM = FALSE]
           a == IF seen.ch4 /\ seen.v4 THEN Ipv4Up(seen) ELSE seen
           up == StopStarted4(a)
           b == IF up.v4 THEN Ipv4Down(up) ELSE up
           done == [b EXCEPT !.pppReq = FALSE]
<1>1. \/ MaptUp(x, r) = x
      \/ MaptUp(x, r) = Goto(done, x.st)
      \/ MaptUp(x, r) = Goto(done, "MAPT_ACTIVE")
  BY DEF MaptUp, Results
<1>2. seen \in WType
  BY ZenonT(30) DEF WType
<1>3. /\ SameClients(x, seen) /\ seen.Status = x.Status /\ seen.v6 = x.v6
      /\ seen.mapt = x.mapt /\ seen.ch6 = x.ch6 /\ seen.conn6 = x.conn6 /\ seen.dns = x.dns
  BY DEF WType, SameClients
<1> HIDE DEF seen
<1>4. Frame(x, seen)
  BY <1>2, <1>3, KnownKept
<1>5. /\ Frame(seen, a) /\ a.Status = seen.Status /\ a.v6 = seen.v6
      /\ a.mapt = seen.mapt /\ a.ch6 = seen.ch6 /\ a.conn6 = seen.conn6
      /\ 6 \in seen.dns => 6 \in a.dns
  BY <1>2, <1>3, Ipv4UpFacts, FrameReflexive DEF Up4
<1>6. a \in WType
  BY <1>5 DEF Frame
<1> HIDE DEF a
<1>7. Clients(a, up)
  BY <1>6, ClientFacts
<1>8. up \in WType /\ Frame(x, up)
  BY <1>4, <1>5, <1>7, FrameTransitive DEF Clients, Frame
<1>9. /\ up.Status = "UP" /\ up.v6 = x.v6 /\ up.mapt = x.mapt /\ up.ch6 = x.ch6
      /\ up.conn6 = x.conn6
      /\ 6 \in x.dns => 6 \in up.dns
  BY <1>3, <1>5, <1>7 DEF Clients
<1> HIDE DEF up
<1>10. up.v6 /\ up.conn6
  BY <1>9
<1>11. /\ Frame(x, b) /\ b.Status = "UP" /\ ~ b.v4 /\ b.v6 = x.v6 /\ b.mapt = x.mapt
       /\ b.ch6 = x.ch6 /\ b.conn6 = x.conn6
       /\ 6 \in x.dns => 6 \in b.dns
  <2>1. CASE up.v4
    <3>1. b = Ipv4Down(up)
      BY <2>1
    <3> HIDE DEF b
    <3>2. Down4(up, b)
      BY <1>8, <3>1, Ipv4DownFacts
    <3>3. b.Status = "UP"
      BY <1>9, <1>10, <3>2 DEF Down4
    <3>4. 6 \in b.dns
      BY <1>9, <1>10, <3>2 DEF Down4
    <3>5. ~ b.v4 /\ b.v6 = x.v6 /\ b.mapt = x.mapt /\ b.ch6 = x.ch6 /\ b.conn6 = x.conn6
      BY <1>9, <3>2 DEF Down4
    <3>6. Frame(x, b)
      BY <1>8, <3>2, FrameTransitive DEF Down4
    <3>7. QED
      BY <3>3, <3>4, <3>5, <3>6
  <2>2. CASE ~ up.v4
    <3>1. b = up
      BY <2>2
    <3>2. QED
      BY <1>8, <1>9, <2>2, <3>1
  <2>3. QED
    BY <2>1, <2>2
<1>12. b \in WType
  BY <1>11 DEF Frame
<1> HIDE DEF b
<1>13. done \in WType
  BY <1>12, ZenonT(60) DEF WType
<1>14. /\ SameClients(b, done) /\ done.Status = b.Status /\ done.v4 = b.v4 /\ done.v6 = b.v6
       /\ done.mapt = b.mapt /\ done.ch6 = b.ch6 /\ done.conn6 = b.conn6 /\ done.dns = b.dns
  BY <1>12 DEF WType, SameClients
<1> HIDE DEF done
<1>15. Frame(x, done)
  BY <1>11, <1>13, <1>14, KnownKept, FrameTransitive
<1>16. ASSUME NEW s \in {x.st, "MAPT_ACTIVE"}
       PROVE  MaptIsUp(x, Goto(done, s))
  <2>1. s \in SMStates
    BY DEF SMStates, Loop, Leased
  <2>2. Frame(x, Goto(done, s))
    BY <1>13, <1>15, <2>1, GotoFacts, FrameTransitive
  <2> DEFINE y == Goto(done, s)
  <2>3. /\ y.st = s /\ y.Status = done.Status /\ y.v4 = done.v4 /\ y.v6 = done.v6
        /\ y.mapt = done.mapt /\ y.ch6 = done.ch6 /\ y.conn6 = done.conn6 /\ y.dns = done.dns
    BY <1>13, <2>1, GotoFacts
  <2> HIDE DEF y
  <2>4. MaptIsUp(x, y)
    <3>1. Frame(x, y)
      BY <2>2 DEF y
    <3>2. QED
      BY <1>11, <1>14, <2>3, <3>1 DEF MaptIsUp
  <2>5. QED
    BY <2>4 DEF y
<1>17. QED
  BY <1>1, <1>16

(* wan_transition_wan_validated forgets the statuses of the clients: it must *)
(* find none that runs, unless it runs again for the timer of MAP-T.         *)
Validated(x, y) ==
    /\ y \in WType /\ y.st = "OBTAINING" /\ y.Status = x.Status
    /\ y.SMRunning = x.SMRunning /\ y.Reset = x.Reset /\ y.Conn /\ y.late = x.late
    /\ Settled(x) => Settled(y)
    /\ Known(x) /\ (x.timer = "EXPIRED" \/ (NoClient4(x) /\ NoClient6(x))) => Known(y)

LEMMA ForgetFacts ==
    ASSUME NEW x \in WType
    PROVE  [x EXCEPT !.ch6 = FALSE, !.d4 = FALSE, !.d6 = FALSE] \in WType
  BY ZenonT(60) DEF WType

LEMMA ClearFacts ==
    ASSUME NEW x \in WType
    PROVE  LET y == ClearDHCPData(x)
           IN  /\ y \in WType /\ y.st = x.st /\ y.Status = x.Status
               /\ y.SMRunning = x.SMRunning /\ y.Reset = x.Reset /\ y.late = x.late
               /\ y.Conn = x.Conn /\ y.VLAN = x.VLAN /\ y.PPP = x.PPP
               /\ y.run4 = x.run4 /\ y.run6 = x.run6 /\ y.check = x.check
<1> DEFINE a == [x EXCEPT !.v4 = FALSE, !.ch4 = FALSE, !.v6 = FALSE]
<1>1. ClearDHCPData(x) = [a EXCEPT !.ch6 = FALSE, !.d4 = FALSE, !.d6 = FALSE]
  BY DEF ClearDHCPData, WType
<1>2. a \in WType
  BY ZenonT(30) DEF WType
<1> HIDE DEF a
<1>4. ClearDHCPData(x) \in WType
  BY <1>1, <1>2, ForgetFacts
<1>5. QED
  BY <1>4 DEF WType, ClearDHCPData

LEMMA WanValidatedFacts ==
    ASSUME NEW x \in WType
    PROVE  Validated(x, WanValidated(x))
<1> DEFINE a == IF x.timer = "EXPIRED" THEN x ELSE ClearDHCPData(x)
           clean == [a EXCEPT !.Conn = TRUE]
           with4 == IF Wants4(clean) THEN Start4(clean) ELSE clean
           with6 == IF Wants6(x) /\ ~ with4.d6 THEN Start6(with4) ELSE with4
           six   == Start6(clean)
           only6 == [six EXCEPT !.timer = "RUNNING"]
           last  == IF prof.maptMode /\ x.timer # "EXPIRED" THEN only6 ELSE with6
<1>1. WanValidated(x) = Goto(last, "OBTAINING")
  <2>1. Wants4(clean) = Wants4(x)
    BY DEF Wants4, WType, ClearDHCPData
  <2>2. QED
    BY <2>1 DEF WanValidated
<1>2. /\ a \in WType /\ a.Status = x.Status /\ a.SMRunning = x.SMRunning /\ a.Reset = x.Reset
      /\ a.late = x.late /\ a.VLAN = x.VLAN /\ a.PPP = x.PPP
      /\ a.run4 = x.run4 /\ a.run6 = x.run6
  BY ClearFacts
<1>3. Known(x) /\ (x.timer = "EXPIRED" \/ (NoClient4(x) /\ NoClient6(x))) => Known(a)
  <2>1. CASE x.timer = "EXPIRED"
    BY <2>1
  <2>2. CASE x.timer # "EXPIRED"
    BY <1>2, <2>2 DEF Known, NoClient4, NoClient6
  <2>3. QED
    BY <2>1, <2>2
<1> HIDE DEF a
<1>4. clean \in WType
  BY <1>2, ZenonT(30) DEF WType
<1>5. /\ clean.Status = a.Status /\ clean.SMRunning = a.SMRunning /\ clean.Reset = a.Reset
      /\ clean.late = a.late /\ clean.VLAN = a.VLAN /\ clean.PPP = a.PPP
      /\ clean.run4 = a.run4 /\ clean.run6 = a.run6 /\ clean.d4 = a.d4 /\ clean.d6 = a.d6
      /\ clean.Conn
  BY <1>2 DEF WType
<1>6. Known(a) => Known(clean)
  BY <1>5 DEF Known
<1>7. Settled(x) => Settled(clean)
  BY <1>2, <1>5 DEF Settled
<1> HIDE DEF clean
<1>8. Clients(clean, with4)
  BY <1>4, ClientFacts, FrameReflexive
<1>9. with4 \in WType
  BY <1>8 DEF Clients, Frame
<1> HIDE DEF with4
<1>10. Clients(with4, with6)
  BY <1>9, ClientFacts, FrameReflexive
<1> HIDE DEF with6
<1>11. Clients(clean, six)
  BY <1>4, ClientFacts
<1>12. six \in WType
  BY <1>11 DEF Clients, Frame
<1> HIDE DEF six
<1>13. only6 \in WType
  BY <1>12 DEF WType
<1>14. SameClients(six, only6) /\ only6.Status = six.Status
  BY <1>12 DEF WType, SameClients
<1> HIDE DEF only6
<1>15. Frame(clean, only6) /\ only6.Status = clean.Status
  BY <1>11, <1>13, <1>14, KnownKept, FrameTransitive DEF Clients
<1>16. Frame(clean, with6) /\ with6.Status = clean.Status
  BY <1>8, <1>10, FrameTransitive DEF Clients
<1>17. Frame(clean, last) /\ last.Status = clean.Status
  BY <1>15, <1>16
<1>18. last \in WType
  BY <1>17 DEF Frame
<1> HIDE DEF last
<1>19. "OBTAINING" \in SMStates
  BY DEF SMStates, Loop
<1> DEFINE y == Goto(last, "OBTAINING")
<1>20. Frame(last, y) /\ y.st = "OBTAINING" /\ y.Status = last.Status
  BY <1>18, <1>19, GotoFacts
<1> HIDE DEF y
<1>21. Frame(clean, y)
  BY <1>17, <1>20, FrameTransitive
<1>22. Validated(x, y)
  BY <1>2, <1>3, <1>5, <1>6, <1>7, <1>17, <1>20, <1>21 DEF Validated, Frame
<1>23. QED
  BY <1>1, <1>22 DEF y

(* wan_state_obtaining_ip_addresses refreshes the clients.                   *)
LEMMA RefreshedFacts ==
    ASSUME NEW x \in WType, NEW s \in {x.Status, "VALIDATING"}
    PROVE  [x EXCEPT !.Refresh = FALSE, !.Status = s] \in WType
  BY ZenonT(30) DEF WType

LEMMA RefreshFacts ==
    ASSUME NEW x \in WType
    PROVE  LET y == RefreshClients(x)
           IN  Frame(x, y) /\ y.st = x.st /\ y.Status \in {x.Status, "VALIDATING"}
<1> DEFINE with4 == IF ~ Wants4(x) THEN StopStarted4(x)
                    ELSE IF x.d4 THEN x ELSE Start4(x)
           with6 == IF ~ Wants6(x) THEN StopStarted6(with4)
                    ELSE IF x.d6 THEN with4 ELSE Start6(with4)
           s == IF ~ with6.d4 /\ ~ with6.d6 THEN "VALIDATING" ELSE with6.Status
           y == [with6 EXCEPT !.Refresh = FALSE, !.Status = s]
<1>1. Clients(x, with4)
  BY ClientFacts, FrameReflexive
<1>2. with4 \in WType
  BY <1>1 DEF Clients, Frame
<1>3. Clients(with4, with6)
  <2> HIDE DEF with4
  <2>1. QED
    BY <1>2, ClientFacts, FrameReflexive
<1>4. with6 \in WType
  BY <1>3 DEF Clients, Frame
<1>5. RefreshClients(x) = y
  BY <1>4 DEF RefreshClients, WType
<1> HIDE DEF with4, with6
<1>8. s \in {with6.Status, "VALIDATING"}
  OBVIOUS
<1> HIDE DEF s
<1>6. y \in WType
  BY <1>4, <1>8, RefreshedFacts
<1>7. SameClients(with6, y) /\ y.st = with6.st /\ y.Status = s
  BY <1>4 DEF WType, SameClients
<1> HIDE DEF y
<1>9. Frame(x, y)
  BY <1>1, <1>3, <1>6, <1>7, KnownKept, FrameTransitive DEF Clients
<1>10. y.st = x.st /\ y.Status \in {x.Status, "VALIDATING"}
  BY <1>1, <1>3, <1>7, <1>8 DEF Clients
<1>11. QED
  BY <1>5, <1>9, <1>10

-----------------------------------------------------------------------------
(* What a state function may do to the machine, in the terms the machine     *)
(* IfaceSM is written in.                                                    *)

(* wan_transition_physical_interface_down                                    *)
Ended(x, y) ==
    /\ y.st \in {"REFRESHING", "DECONFIGURING"}
    /\ y.Status \in {x.Status, "VALIDATING"}
    /\ y.Conn = x.Conn
    /\ y.st = "DECONFIGURING" => IfDown /\ ~ x.Reset
    /\ x.st = "STANDBY" => IfDown

Configured(x, y) ==
    /\ x.st \in Configuring
    /\ \/ /\ y.st \in Configuring /\ y.Conn = x.Conn
          /\ y.Status \in {x.Status, "VALIDATING"}
       \/ y.st = "OBTAINING" /\ y.Conn /\ y.Status = "VALIDATING"

Obtained(x, y) ==
    /\ x.st = "OBTAINING" /\ y.Conn = x.Conn /\ ~ x.Reset
    /\ \/ y.st = "OBTAINING" /\ y.Status \in {x.Status, "VALIDATING"}
       \/ y.st = "STANDBY" /\ y.Status = "STANDBY" /\ ~ Active
       \/ y.st \in Leased /\ y.Status = "UP" /\ Active

StoodBy(x, y) ==
    /\ x.st = "STANDBY" /\ y.Conn = x.Conn
    /\ \/ y.st \in {"OBTAINING", "STANDBY"} /\ y.Status = x.Status
       \/ y.st \in Leased /\ y.Status = "UP" /\ Active

Served(x, y) ==
    /\ x.st \in Leased /\ y.Conn = x.Conn /\ ~ x.Reset
    /\ \/ y.st = "OBTAINING" /\ y.Status \in {x.Status, "VALIDATING"}
       \/ y.st = "STANDBY" /\ y.Status = "STANDBY"
       \/ y.st \in Leased /\ y.Status = "UP"

Outcome(x, y) ==
    /\ y.SMRunning = x.SMRunning /\ y.Reset = x.Reset
    /\ \/ Ended(x, y)
       \/ ~ IfDown /\ (Configured(x, y) \/ Obtained(x, y) \/ StoodBy(x, y) \/ Served(x, y))

(* A state function keeps the invariant and does one of these things.        *)
Sound(x, y) == MachineInv(y) /\ Outcome(x, y)

LEMMA StatesFacts ==
    /\ Loop \subseteq SMStates
    /\ Configuring \subseteq Idle
    /\ \A s \in Leased \cup {"OBTAINING", "STANDBY"} : s \in Loop /\ s \notin Idle
    /\ \A s \in Loop : s \in Idle => s \in Configuring \cup {"REFRESHING"}
  BY DEF SMStates, Loop, Leased, Idle, Configuring

LEMMA SettledFacts ==
    ASSUME NEW x, Layers(x), x.st \notin {"VLAN_CONFIGURING", "PPP_CONFIGURING"}
    PROVE  Settled(x)
  BY DEF Layers, Settled

LEMMA LayersFacts ==
    ASSUME NEW x, Settled(x)
    PROVE  Layers(x)
  BY DEF Layers, Settled

(* Clients only.                                                             *)
LEMMA InvClients ==
    ASSUME NEW x, NEW y, MachineInv(x), x.st \notin Idle, Clients(x, y)
    PROVE  MachineInv(y)
<1>1. Settled(x)
  BY SettledFacts DEF MachineInv, Idle, Configuring
<1>2. y \in WType /\ Known(y) /\ Layers(y)
  BY <1>1, LayersFacts DEF MachineInv, Clients, Frame
<1>3. Running(y)
  BY DEF MachineInv, Clients, Frame, Running
<1>4. Serves(y)
  BY DEF MachineInv, Clients, Frame, Serves
<1>5. QED
  BY <1>2, <1>3, <1>4 DEF MachineInv

LEMMA SoundClients ==
    ASSUME NEW x, NEW y, NEW z, Clients(x, y), Sound(y, z)
    PROVE  Sound(x, z)
  BY DEF Sound, Outcome, Ended, Configured, Obtained, StoodBy, Served, Clients, Frame

(* The machine ends or starts over.                                          *)
LEMMA Ends ==
    ASSUME NEW x, MachineInv(x), x.st \in Loop,
           x.st = "STANDBY" => IfDown,
           IfDown \/ x.Reset \/ x.VReset \/ x.Expired
    PROVE  Sound(x, PhysicalInterfaceDown(x))
<1> DEFINE y == PhysicalInterfaceDown(x)
<1>1. TornDown(x, y)
  BY PhysicalFacts DEF MachineInv
<1> HIDE DEF y
<1>2. y.st \in {"REFRESHING", "DECONFIGURING"}
  BY <1>1 DEF TornDown
<1>3. y \in WType /\ Known(y) /\ Layers(y)
  BY <1>1, LayersFacts DEF MachineInv, TornDown, Frame
<1>4. Running(y)
  BY <1>1, <1>2 DEF MachineInv, TornDown, Frame, Running, Idle, Loop
<1>5. Serves(y)
  BY <1>2 DEF Serves, Leased, Serving6
<1>6. Ended(x, y)
  BY <1>1, <1>2 DEF TornDown, Frame, Ended
<1>7. Sound(x, y)
  BY <1>1, <1>3, <1>4, <1>5, <1>6 DEF Sound, MachineInv, Outcome, TornDown, Frame
<1>8. QED
  BY <1>7 DEF y

LEMMA Expires ==
    ASSUME NEW x, MachineInv(x), x.st \in Loop \ {"STANDBY"}
    PROVE  Sound(x, Expire(x))
<1> DEFINE z == [x EXCEPT !.Expired = TRUE]
           y == PhysicalInterfaceDown(z)
<1>1. x \in WType
  BY DEF MachineInv
<1>2. /\ SameClients(x, z) /\ SameLease(x, z) /\ z.Expired
      /\ z.conn6 = x.conn6 /\ z.dns = x.dns /\ z.check = x.check
  BY <1>1 DEF WType, SameClients, SameLease
<1>3. z \in WType
  BY <1>1, ZenonT(30) DEF WType
<1>4. Expire(x) = y
  BY DEF Expire
<1> HIDE DEF z
<1>5. MachineInv(z)
  BY <1>2, <1>3 DEF MachineInv, Known, Running, NoClient4, NoClient6, Serves, Layers,
                    SameClients, SameLease
<1>6. Sound(z, y)
  BY <1>2, <1>5, Ends DEF SameLease
<1>7. y.st = "REFRESHING"
  BY <1>2, <1>3, PhysicalFacts DEF TornDown
<1> HIDE DEF y
<1>8. Ended(x, y)
  BY <1>2, <1>6, <1>7 DEF Sound, Outcome, Ended, Configured, Obtained, StoodBy, Served,
     SameClients, SameLease, Configuring, Leased
<1>9. Sound(x, y)
  BY <1>2, <1>6, <1>8 DEF Sound, Outcome, SameClients
<1>10. QED
  BY <1>4, <1>9

(* From a state that may run clients to another.                             *)
LEMMA InvMoves ==
    ASSUME NEW x, NEW y, MachineInv(x), x.st \notin Idle, x.st \in Loop,
           Frame(x, y), y.st \in Leased \cup {"OBTAINING", "STANDBY"}, Serves(y)
    PROVE  MachineInv(y)
<1>1. Settled(x)
  BY SettledFacts DEF MachineInv, Idle, Configuring
<1>2. y \in WType /\ Known(y) /\ Layers(y)
  BY <1>1, LayersFacts DEF MachineInv, Frame
<1>3. Running(y)
  BY StatesFacts DEF MachineInv, Frame, Running
<1>4. QED
  BY <1>2, <1>3 DEF MachineInv

LEMMA GoesBack ==
    ASSUME NEW x, NEW y, MachineInv(x), x.st \in Leased \cup {"OBTAINING"},
           ~ IfDown, ~ x.Reset, Back(x, y)
    PROVE  Sound(x, y)
<1>1. Serves(y)
  BY DEF Back, Serves, Leased, Serving6
<1>2. MachineInv(y)
  BY <1>1, InvMoves, StatesFacts DEF Back
<1>3. Obtained(x, y) \/ Served(x, y)
  BY DEF Back, Frame, Obtained, Served
<1>4. QED
  BY <1>2, <1>3 DEF Sound, Outcome, Back, Frame

LEMMA GoesToStandby ==
    ASSUME NEW x, NEW y, MachineInv(x), x.st \in Leased \cup {"OBTAINING"},
           x.st = "OBTAINING" => ~ Active,
           ~ IfDown, ~ x.Reset, StandsBy(x, y)
    PROVE  Sound(x, y)
<1>1. Serves(y)
  BY DEF StandsBy, Serves, Leased, Serving6
<1>2. MachineInv(y)
  BY <1>1, InvMoves, StatesFacts DEF StandsBy
<1>3. Obtained(x, y) \/ Served(x, y)
  BY DEF StandsBy, Frame, Obtained, Served
<1>4. QED
  BY <1>2, <1>3 DEF Sound, Outcome, StandsBy, Frame

LEMMA ComesUp ==
    ASSUME NEW x, NEW y, MachineInv(x), x.st \in Leased \cup {"OBTAINING", "STANDBY"},
           x.st \in Leased \/ Active, x.st = "STANDBY" \/ ~ x.Reset, ~ IfDown,
           Frame(x, y), y.st \in Leased, Serves(y)
    PROVE  Sound(x, y)
<1>1. MachineInv(y)
  BY InvMoves, StatesFacts
<1>2. y.Status = "UP"
  BY DEF Serves
<1>3. Obtained(x, y) \/ StoodBy(x, y) \/ Served(x, y)
  BY <1>2 DEF Frame, Obtained, StoodBy, Served, Leased
<1>4. QED
  BY <1>1, <1>3 DEF Sound, Outcome, Frame

LEMMA UpServes ==
    ASSUME NEW x, NEW y, Up4(x, y) \/ (Up6(x, y) /\ x.v6)
    PROVE  Serves(y) /\ y.st \in Leased /\ Frame(x, y)
  BY DEF Up4, Up6, Serves, Leased, Serving6

(* A family goes while the other may stay.                                   *)
LEMMA FamilyGoes ==
    ASSUME NEW x, MachineInv(x), x.st \in Leased, ~ IfDown, ~ x.Reset,
           NEW y, Down4(x, y) \/ Down6(x, y)
    PROVE  Sound(x, y)
<1>1. x.Status = "UP"
  BY DEF MachineInv, Serves
<1>2. CASE Down4(x, y) /\ x.v6 /\ x.conn6
  <2>1. y.st = "IPV6_LEASED" /\ y.Status = "UP" /\ y.v6 /\ y.conn6 /\ 6 \in y.dns /\ Frame(x, y)
    BY <1>1, <1>2 DEF Down4
  <2>2. Serves(y) /\ y.st \in Leased
    BY <2>1 DEF Serves, Leased, Serving6
  <2>3. QED
    BY <2>1, <2>2, ComesUp
<1>3. CASE Down4(x, y) /\ ~ (x.v6 /\ x.conn6)
  <2>1. Back(x, y)
    BY <1>3 DEF Down4, Back
  <2>2. QED
    BY <2>1, GoesBack
<1>4. CASE Down6(x, y)
  <2>1. CASE y.st = "IPV4_LEASED"
    <3>1. y.Status = "UP" /\ Frame(x, y) /\ (y.v4 => 4 \in y.dns)
      BY <1>1, <1>4, <2>1 DEF Down6
    <3>2. Serves(y) /\ y.st \in Leased
      BY <2>1, <3>1 DEF Serves, Leased, Serving6
    <3>3. QED
      BY <3>1, <3>2, ComesUp
  <2>2. CASE y.st # "IPV4_LEASED"
    <3>1. Back(x, y)
      BY <1>4, <2>2 DEF Down6, Back
    <3>2. QED
      BY <3>1, GoesBack
  <2>3. QED
    BY <2>1, <2>2
<1>5. QED
  BY <1>2, <1>3, <1>4

-----------------------------------------------------------------------------
(* The state functions, wan_state_..., one by one.                           *)
LEMMA LeaseSound ==
    ASSUME NEW x, MachineInv(x), x.st = "OBTAINING", ~ IfDown, ~ x.Reset, NEW ready
    PROVE  Sound(x, Lease(x, ready))
<1>1. x \in WType
  BY DEF MachineInv
<1>2. CASE x.v4 /\ Active
  <2>1. Up4(x, Lease(x, ready))
    BY <1>1, <1>2, Ipv4UpFacts DEF Lease
  <2>2. QED
    BY <1>2, <2>1, UpServes, ComesUp
<1>3. CASE Lease(x, ready) = Standby(x) /\ ~ Active
  BY <1>1, <1>3, StandbyFacts, GoesToStandby
<1>4. CASE Lease(x, ready) = Ipv6Up(x) /\ Active /\ x.v6
  <2>1. Up6(x, Lease(x, ready))
    BY <1>1, <1>4, Ipv6UpFacts
  <2>2. QED
    BY <1>4, <2>1, UpServes, ComesUp
<1>5. CASE Lease(x, ready) = [x EXCEPT !.ch6 = FALSE]
  <2> DEFINE y == [x EXCEPT !.ch6 = FALSE]
  <2>1. y \in WType
    BY <1>1, ZenonT(30) DEF WType
  <2>2. SameClients(x, y) /\ y.st = x.st /\ y.Status = x.Status
    BY <1>1 DEF WType, SameClients
  <2> HIDE DEF y
  <2>3. Back(x, y)
    BY <2>1, <2>2, KnownKept DEF Back
  <2>4. Sound(x, y)
    BY <2>3, GoesBack
  <2>5. QED
    BY <1>5, <2>4 DEF y
<1>6. CASE Lease(x, ready) = MaptFeatureRefresh(x)
  BY <1>1, <1>6, MaptFeatureFacts, GoesBack
<1>7. CASE Lease(x, ready) = x
  <2>1. Back(x, x)
    BY <1>1, FrameReflexive DEF Back
  <2>2. QED
    BY <1>7, <2>1, GoesBack
<1>8. QED
  BY <1>2, <1>3, <1>4, <1>5, <1>6, <1>7 DEF Lease

LEMMA ObtainingSound ==
    ASSUME NEW x, MachineInv(x), x.st = "OBTAINING", NEW late, NEW ready
    PROVE  Sound(x, ObtainingIp(x, late, ready))
<1> DEFINE y == IF prof.maptMode /\ x.mapt THEN [x EXCEPT !.timer = "COMPLETE"] ELSE x
           z == [y EXCEPT !.timer = "EXPIRED"]
           out == ObtainingIp(x, late, ready)
<1>1. x \in WType /\ x.VLAN # "CONFIGURING" /\ x.PPP # "CONFIGURING" /\ x.st \in Loop \ {"STANDBY"}
  BY StatesFacts DEF MachineInv, Layers
<1>2. CASE IfDown \/ x.Reset
  <2>1. out = PhysicalInterfaceDown(x)
    BY <1>2 DEF ObtainingIp
  <2>2. QED
    BY <1>1, <1>2, <2>1, Ends
<1>3. CASE out = Expire(x)
  BY <1>1, <1>3, Expires
<1>4. ASSUME ~ IfDown, ~ x.Reset, out # Expire(x)
      PROVE  Sound(x, out)
  <2>1. out = IF prof.maptMode /\ y.timer = "RUNNING"
              THEN IF late \/ y.v6 THEN WanValidated(z) ELSE y
              ELSE IF y.Refresh THEN RefreshClients(y)
              ELSE Lease(MonitorDhcp(y), ready)
    BY <1>1, <1>4 DEF ObtainingIp
  <2>2. Clients(x, y)
    <3> DEFINE c == [x EXCEPT !.timer = "COMPLETE"]
    <3>1. c \in WType
      BY <1>1 DEF WType
    <3>2. SameClients(x, c) /\ SameLease(x, c) /\ c.conn4 = x.conn4 /\ c.conn6 = x.conn6
          /\ c.dns = x.dns /\ c.check = x.check
      BY <1>1 DEF WType, SameClients, SameLease
    <3> HIDE DEF c
    <3>3. Clients(x, c)
      BY <3>1, <3>2, KnownKept DEF SameLease, Clients
    <3>4. QED
      BY <1>1, <3>3, FrameReflexive DEF c
  <2> HIDE DEF y
  <2>3. y \in WType /\ y.st = "OBTAINING" /\ y.Reset = x.Reset
    BY <2>2 DEF Clients, Frame
  <2>4. MachineInv(y)
    BY <2>2, InvClients, StatesFacts
  <2>5. CASE out = WanValidated(z)
    <3>1. z \in WType
      BY <2>3 DEF WType
    <3>2. SameClients(y, z) /\ z.Status = y.Status /\ z.timer = "EXPIRED"
      BY <2>3 DEF WType, SameClients
    <3> HIDE DEF z
    <3>3. Frame(x, z)
      BY <2>2, <3>1, <3>2, KnownKept, FrameTransitive DEF Clients
    <3>4. Validated(z, out)
      BY <2>5, <3>1, WanValidatedFacts
    <3>5. Known(out) /\ (Settled(x) => Settled(out))
      BY <3>2, <3>3, <3>4 DEF MachineInv, Frame, Validated
    <3>6. x.Conn
      BY StatesFacts DEF MachineInv, Running
    <3>7. x.Conn = TRUE /\ out.Conn = TRUE
      BY <1>1, <3>4, <3>6 DEF WType, Validated
    <3>8. Back(x, out)
      <4>1. out \in WType /\ out.st = "OBTAINING" /\ out.Status = x.Status
        BY <2>2, <3>2, <3>4 DEF Validated, Clients
      <4>2. out.SMRunning = x.SMRunning /\ out.Reset = x.Reset /\ out.late = x.late
        BY <3>3, <3>4 DEF Validated, Frame
      <4>3. QED
        BY <3>5, <3>7, <4>1, <4>2 DEF Back, Frame
    <3>9. QED
      BY <1>4, <3>8, GoesBack
  <2>6. CASE out = y
    <3>1. Back(x, y)
      BY <2>2, <2>3 DEF Clients, Back
    <3>2. QED
      BY <1>4, <2>6, <3>1, GoesBack
  <2>7. CASE out = RefreshClients(y)
    <3>1. Frame(y, out) /\ out.st = "OBTAINING" /\ out.Status \in {y.Status, "VALIDATING"}
      BY <2>3, <2>7, RefreshFacts
    <3>2. Back(x, out)
      BY <2>2, <3>1, FrameTransitive DEF Clients, Back
    <3>3. QED
      BY <1>4, <3>2, GoesBack
  <2>8. CASE out = Lease(MonitorDhcp(y), ready)
    <3> DEFINE m == MonitorDhcp(y)
    <3>1. Clients(y, m)
      BY <2>3, MonitorFacts
    <3> HIDE DEF m
    <3>2. MachineInv(m) /\ m.st = "OBTAINING" /\ m.Reset = x.Reset
      BY <2>3, <2>4, <3>1, InvClients, StatesFacts DEF Clients, Frame
    <3>3. ~ m.Reset
      BY <1>4, <3>2
    <3>4. Sound(m, Lease(m, ready))
      BY <1>4, <3>2, <3>3, LeaseSound
    <3>5. Sound(x, Lease(m, ready))
      BY <2>2, <3>1, <3>4, SoundClients
    <3>6. QED
      BY <2>8, <3>5 DEF m
  <2>9. QED
    BY <2>1, <2>5, <2>6, <2>7, <2>8
<1>5. QED
  BY <1>2, <1>3, <1>4

LEMMA StandbySound ==
    ASSUME NEW x, MachineInv(x), x.st = "STANDBY", NEW ready
    PROVE  Sound(x, InStandby(x, ready))
<1> DEFINE y == MonitorDhcp(x)
           out == InStandby(x, ready)
           seen == IF y.v6 THEN [y EXCEPT !.ch6 = FALSE] ELSE y
           six  == IF y.v6 /\ ready THEN Ipv6Up(seen) ELSE seen
<1>1. x \in WType /\ x.st \in Loop
  BY StatesFacts DEF MachineInv
<1>2. CASE IfDown
  <2>1. out = PhysicalInterfaceDown(x)
    BY <1>2 DEF InStandby
  <2>2. QED
    BY <1>1, <1>2, <2>1, Ends
<1>3. Clients(x, y)
  BY <1>1, MonitorFacts
<1>4. ASSUME ~ IfDown
      PROVE  Sound(x, out)
  <2>1. \/ out = Goto(y, "OBTAINING")
        \/ out = y
        \/ Active /\ out = (IF y.v4 THEN Ipv4Up(six) ELSE six)
    BY <1>4 DEF InStandby, StandbyActive
  <2> HIDE DEF y
  <2>2. y \in WType /\ y.st = "STANDBY"
    BY <1>3 DEF Clients, Frame
  <2>3. MachineInv(y)
    BY <1>3, InvClients, StatesFacts
  <2>4. ASSUME NEW z, Frame(y, z), z.st \in {"OBTAINING", "STANDBY"}, z.Status = y.Status
        PROVE  Sound(y, z)
    <3>1. Serves(z)
      BY <2>4 DEF Serves, Leased, Serving6
    <3>2. MachineInv(z)
      BY <2>2, <2>3, <2>4, <3>1, InvMoves, StatesFacts
    <3>3. StoodBy(y, z)
      BY <2>2, <2>4 DEF StoodBy, Frame
    <3>4. QED
      BY <1>4, <2>4, <3>2, <3>3 DEF Sound, Outcome, Frame
  <2>5. CASE out = Goto(y, "OBTAINING")
    <3>1. "OBTAINING" \in SMStates
      BY DEF SMStates, Loop
    <3>2. Sound(y, out)
      BY <2>2, <2>4, <2>5, <3>1, GotoFacts
    <3>3. QED
      BY <1>3, <3>2, SoundClients
  <2>6. CASE out = y
    BY <1>3, <2>2, <2>4, <2>6, FrameReflexive, SoundClients
  <2>7. CASE Active /\ out = (IF y.v4 THEN Ipv4Up(six) ELSE six)
    <3>1. Frame(y, seen) /\ seen.st = y.st /\ seen.Status = y.Status /\ seen.v6 = y.v6
      <4> DEFINE c == [y EXCEPT !.ch6 = FALSE]
      <4>1. c \in WType
        BY <2>2, ZenonT(30) DEF WType
      <4>2. SameClients(y, c) /\ c.st = y.st /\ c.Status = y.Status /\ c.v6 = y.v6
        BY <2>2 DEF WType, SameClients
      <4> HIDE DEF c
      <4>3. Frame(y, c)
        BY <4>1, <4>2, KnownKept
      <4>4. QED
        BY <2>2, <4>2, <4>3, FrameReflexive DEF c
    <3> HIDE DEF seen
    <3>2. seen \in WType
      BY <3>1 DEF Frame
    <3>3. \/ six = seen
          \/ Up6(seen, six) /\ seen.v6
      BY <3>1, <3>2, Ipv6UpFacts
    <3> HIDE DEF six
    <3>4. Frame(y, six) /\ six \in WType
      BY <3>1, <3>2, <3>3, FrameTransitive DEF Up6, Frame
    <3>5. CASE Up4(six, out)
      <4>1. Frame(y, out) /\ Serves(out) /\ out.st \in Leased
        BY <3>4, <3>5, UpServes, FrameTransitive
      <4>2. Sound(y, out)
        BY <1>4, <2>2, <2>3, <2>7, <4>1, ComesUp
      <4>3. QED
        BY <1>3, <4>2, SoundClients
    <3>6. CASE out = six /\ Up6(seen, six) /\ seen.v6
      <4>1. Frame(y, out) /\ Serves(out) /\ out.st \in Leased
        BY <3>4, <3>6, UpServes
      <4>2. Sound(y, out)
        BY <1>4, <2>2, <2>3, <2>7, <4>1, ComesUp
      <4>3. QED
        BY <1>3, <4>2, SoundClients
    <3>7. CASE out = six /\ six = seen
      BY <1>3, <2>2, <2>4, <3>1, <3>7, SoundClients
    <3>8. out = Ipv4Up(six) \/ out = six
      BY <2>7
    <3>9. QED
      BY <3>3, <3>4, <3>5, <3>6, <3>7, <3>8, Ipv4UpFacts
  <2>8. QED
    BY <2>1, <2>5, <2>6, <2>7
<1>5. QED
  BY <1>2, <1>4

LEMMA StaysUp ==
    ASSUME NEW x, NEW y, MachineInv(x), x.st \in Leased, ~ IfDown, ~ x.Reset,
           Frame(x, y), y.st \in Leased, Serves(y)
    PROVE  Sound(x, y)
  BY ComesUp

(* The states that serve.  The MAP-T states rely on the IPv6 connection that *)
(* Serves promises.                                                          *)
LEMMA MaptUpSound ==
    ASSUME NEW x, MachineInv(x), x.st \in Serving6, x.v6, x.mapt, ~ x.ch6,
           x.st = "DUAL_STACK" \/ ~ x.v4,
           ~ IfDown, ~ x.Reset, NEW r \in Results
    PROVE  Sound(x, MaptUp(x, r))
<1> DEFINE y == MaptUp(x, r)
<1>1. x \in WType /\ x.st \in SMStates /\ x.st \in Leased
  BY DEF MachineInv, SMStates, Loop, Leased, Serving6
<1>2. x.Status = "UP" /\ x.conn6 /\ (~ x.late => 6 \in x.dns)
  BY <1>1 DEF MachineInv, Serves
<1>3. y = x \/ MaptIsUp(x, y)
  BY <1>1, <1>2, MaptUpFacts
<1> HIDE DEF y
<1>4. ASSUME y = x
      PROVE  Sound(x, y)
  <2>1. Serves(x)
    BY DEF MachineInv
  <2>2. QED
    BY <1>1, <1>4, <2>1, FrameReflexive, StaysUp
<1>5. ASSUME MaptIsUp(x, y)
      PROVE  Sound(x, y)
  <2>1. Frame(x, y) /\ y.st \in Leased /\ y.Status = "UP" /\ ~ y.v4 /\ y.late = x.late
    BY <1>1, <1>5 DEF MaptIsUp, Frame, Leased
  <2>2. y.v6 /\ y.conn6 /\ (~ y.late => 6 \in y.dns)
    BY <1>2, <1>5, <2>1 DEF MaptIsUp
  <2>3. Serves(y)
    BY <2>1, <2>2 DEF Serves, Leased
  <2>4. QED
    BY <1>1, <2>1, <2>3, StaysUp
<1>6. QED
  BY <1>3, <1>4, <1>5 DEF y

(* wan_transition_standby_deconfig_ips, MAP-T feature and no change.         *)
LEMMA ServingMoves ==
    ASSUME NEW x, MachineInv(x), x.st \in Leased, ~ IfDown, ~ x.Reset
    PROVE  /\ Sound(x, StandbyDeconfigIps(x))
           /\ Sound(x, MaptFeatureRefresh(x))
           /\ Sound(x, x)
<1>1. x \in WType /\ Serves(x)
  BY DEF MachineInv
<1>2. Sound(x, StandbyDeconfigIps(x))
  BY <1>1, DeconfigFacts, GoesToStandby DEF Leased
<1>3. Sound(x, MaptFeatureRefresh(x))
  BY <1>1, MaptFeatureFacts, GoesBack
<1>4. Sound(x, x)
  BY <1>1, FrameReflexive, ComesUp
<1>5. QED
  BY <1>2, <1>3, <1>4

(* A reconfiguration, with what follows it.                                  *)
LEMMA ReconfigureSound ==
    ASSUME NEW x, MachineInv(x), x.st \in Leased, ~ IfDown, ~ x.Reset,
           NEW y, \/ x.ch4 /\ Reconfigured4(x, y)
                  \/ x.ch6 /\ Reconfigured6(x, y),
           NEW z, Clients(y, z)
    PROVE  Sound(x, z)
<1>1. Serves(x)
  BY DEF MachineInv
<1>2. /\ Frame(x, y) /\ y.st = x.st /\ y.Status = x.Status
      /\ ~ y.late /\ y.v4 /\ ~ y.ch4 /\ y.st \in {"IPV4_LEASED", "DUAL_STACK"} => 4 \in y.dns
      /\ ~ y.late /\ y.v6 /\ ~ y.ch6 /\ y.st \in Serving6 => 6 \in y.dns
      /\ y.mapt /\ y.st \in Serving6 => y.v6 /\ (y.ch6 \/ y.conn6)
  <2>1. CASE x.ch4 /\ Reconfigured4(x, y)
    BY <1>1, <2>1 DEF Reconfigured4, Serves
  <2>2. CASE x.ch6 /\ Reconfigured6(x, y)
    BY <1>1, <2>2 DEF Reconfigured6, Serves
  <2>3. QED
    BY <2>1, <2>2
<1>3. Serves(y)
  BY <1>1, <1>2 DEF Serves, Leased
<1>4. Serves(z) /\ z.st \in Leased
  BY <1>2, <1>3 DEF Serves, Clients, Frame
<1>5. Frame(x, z)
  BY <1>2, FrameTransitive DEF Clients
<1>6. QED
  BY <1>4, <1>5, ComesUp

LEMMA MonitorSound ==
    ASSUME NEW x, MachineInv(x), x.st \in Leased, ~ IfDown, ~ x.Reset
    PROVE  Sound(x, MonitorDhcp(x))
<1>1. x \in WType /\ Serves(x)
  BY DEF MachineInv
<1>2. Clients(x, MonitorDhcp(x))
  BY <1>1, MonitorFacts
<1>3. Serves(MonitorDhcp(x)) /\ MonitorDhcp(x).st \in Leased /\ Frame(x, MonitorDhcp(x))
  BY <1>1, <1>2 DEF Serves, Clients, Frame
<1>4. QED
  BY <1>3, ComesUp

(* The mark of a changed lease of the other family is dropped.               *)
LEMMA MarkSound ==
    ASSUME NEW x, MachineInv(x), x.st = "IPV4_LEASED", ~ IfDown, ~ x.Reset
    PROVE  Sound(x, [x EXCEPT !.ch6 = FALSE])
<1> DEFINE y == [x EXCEPT !.ch6 = FALSE]
<1>1. x \in WType /\ Serves(x) /\ x.st \in Leased
  BY DEF MachineInv, Leased
<1>2. y \in WType
  BY <1>1, ZenonT(30) DEF WType
<1>3. /\ SameClients(x, y) /\ y.st = x.st /\ y.Status = x.Status /\ y.v4 = x.v4
      /\ y.ch4 = x.ch4 /\ y.dns = x.dns
  BY <1>1 DEF WType, SameClients
<1> HIDE DEF y
<1>4. Frame(x, y)
  BY <1>2, <1>3, KnownKept
<1>5. Serves(y) /\ y.st \in Leased
  BY <1>1, <1>3, <1>4 DEF Serves, Frame, Leased, Serving6
<1>6. Sound(x, y)
  BY <1>1, <1>4, <1>5, ComesUp
<1>7. QED
  BY <1>6 DEF y

LEMMA Ipv4LeasedSound ==
    ASSUME NEW x, MachineInv(x), x.st = "IPV4_LEASED", NEW ready, NEW r \in Results
    PROVE  Sound(x, Ipv4Leased(x, ready, r))
<1> DEFINE a == IF x.Refresh /\ x.Mode = "DUAL_STACK" /\ ~ x.d6 THEN Start6(x) ELSE x
           y == MonitorDhcp(a)
           out == Ipv4Leased(x, ready, r)
<1>1. x \in WType
  BY DEF MachineInv
<1>2. Clients(x, a)
  BY <1>1, ClientFacts, FrameReflexive
<1>3. a \in WType /\ a.st = x.st /\ MachineInv(a)
  BY <1>2, InvClients DEF Clients, Frame, Idle, Configuring
<1>4. out = IF MustStop(y) THEN PhysicalInterfaceDown(y)
            ELSE IF ~ y.v4 \/ VlanDown(y) \/ PppNotUp(y) \/ (y.Refresh /\ ~ Wants4(y))
            THEN Ipv4Down(y)
            ELSE IF ~ Active \/ ctl.nw THEN StandbyDeconfigIps(y)
            ELSE IF y.ch4 THEN Reconfigure4(y, r)
            ELSE IF y.v6 /\ y.ch6 THEN [y EXCEPT !.ch6 = FALSE]
            ELSE IF y.v6 THEN IF ready THEN Ipv6Up(y) ELSE y
            ELSE IF MaptSwitchedOn(y) THEN MaptFeatureRefresh(y) ELSE y
  BY DEF Ipv4Leased
<1> HIDE DEF a
<1>5. Clients(a, y)
  BY <1>3, MonitorFacts
<1> HIDE DEF y
<1>6. y \in WType /\ y.st = "IPV4_LEASED" /\ MachineInv(y) /\ y.st \in Loop \ {"STANDBY"}
      /\ y.st \in Leased
  BY <1>3, <1>5, InvClients DEF Clients, Frame, Idle, Configuring, Loop, Leased
<1>7. Sound(y, out)
  <2>1. CASE MustStop(y)
    BY <1>4, <1>6, <2>1, Ends DEF MustStop
  <2>2. CASE ~ MustStop(y)
    <3>1. ~ IfDown /\ ~ y.Reset
      BY <2>2 DEF MustStop
    <3>2. \/ out = Ipv4Down(y)
          \/ out = StandbyDeconfigIps(y)
          \/ y.ch4 /\ out = Reconfigure4(y, r)
          \/ out = [y EXCEPT !.ch6 = FALSE]
          \/ y.v6 /\ out = Ipv6Up(y)
          \/ out = MaptFeatureRefresh(y)
          \/ out = y
      BY <1>4, <2>2
    <3>3. CASE out = Ipv4Down(y)
      BY <1>6, <3>1, <3>3, Ipv4DownFacts, FamilyGoes
    <3>4. CASE out \in {StandbyDeconfigIps(y), MaptFeatureRefresh(y), y}
      BY <1>6, <3>1, <3>4, ServingMoves
    <3>5. CASE y.ch4 /\ out = Reconfigure4(y, r)
      <4>1. Reconfigured4(y, out)
        BY <1>6, <3>5, Reconfigure4Facts
      <4>2. Clients(out, out)
        BY <4>1, FrameReflexive DEF Reconfigured4, Frame
      <4>3. QED
        BY <1>6, <3>1, <3>5, <4>1, <4>2, ReconfigureSound
    <3>6. CASE out = [y EXCEPT !.ch6 = FALSE]
      BY <1>6, <3>1, <3>6, MarkSound
    <3>7. CASE y.v6 /\ out = Ipv6Up(y)
      BY <1>6, <3>1, <3>7, Ipv6UpFacts, UpServes, ComesUp
    <3>8. QED
      BY <3>2, <3>3, <3>4, <3>5, <3>6, <3>7
  <2>3. QED
    BY <2>1, <2>2
<1>8. QED
  BY <1>2, <1>5, <1>7, SoundClients

LEMMA Ipv6LeasedSound ==
    ASSUME NEW x, MachineInv(x), x.st = "IPV6_LEASED", NEW ready, NEW r \in Results
    PROVE  Sound(x, Ipv6Leased(x, ready, r))
<1> DEFINE a == IF x.Refresh /\ Wants4(x) /\ x.Mode = "DUAL_STACK"
                      /\ x.timer # "COMPLETE" /\ ~ x.d4
                THEN Start4(x) ELSE x
           y == MonitorDhcp(a)
           out == Ipv6Leased(x, ready, r)
<1>1. x \in WType
  BY DEF MachineInv
<1>2. Clients(x, a)
  BY <1>1, ClientFacts, FrameReflexive
<1>3. a \in WType /\ a.st = x.st /\ MachineInv(a)
  BY <1>2, InvClients DEF Clients, Frame, Idle, Configuring
<1>4. out = IF MustStop(y) THEN PhysicalInterfaceDown(y)
            ELSE IF ~ y.v6 \/ VlanDown(y) \/ PppNotUp(y) \/ (y.Refresh /\ ~ Wants6(y))
            THEN Ipv6Down(y)
            ELSE IF ~ Active \/ ctl.nw THEN StandbyDeconfigIps(y)
            ELSE IF y.ch6 THEN Reconfigure6(y, r)
            ELSE IF y.v4 THEN Ipv4Up(y)
            ELSE IF prof.mapt /\ y.mapt THEN IF ready THEN MaptUp(y, r) ELSE y
            ELSE IF MaptSwitchedOn(y) THEN MaptFeatureRefresh(y) ELSE y
  BY DEF Ipv6Leased
<1> HIDE DEF a
<1>5. Clients(a, y)
  BY <1>3, MonitorFacts
<1> HIDE DEF y
<1>6. y \in WType /\ y.st = "IPV6_LEASED" /\ MachineInv(y) /\ y.st \in Loop \ {"STANDBY"}
      /\ y.st \in Leased
  BY <1>3, <1>5, InvClients DEF Clients, Frame, Idle, Configuring, Loop, Leased
<1>7. Sound(y, out)
  <2>1. CASE MustStop(y)
    BY <1>4, <1>6, <2>1, Ends DEF MustStop
  <2>2. CASE ~ MustStop(y)
    <3>1. ~ IfDown /\ ~ y.Reset
      BY <2>2 DEF MustStop
    <3>2. \/ out = Ipv6Down(y)
          \/ out = StandbyDeconfigIps(y)
          \/ y.ch6 /\ out = Reconfigure6(y, r)
          \/ out = Ipv4Up(y)
          \/ y.v6 /\ ~ y.ch6 /\ ~ y.v4 /\ y.mapt /\ out = MaptUp(y, r)
          \/ out = MaptFeatureRefresh(y)
          \/ out = y
      BY <1>4, <2>2
    <3>3. CASE out = Ipv6Down(y)
      BY <1>6, <3>1, <3>3, Ipv6DownFacts, FamilyGoes
    <3>4. CASE out \in {StandbyDeconfigIps(y), MaptFeatureRefresh(y), y}
      BY <1>6, <3>1, <3>4, ServingMoves
    <3>5. CASE y.ch6 /\ out = Reconfigure6(y, r)
      <4>1. Reconfigured6(y, out)
        BY <1>6, <3>5, Reconfigure6Facts
      <4>2. Clients(out, out)
        BY <4>1, FrameReflexive DEF Reconfigured6, Frame
      <4>3. QED
        BY <1>6, <3>1, <3>5, <4>1, <4>2, ReconfigureSound
    <3>6. CASE out = Ipv4Up(y)
      BY <1>6, <3>1, <3>6, Ipv4UpFacts, UpServes, ComesUp
    <3>7. CASE y.v6 /\ ~ y.ch6 /\ ~ y.v4 /\ y.mapt /\ out = MaptUp(y, r)
      BY <1>6, <3>1, <3>7, MaptUpSound DEF Serving6
    <3>8. QED
      BY <3>2, <3>3, <3>4, <3>5, <3>6, <3>7
  <2>3. QED
    BY <2>1, <2>2
<1>8. QED
  BY <1>2, <1>5, <1>7, SoundClients

LEMMA DualStackSound ==
    ASSUME NEW x, MachineInv(x), x.st = "DUAL_STACK", NEW ready, NEW r \in Results
    PROVE  Sound(x, DualStackActive(x, ready, r))
<1> DEFINE out == DualStackActive(x, ready, r)
<1>1. x \in WType /\ x.st \in Loop \ {"STANDBY"} /\ x.st \in Leased
  BY DEF MachineInv, Loop, Leased
<1>2. CASE MustStop(x)
  <2>1. out = PhysicalInterfaceDown(x)
    BY <1>2 DEF DualStackActive
  <2>2. QED
    BY <1>1, <1>2, <2>1, Ends DEF MustStop
<1>3. CASE ~ MustStop(x)
  <2>1. ~ IfDown /\ ~ x.Reset
    BY <1>3 DEF MustStop
  <2>2. \/ out = DualStackDown(x)
        \/ out = Ipv4Down(x)
        \/ out = Ipv6Down(x)
        \/ out = StandbyDeconfigIps(x)
        \/ x.ch4 /\ out = MonitorDhcp(Reconfigure4(x, r))
        \/ x.ch6 /\ out = MonitorDhcp(Reconfigure6(x, r))
        \/ x.v6 /\ ~ x.ch6 /\ x.mapt /\ out = MaptUp(x, r)
        \/ out = MaptFeatureRefresh(x)
        \/ out = MonitorDhcp(x)
    BY <1>3 DEF DualStackActive
  <2>3. CASE out = DualStackDown(x)
    BY <1>1, <2>1, <2>3, DualStackDownFacts, GoesBack
  <2>4. CASE out = Ipv4Down(x) \/ out = Ipv6Down(x)
    BY <1>1, <2>1, <2>4, Ipv4DownFacts, Ipv6DownFacts, FamilyGoes
  <2>5. CASE out \in {StandbyDeconfigIps(x), MaptFeatureRefresh(x)}
    BY <1>1, <2>1, <2>5, ServingMoves
  <2>6. CASE x.ch4 /\ out = MonitorDhcp(Reconfigure4(x, r))
    <3>1. Reconfigured4(x, Reconfigure4(x, r))
      BY <1>1, Reconfigure4Facts
    <3>2. Clients(Reconfigure4(x, r), out)
      BY <2>6, <3>1, MonitorFacts DEF Reconfigured4, Frame
    <3>3. QED
      BY <1>1, <2>1, <2>6, <3>1, <3>2, ReconfigureSound
  <2>7. CASE x.ch6 /\ out = MonitorDhcp(Reconfigure6(x, r))
    <3>1. Reconfigured6(x, Reconfigure6(x, r))
      BY <1>1, Reconfigure6Facts
    <3>2. Clients(Reconfigure6(x, r), out)
      BY <2>7, <3>1, MonitorFacts DEF Reconfigured6, Frame
    <3>3. QED
      BY <1>1, <2>1, <2>7, <3>1, <3>2, ReconfigureSound
  <2>8. CASE x.v6 /\ ~ x.ch6 /\ x.mapt /\ out = MaptUp(x, r)
    BY <2>1, <2>8, MaptUpSound DEF Serving6
  <2>9. CASE out = MonitorDhcp(x)
    BY <1>1, <2>1, <2>9, MonitorSound
  <2>10. QED
    BY <2>2, <2>3, <2>4, <2>5, <2>6, <2>7, <2>8, <2>9
<1>4. QED
  BY <1>2, <1>3

LEMMA MarkFacts ==
    ASSUME NEW x \in WType, NEW b \in BOOLEAN
    PROVE  Clients(x, [x EXCEPT !.chM = b])
<1> DEFINE y == [x EXCEPT !.chM = b]
<1>1. y \in WType
  BY DEF WType
<1>2. /\ SameClients(x, y) /\ y.st = x.st /\ y.Status = x.Status /\ y.check = x.check
      /\ y.v4 = x.v4 /\ y.v6 = x.v6 /\ y.mapt = x.mapt /\ y.ch4 = x.ch4 /\ y.ch6 = x.ch6
      /\ y.conn4 = x.conn4 /\ y.conn6 = x.conn6 /\ y.dns = x.dns
  BY DEF WType, SameClients
<1> HIDE DEF y
<1>3. Clients(x, y)
  BY <1>1, <1>2, KnownKept DEF Clients
<1>4. QED
  BY <1>3 DEF y

LEMMA ClientsTransitive ==
    ASSUME NEW x, NEW y, NEW z, Clients(x, y), Clients(y, z)
    PROVE  Clients(x, z)
  BY DEF Clients, Frame

LEMMA MaptActiveSound ==
    ASSUME NEW x, MachineInv(x), x.st = "MAPT_ACTIVE", NEW r \in Results
    PROVE  Sound(x, MaptActive(x, r))
<1> DEFINE out == MaptActive(x, r)
           rec == Reconfigure6(x, r)
           set == rec.chM \/ r = "ok"
           clear == x.chM /\ r # "ok"
<1>1. x \in WType /\ x.st \in Loop \ {"STANDBY"} /\ x.st \in Leased /\ Serves(x)
  BY DEF MachineInv, Loop, Leased
<1>2. CASE MustStop(x)
  <2>1. out = PhysicalInterfaceDown(x)
    BY <1>2 DEF MaptActive
  <2>2. QED
    BY <1>1, <1>2, <2>1, Ends DEF MustStop
<1>3. CASE ~ MustStop(x)
  <2>1. ~ IfDown /\ ~ x.Reset
    BY <1>3 DEF MustStop
  <2>2. \/ out = StandbyDeconfigIps(x)
        \/ out = MaptDown(x)
        \/ out = MonitorDhcp(x)
        \/ out = MaptFeatureRefresh(MaptDown(x))
        \/ x.ch6 /\ out = MonitorDhcp([rec EXCEPT !.chM = set])
        \/ out = MonitorDhcp([x EXCEPT !.chM = clear])
    BY <1>3 DEF MaptActive
  <2>3. set \in BOOLEAN /\ clear \in BOOLEAN
    OBVIOUS
  <2> HIDE DEF out, set, clear
  <2>4. NoMapt(x, MaptDown(x))
    BY <1>1, MaptDownFacts
  <2>5. CASE out = StandbyDeconfigIps(x)
    BY <1>1, <2>1, <2>5, ServingMoves DEF out
  <2>6. CASE out = MaptDown(x)
    <3>1. NoMapt(x, out)
      BY <2>4, <2>6
    <3>2. Frame(x, out) /\ out.st \in Leased
      BY <3>1 DEF NoMapt, Leased
    <3>3. Serves(out)
      BY <1>1, <3>1, <3>2 DEF NoMapt, Serves, Frame, Serving6, Leased
    <3>4. Sound(x, out)
      BY <1>1, <2>1, <3>2, <3>3, StaysUp
    <3>5. QED
      BY <3>4 DEF out
  <2>7. CASE out = MonitorDhcp(x)
    BY <1>1, <2>1, <2>7, MonitorSound DEF out
  <2>8. CASE out = MaptFeatureRefresh(MaptDown(x))
    <3> DEFINE y == MaptDown(x)
    <3>1. Frame(x, y) /\ y.Status = x.Status /\ y \in WType
      BY <2>4 DEF NoMapt, Frame
    <3> HIDE DEF y
    <3>2. Back(y, MaptFeatureRefresh(y))
      BY <3>1, MaptFeatureFacts
    <3>3. Back(x, MaptFeatureRefresh(y))
      BY <3>1, <3>2, FrameTransitive DEF Back
    <3>4. Sound(x, out)
      BY <1>1, <2>1, <2>8, <3>3, GoesBack DEF y
    <3>5. QED
      BY <3>4 DEF out
  <2>9. CASE x.ch6 /\ out = MonitorDhcp([rec EXCEPT !.chM = set])
    <3>1. Reconfigured6(x, rec)
      BY <1>1, Reconfigure6Facts
    <3>2. rec \in WType
      BY <3>1 DEF Reconfigured6, Frame
    <3> HIDE DEF rec
    <3> DEFINE y == [rec EXCEPT !.chM = set]
    <3>3. Clients(rec, y)
      BY <2>3, <3>2, MarkFacts
    <3> HIDE DEF y
    <3>4. Clients(y, MonitorDhcp(y))
      BY <3>3, MonitorFacts DEF Clients, Frame
    <3>5. Clients(rec, MonitorDhcp(y))
      BY <3>3, <3>4, ClientsTransitive
    <3>6. Sound(x, MonitorDhcp(y))
      BY <1>1, <2>1, <2>9, <3>1, <3>5, ReconfigureSound
    <3>7. out = MonitorDhcp(y)
      BY <2>9 DEF y
    <3>8. QED
      BY <3>6, <3>7 DEF out
  <2>10. CASE out = MonitorDhcp([x EXCEPT !.chM = clear])
    <3> DEFINE y == [x EXCEPT !.chM = clear]
    <3>1. Clients(x, y)
      BY <1>1, <2>3, MarkFacts
    <3> HIDE DEF y
    <3>2. MachineInv(y) /\ y.st \in Leased /\ ~ y.Reset
      BY <1>1, <2>1, <3>1, InvClients, StatesFacts DEF Clients, Frame
    <3>3. Sound(y, MonitorDhcp(y))
      BY <2>1, <3>2, MonitorSound
    <3>4. Sound(x, MonitorDhcp(y))
      BY <3>1, <3>3, SoundClients
    <3>5. QED
      BY <2>10, <3>4 DEF y, out
  <2>11. QED
    BY <2>2, <2>5, <2>6, <2>7, <2>8, <2>9, <2>10
<1>4. QED
  BY <1>2, <1>3

(* The states that configure the layers.                                     *)
LEMMA InvConfiguring ==
    ASSUME NEW x, NEW y, MachineInv(x), x.st \in Configuring,
           y \in WType, Layers(y), y.st \in Configuring,
           y.st = "VALIDATING" => y.Status = "VALIDATING",
           y.SMRunning = x.SMRunning, y.check = x.check, y.late = x.late,
           y.run4 = x.run4, y.run6 = x.run6
    PROVE  MachineInv(y)
<1>1. x.SMRunning /\ ~ x.check /\ NoClient4(x) /\ NoClient6(x)
  BY StatesFacts DEF MachineInv, Running, Loop
<1>2. NoClient4(y) /\ NoClient6(y) /\ ~ y.check /\ y.SMRunning
  BY <1>1 DEF NoClient4, NoClient6
<1>3. Known(y)
  BY <1>2 DEF Known, NoClient4, NoClient6
<1>4. Running(y)
  BY <1>2, StatesFacts DEF Running, Loop
<1>5. Serves(y)
  BY DEF Serves, Configuring, Leased, Serving6
<1>6. QED
  BY <1>3, <1>4, <1>5 DEF MachineInv

LEMMA StaysConfiguring ==
    ASSUME NEW x, MachineInv(x), x.st \in Configuring, ~ IfDown
    PROVE  Sound(x, x)
  BY DEF Sound, Outcome, Configured

LEMMA ConfigurePppFacts ==
    ASSUME NEW x \in WType
    PROVE  LET y == ConfigurePpp(x)
           IN  /\ y \in WType /\ y.st = "PPP_CONFIGURING" /\ y.Status = x.Status
               /\ y.SMRunning = x.SMRunning /\ y.Reset = x.Reset /\ y.Conn = x.Conn
               /\ y.check = x.check /\ y.late = x.late /\ y.VLAN = x.VLAN
               /\ y.run4 = x.run4 /\ y.run6 = x.run6
               /\ y.PPP = "CONFIGURING" => prof.ppp \/ x.PPP = "CONFIGURING"
<1> DEFINE a == [x EXCEPT !.PPP = "CONFIGURING", !.pppReq = TRUE]
           b == IF prof.ppp /\ x.PPP = "DOWN" THEN a ELSE x
<1>1. ConfigurePpp(x) = [b EXCEPT !.st = "PPP_CONFIGURING"]
  BY DEF ConfigurePpp, Goto
<1>2. a \in WType
  BY ZenonT(30) DEF WType, LinkStates
<1>3. /\ a.Status = x.Status /\ a.SMRunning = x.SMRunning /\ a.Reset = x.Reset
      /\ a.Conn = x.Conn /\ a.check = x.check /\ a.late = x.late /\ a.VLAN = x.VLAN
      /\ a.run4 = x.run4 /\ a.run6 = x.run6
  BY DEF WType
<1> HIDE DEF a
<1>4. /\ b \in WType /\ b.Status = x.Status /\ b.SMRunning = x.SMRunning /\ b.Reset = x.Reset
      /\ b.Conn = x.Conn /\ b.check = x.check /\ b.late = x.late /\ b.VLAN = x.VLAN
      /\ b.run4 = x.run4 /\ b.run6 = x.run6
      /\ b.PPP = "CONFIGURING" => prof.ppp \/ x.PPP = "CONFIGURING"
  BY <1>2, <1>3
<1> HIDE DEF b
<1>5. "PPP_CONFIGURING" \in SMStates
  BY DEF SMStates, Loop, Configuring
<1>6. ConfigurePpp(x) \in WType
  BY <1>1, <1>4, <1>5, GotoFacts DEF Goto, Frame
<1>7. QED
  BY <1>1, <1>4, <1>6 DEF WType

LEMMA VlanConfiguringSound ==
    ASSUME NEW x, MachineInv(x), x.st = "VLAN_CONFIGURING", NEW late
    PROVE  Sound(x, VlanConfiguring(x, late))
<1> DEFINE out == VlanConfiguring(x, late)
<1>1. x \in WType /\ x.st \in Loop \ {"STANDBY"} /\ x.st \in Configuring
  BY DEF MachineInv, Loop, Configuring
<1>2. CASE IfDown
  <2>1. out = PhysicalInterfaceDown(x)
    BY <1>2 DEF VlanConfiguring
  <2>2. QED
    BY <1>1, <1>2, <2>1, Ends
<1>3. CASE out = Expire(x)
  BY <1>1, <1>3, Expires
<1>4. CASE ~ IfDown /\ out = x
  BY <1>1, <1>4, StaysConfiguring
<1>5. ASSUME ~ IfDown, out = ConfigurePpp(x), prof.vlan => x.VLAN = "UP"
      PROVE  Sound(x, out)
  <2> HIDE DEF out
  <2>1. /\ out \in WType /\ out.st = "PPP_CONFIGURING" /\ out.Status = x.Status
        /\ out.SMRunning = x.SMRunning /\ out.Reset = x.Reset /\ out.Conn = x.Conn
        /\ out.check = x.check /\ out.late = x.late /\ out.VLAN = x.VLAN
        /\ out.run4 = x.run4 /\ out.run6 = x.run6
        /\ out.PPP = "CONFIGURING" => prof.ppp \/ x.PPP = "CONFIGURING"
    BY <1>1, <1>5, ConfigurePppFacts
  <2>2. x.VLAN # "CONFIGURING" /\ x.PPP # "CONFIGURING"
    BY <1>5 DEF MachineInv, Layers
  <2>3. Layers(out)
    BY <2>1, <2>2 DEF Layers
  <2>4. out.st \in Configuring
    BY <2>1 DEF Configuring
  <2>5. MachineInv(out)
    BY <1>1, <2>1, <2>3, <2>4, InvConfiguring
  <2>6. Configured(x, out)
    BY <1>1, <2>1, <2>4 DEF Configured
  <2>7. QED
    BY <1>5, <2>1, <2>5, <2>6 DEF Sound, Outcome
<1>6. QED
  BY <1>2, <1>3, <1>4, <1>5 DEF VlanConfiguring

LEMMA PppConfiguringSound ==
    ASSUME NEW x, MachineInv(x), x.st = "PPP_CONFIGURING", NEW late
    PROVE  Sound(x, PppConfiguring(x, late))
<1> DEFINE out == PppConfiguring(x, late)
           y == [x EXCEPT !.Status = "VALIDATING", !.st = "VALIDATING"]
<1>1. x \in WType /\ x.st \in Loop \ {"STANDBY"} /\ x.st \in Configuring
  BY DEF MachineInv, Loop, Configuring
<1>2. CASE IfDown
  <2>1. out = PhysicalInterfaceDown(x)
    BY <1>2 DEF PppConfiguring
  <2>2. QED
    BY <1>1, <1>2, <2>1, Ends
<1>3. CASE out = Expire(x)
  BY <1>1, <1>3, Expires
<1>4. CASE ~ IfDown /\ out = x
  BY <1>1, <1>4, StaysConfiguring
<1>5. ASSUME ~ IfDown, out = y, prof.ppp => x.PPP = "UP"
      PROVE  Sound(x, out)
  <2>1. y \in WType
    BY <1>1, ZenonT(30) DEF WType, SMStates, Loop, Configuring
  <2>2. SameClients(x, y) /\ y.st = "VALIDATING" /\ y.Status = "VALIDATING" /\ y.check = x.check
    BY <1>1 DEF WType, SameClients
  <2> HIDE DEF y
  <2>3. x.VLAN # "CONFIGURING" /\ x.PPP # "CONFIGURING"
    BY <1>5 DEF MachineInv, Layers
  <2>4. Layers(y)
    BY <2>2, <2>3 DEF Layers, SameClients
  <2>5. y.st \in Configuring
    BY <2>2 DEF Configuring
  <2>6. MachineInv(y)
    BY <1>1, <2>1, <2>2, <2>4, <2>5, InvConfiguring DEF SameClients
  <2>7. Configured(x, y)
    BY <1>1, <2>2, <2>5 DEF Configured, SameClients
  <2>8. Sound(x, y)
    BY <1>5, <2>2, <2>6, <2>7 DEF Sound, Outcome, SameClients
  <2>9. QED
    BY <1>5, <2>8
<1>6. QED
  BY <1>2, <1>3, <1>4, <1>5 DEF PppConfiguring

LEMMA ValidatingSound ==
    ASSUME NEW x, MachineInv(x), x.st = "VALIDATING", NEW late
    PROVE  Sound(x, ValidatingWan(x, late))
<1> DEFINE out == ValidatingWan(x, late)
<1>1. x \in WType /\ x.st \in Loop \ {"STANDBY"} /\ x.st \in Configuring /\ x.st \in Idle
  BY DEF MachineInv, Loop, Configuring, Idle
<1>2. CASE IfDown
  <2>1. out = PhysicalInterfaceDown(x)
    BY <1>2 DEF ValidatingWan
  <2>2. QED
    BY <1>1, <1>2, <2>1, Ends
<1>3. CASE out = Expire(x)
  BY <1>1, <1>3, Expires
<1>4. ASSUME ~ IfDown, out = WanValidated(x)
      PROVE  Sound(x, out)
  <2> HIDE DEF out
  <2>1. Validated(x, out)
    BY <1>1, <1>4, WanValidatedFacts
  <2>2. x.SMRunning /\ NoClient4(x) /\ NoClient6(x) /\ Known(x) /\ x.Status = "VALIDATING"
    BY <1>1 DEF MachineInv, Running, Serves
  <2>3. Settled(x)
    BY SettledFacts DEF MachineInv
  <2>4. out.st = "OBTAINING" /\ out \in WType /\ Known(out) /\ Layers(out)
    BY <2>1, <2>2, <2>3, LayersFacts DEF Validated
  <2>5. Running(out)
    BY <2>1, <2>2, <2>4, StatesFacts DEF Validated, Running, Idle, Configuring
  <2>6. Serves(out)
    BY <2>4 DEF Serves, Leased, Serving6
  <2>7. Configured(x, out)
    BY <1>1, <2>1, <2>2 DEF Validated, Configured
  <2>8. QED
    BY <1>4, <2>1, <2>4, <2>5, <2>6, <2>7 DEF Sound, MachineInv, Outcome, Validated
<1>5. QED
  BY <1>2, <1>3, <1>4 DEF ValidatingWan

(* wan_state_refreshing_wan and wan_transition_start                         *)
LEMMA ConfigureVlanFacts ==
    ASSUME NEW x \in WType
    PROVE  LET y == ConfigureVlan(x)
           IN  /\ y \in WType /\ y.st = x.st /\ y.Status = x.Status
               /\ y.SMRunning = x.SMRunning /\ y.Reset = x.Reset /\ y.Conn = x.Conn
               /\ y.check = x.check /\ y.late = x.late /\ y.PPP = x.PPP
               /\ y.run4 = x.run4 /\ y.run6 = x.run6
               /\ y.VLAN = "CONFIGURING" => prof.vlan \/ x.VLAN = "CONFIGURING"
<1> DEFINE a == [x EXCEPT !.VLAN = "CONFIGURING", !.vlanReq = TRUE]
<1>1. ConfigureVlan(x) = IF prof.vlan /\ x.VLAN = "DOWN" THEN a ELSE x
  BY DEF ConfigureVlan
<1>2. a \in WType
  BY ZenonT(30) DEF WType, LinkStates
<1>3. /\ a.st = x.st /\ a.Status = x.Status /\ a.SMRunning = x.SMRunning
      /\ a.Reset = x.Reset /\ a.Conn = x.Conn /\ a.check = x.check /\ a.late = x.late
      /\ a.PPP = x.PPP /\ a.run4 = x.run4 /\ a.run6 = x.run6
  BY DEF WType
<1> HIDE DEF a
<1>4. CASE prof.vlan /\ x.VLAN = "DOWN"
  <2>1. ConfigureVlan(x) = a
    BY <1>1, <1>4
  <2>2. QED
    BY <1>2, <1>3, <1>4, <2>1
<1>5. CASE ~ (prof.vlan /\ x.VLAN = "DOWN")
  <2>1. ConfigureVlan(x) = x
    BY <1>1, <1>5
  <2>2. QED
    BY <2>1
<1>6. QED
  BY <1>4, <1>5

(* The requests to start over are done with.                                 *)
Renewed(x) == [x EXCEPT !.Reset = FALSE, !.VReset = FALSE, !.Expired = FALSE]

LEMMA RenewedTypeFacts ==
    ASSUME NEW x \in WType
    PROVE  Renewed(x) \in WType
  BY ZenonT(30) DEF WType, Renewed

LEMMA RenewedFacts ==
    ASSUME NEW x \in WType
    PROVE  LET y == Renewed(x)
           IN  /\ y \in WType /\ y.st = x.st /\ y.Status = x.Status
               /\ y.SMRunning = x.SMRunning /\ y.Conn = x.Conn
               /\ ~ y.Reset /\ ~ y.VReset /\ ~ y.Expired
               /\ y.check = x.check /\ y.late = x.late /\ y.PPP = x.PPP /\ y.VLAN = x.VLAN
               /\ y.run4 = x.run4 /\ y.run6 = x.run6
<1>1. Renewed(x) \in WType
  BY RenewedTypeFacts
<1>2. QED
  BY <1>1 DEF WType, Renewed

(* What the last two transitions of the machine do.                          *)
Refreshed(x, y) ==
    /\ y.SMRunning = x.SMRunning /\ y.Conn = x.Conn
    /\ \/ y = x
       \/ /\ IfDown /\ y.st = "DECONFIGURING" /\ y.Reset = FALSE
          /\ y.Status \in {x.Status, "VALIDATING"}
       \/ /\ ~ IfDown /\ y.st = "VLAN_CONFIGURING" /\ y.Reset = FALSE
          /\ y.Status = x.Status

LEMMA RefreshingSound ==
    ASSUME NEW x, MachineInv(x), x.st = "REFRESHING"
    PROVE  MachineInv(RefreshingWan(x)) /\ Refreshed(x, RefreshingWan(x))
<1> DEFINE out == RefreshingWan(x)
           z == Renewed(x)
           v == ConfigureVlan(x)
<1>1. /\ x \in WType /\ Settled(x) /\ x.SMRunning /\ ~ x.check
      /\ NoClient4(x) /\ NoClient6(x)
  BY SettledFacts DEF MachineInv, Running, Idle, Loop
<1>2. CASE IfDown
  <2>1. out = PhysicalInterfaceDown(z)
    BY <1>2 DEF RefreshingWan, Renewed
  <2>2. /\ z \in WType /\ z.Status = x.Status /\ z.SMRunning = x.SMRunning /\ z.Conn = x.Conn
        /\ ~ z.Reset /\ ~ z.VReset /\ ~ z.Expired /\ z.late = x.late
        /\ z.run4 = x.run4 /\ z.run6 = x.run6
    BY <1>1, RenewedFacts
  <2> HIDE DEF z, out
  <2>3. Known(z)
    BY <1>1, <2>2 DEF Known, NoClient4, NoClient6
  <2>4. TornDown(z, out)
    BY <2>1, <2>2, PhysicalFacts
  <2>5. /\ out.st = "DECONFIGURING" /\ out.SMRunning /\ ~ out.check /\ Settled(out)
        /\ NoClient4(out) /\ NoClient6(out) /\ out \in WType /\ Known(out)
    BY <1>1, <2>2, <2>3, <2>4 DEF TornDown, Frame
  <2>6. Running(out) /\ Serves(out) /\ Layers(out)
    BY <2>5, LayersFacts DEF Running, Serves, Leased, Serving6, Idle, Loop
  <2>7. ~ out.Reset
    BY <2>2, <2>4 DEF TornDown, Frame
  <2>8. out.Reset = FALSE
    BY <2>5, <2>7 DEF WType
  <2>9. Refreshed(x, out)
    BY <1>2, <2>2, <2>4, <2>5, <2>8 DEF Refreshed, TornDown, Frame
  <2>10. QED
    BY <2>5, <2>6, <2>9 DEF MachineInv, out
<1>3. CASE out = x
  BY <1>3 DEF Refreshed
<1>4. ASSUME ~ IfDown, out = WanRefreshed(x)
      PROVE  MachineInv(out) /\ Refreshed(x, out)
  <2> DEFINE n == Renewed(v)
  <2>1. out = Goto(n, "VLAN_CONFIGURING")
    BY <1>4 DEF WanRefreshed, Renewed
  <2>2. /\ v \in WType /\ v.Status = x.Status /\ v.SMRunning = x.SMRunning /\ v.Conn = x.Conn
        /\ v.check = x.check /\ v.late = x.late /\ v.PPP = x.PPP
        /\ v.run4 = x.run4 /\ v.run6 = x.run6
        /\ v.VLAN = "CONFIGURING" => prof.vlan \/ x.VLAN = "CONFIGURING"
    BY <1>1, ConfigureVlanFacts
  <2> HIDE DEF v, out
  <2>3. /\ n \in WType /\ n.Status = v.Status /\ n.SMRunning = v.SMRunning
        /\ n.Conn = v.Conn /\ ~ n.Reset /\ n.check = v.check /\ n.late = v.late
        /\ n.PPP = v.PPP /\ n.VLAN = v.VLAN /\ n.run4 = v.run4 /\ n.run6 = v.run6
    BY <2>2, RenewedFacts
  <2> HIDE DEF n
  <2>4. "VLAN_CONFIGURING" \in SMStates
    BY DEF SMStates, Loop, Configuring
  <2>5. /\ out \in WType /\ out.st = "VLAN_CONFIGURING" /\ out.Status = n.Status
        /\ out.SMRunning = n.SMRunning /\ out.Conn = n.Conn /\ out.Reset = n.Reset
        /\ out.check = n.check /\ out.late = n.late
    BY <2>1, <2>3, <2>4, GotoFacts DEF Frame
  <2>6. /\ out.PPP = n.PPP /\ out.VLAN = n.VLAN /\ out.run4 = n.run4 /\ out.run6 = n.run6
    BY <2>1, <2>3 DEF Goto, WType
  <2>7. NoClient4(out) /\ NoClient6(out)
    BY <1>1, <2>2, <2>3, <2>5, <2>6 DEF NoClient4, NoClient6
  <2>8. Known(out)
    BY <2>7 DEF Known, NoClient4, NoClient6
  <2>9. Layers(out)
    BY <1>1, <2>2, <2>3, <2>5, <2>6 DEF Layers, Settled
  <2>10. Running(out)
    BY <1>1, <2>2, <2>3, <2>5, <2>7 DEF Running, Loop, Idle, Configuring
  <2>11. Serves(out)
    BY <2>5 DEF Serves, Leased, Serving6
  <2>12. out.Reset = FALSE
    BY <2>3, <2>5 DEF WType
  <2>13. Refreshed(x, out)
    BY <1>4, <2>2, <2>3, <2>5, <2>12 DEF Refreshed
  <2>14. QED
    BY <2>5, <2>8, <2>9, <2>10, <2>11, <2>13 DEF MachineInv
<1>5. out = PhysicalInterfaceDown(z) \/ out = x \/ out = WanRefreshed(x)
  BY DEF RefreshingWan, Renewed
<1>6. QED
  BY <1>2, <1>3, <1>4 DEF RefreshingWan

LEMMA StartSound ==
    ASSUME MachineInv(w), Start
    PROVE  /\ MachineInv(w') /\ w'.st = "VLAN_CONFIGURING" /\ w'.Status = "INITIALISING"
           /\ w'.SMRunning = TRUE /\ w'.Reset = w.Reset /\ w'.Conn = w.Conn
<1> DEFINE a == [w EXCEPT !.v4 = FALSE, !.v6 = FALSE, !.mapt = FALSE]
           b == [a EXCEPT !.Status = "INITIALISING", !.SMRunning = TRUE, !.st = "VLAN_CONFIGURING"]
<1>1. w \in WType /\ w.st = "created"
  BY DEF Start, MachineInv
<1>2. Settled(w) /\ ~ w.check /\ NoClient4(w) /\ NoClient6(w)
  BY <1>1, SettledFacts DEF MachineInv, Running, Idle
<1>3. w' = ConfigureVlan(b)
  BY <1>1 DEF Start, WType
<1>4. a \in WType
  BY <1>1, ZenonT(30) DEF WType
<1>5. /\ a.check = w.check /\ a.late = w.late /\ a.PPP = w.PPP /\ a.VLAN = w.VLAN
      /\ a.run4 = w.run4 /\ a.run6 = w.run6 /\ a.Reset = w.Reset /\ a.Conn = w.Conn
  BY <1>1 DEF WType
<1> HIDE DEF a
<1>6. b \in WType
  BY <1>4, ZenonT(30) DEF WType, SMStates, Loop, Configuring
<1>7. /\ b.check = a.check /\ b.late = a.late /\ b.PPP = a.PPP /\ b.VLAN = a.VLAN
      /\ b.run4 = a.run4 /\ b.run6 = a.run6 /\ b.Reset = a.Reset /\ b.Conn = a.Conn
      /\ b.st = "VLAN_CONFIGURING" /\ b.Status = "INITIALISING" /\ b.SMRunning = TRUE
  BY <1>4 DEF WType
<1> HIDE DEF b
<1> DEFINE y == ConfigureVlan(b)
<1>8. /\ y \in WType /\ y.st = b.st /\ y.Status = b.Status
      /\ y.SMRunning = b.SMRunning /\ y.Reset = b.Reset /\ y.Conn = b.Conn
      /\ y.check = b.check /\ y.late = b.late /\ y.PPP = b.PPP
      /\ y.run4 = b.run4 /\ y.run6 = b.run6
      /\ y.VLAN = "CONFIGURING" => prof.vlan \/ b.VLAN = "CONFIGURING"
  BY <1>6, ConfigureVlanFacts
<1> HIDE DEF y
<1>9. NoClient4(y) /\ NoClient6(y)
  BY <1>2, <1>5, <1>7, <1>8 DEF NoClient4, NoClient6
<1>10. Known(y)
  BY <1>9 DEF Known, NoClient4, NoClient6
<1>11. Layers(y)
  BY <1>2, <1>5, <1>7, <1>8 DEF Layers, Settled
<1>12. Running(y)
  BY <1>2, <1>5, <1>7, <1>8, <1>9 DEF Running, Loop, Idle, Configuring
<1>13. Serves(y)
  BY <1>7, <1>8 DEF Serves, Leased, Serving6
<1>14. MachineInv(y)
  BY <1>8, <1>10, <1>11, <1>12, <1>13 DEF MachineInv
<1>15. w' = y
  BY <1>3 DEF y
<1>16. QED
  BY <1>5, <1>7, <1>8, <1>14, <1>15

-----------------------------------------------------------------------------
(* The messages of the DHCP Manager, and what happens around the machine.    *)

(* The thread is not told: the state, what is published and the layers stay. *)
Unseen(x, y) ==
    /\ y.st = x.st /\ y.Status = x.Status /\ y.SMRunning = x.SMRunning
    /\ y.Conn = x.Conn

Told(x, y) ==
    /\ y \in WType
    /\ Unseen(x, y) /\ y.Reset = x.Reset
    /\ y.check = x.check /\ y.run4 = x.run4 /\ y.run6 = x.run6
    /\ y.VLAN = x.VLAN /\ y.PPP = x.PPP /\ y.conn6 = x.conn6 /\ y.dns = x.dns
    /\ x.late => y.late
    /\ Known(x) => Known(y)
    /\ ~ y.late /\ y.v4 /\ ~ y.ch4 => x.v4 /\ ~ x.ch4
    /\ ~ y.late /\ y.v6 /\ ~ y.ch6 => x.v6 /\ ~ x.ch6
    /\ y.mapt => \/ y.v6 /\ y.ch6
                 \/ x.mapt /\ (x.v6 => y.v6) /\ y.ch6 = x.ch6

LEMMA TypeUpdates ==
    ASSUME NEW x \in WType, NEW a \in BOOLEAN, NEW b \in BOOLEAN
    PROVE  /\ [x EXCEPT !.v4 = a, !.ch4 = b] \in WType
           /\ [x EXCEPT !.v4 = a, !.late = b] \in WType
           /\ [x EXCEPT !.v6 = a, !.late = b] \in WType
           /\ [x EXCEPT !.d4 = a, !.late = b] \in WType
           /\ [x EXCEPT !.d6 = a, !.late = b] \in WType
           /\ [x EXCEPT !.v6 = a, !.ch6 = a, !.mapt = b, !.chM = b] \in WType
<1>1. [x EXCEPT !.v4 = a, !.ch4 = b] \in WType
  BY ZenonT(30) DEF WType
<1>2. [x EXCEPT !.v4 = a, !.late = b] \in WType
  BY ZenonT(30) DEF WType
<1>3. [x EXCEPT !.v6 = a, !.late = b] \in WType
  BY ZenonT(30) DEF WType
<1>4. [x EXCEPT !.d4 = a, !.late = b] \in WType
  BY ZenonT(30) DEF WType
<1>5. [x EXCEPT !.d6 = a, !.late = b] \in WType
  BY ZenonT(30) DEF WType
<1>6. [x EXCEPT !.v6 = a, !.ch6 = a, !.mapt = b, !.chM = b] \in WType
  BY ZenonT(30) DEF WType
<1>7. QED
  BY <1>1, <1>2, <1>3, <1>4, <1>5, <1>6

LEMMA LeaseMessages ==
    ASSUME NEW x \in WType
    PROVE  /\ Told(x, [x EXCEPT !.v4 = TRUE, !.ch4 = TRUE])
           /\ Told(x, ConnectionDown4(x))
           /\ Told(x, [x EXCEPT !.v6 = TRUE, !.ch6 = TRUE, !.mapt = FALSE, !.chM = FALSE])
           /\ Told(x, [x EXCEPT !.v6 = TRUE, !.ch6 = TRUE, !.mapt = TRUE, !.chM = TRUE])
           /\ Told(x, ConnectionDown6(x))
<1>1. ASSUME NEW a \in BOOLEAN
      PROVE  Told(x, [x EXCEPT !.v4 = a, !.ch4 = a])
  <2> DEFINE y == [x EXCEPT !.v4 = a, !.ch4 = a]
  <2>1. y \in WType
    BY TypeUpdates
  <2>2. /\ SameClients(x, y) /\ y.st = x.st /\ y.Status = x.Status /\ y.check = x.check
        /\ y.v6 = x.v6 /\ y.ch6 = x.ch6 /\ y.mapt = x.mapt /\ y.conn6 = x.conn6
        /\ y.dns = x.dns /\ y.v4 = a /\ y.ch4 = a
    BY DEF WType, SameClients
  <2> HIDE DEF y
  <2>3. Told(x, y)
    BY <2>1, <2>2 DEF Told, Unseen, SameClients, Known
  <2>4. QED
    BY <2>3 DEF y
<1>2. ASSUME NEW a \in BOOLEAN, NEW b \in BOOLEAN, a \/ ~ b
      PROVE  Told(x, [x EXCEPT !.v6 = a, !.ch6 = a, !.mapt = b, !.chM = b])
  <2> DEFINE y == [x EXCEPT !.v6 = a, !.ch6 = a, !.mapt = b, !.chM = b]
  <2>1. y \in WType
    BY TypeUpdates
  <2>2. /\ SameClients(x, y) /\ y.st = x.st /\ y.Status = x.Status /\ y.check = x.check
        /\ y.v4 = x.v4 /\ y.ch4 = x.ch4 /\ y.conn6 = x.conn6
        /\ y.dns = x.dns /\ y.v6 = a /\ y.ch6 = a /\ y.mapt = b
    BY DEF WType, SameClients
  <2> HIDE DEF y
  <2>3. Told(x, y)
    BY <1>2, <2>1, <2>2 DEF Told, Unseen, SameClients, Known
  <2>4. QED
    BY <2>3 DEF y
<1>3. QED
  BY <1>1, <1>2 DEF ConnectionDown4, ConnectionDown6

LEMMA RenewMessages ==
    ASSUME NEW x \in WType
    PROVE  /\ Told(x, [x EXCEPT !.v4 = TRUE, !.late = @ \/ ~ x.v4])
           /\ Told(x, [x EXCEPT !.v6 = TRUE, !.late = @ \/ ~ x.v6])
<1>1. Told(x, [x EXCEPT !.v4 = TRUE, !.late = @ \/ ~ x.v4])
  <2> DEFINE l == x.late \/ ~ x.v4
             y == [x EXCEPT !.v4 = TRUE, !.late = l]
  <2>1. l \in BOOLEAN
    OBVIOUS
  <2>2. (x.late => l) /\ (~ l => x.v4)
    OBVIOUS
  <2> HIDE DEF l
  <2>3. y \in WType
    BY <2>1, TypeUpdates
  <2>4. /\ Unseen(x, y) /\ y.Reset = x.Reset /\ y.check = x.check /\ y.run4 = x.run4
        /\ y.run6 = x.run6 /\ y.d4 = x.d4 /\ y.d6 = x.d6 /\ y.VLAN = x.VLAN /\ y.PPP = x.PPP
        /\ y.v6 = x.v6 /\ y.ch4 = x.ch4 /\ y.ch6 = x.ch6 /\ y.mapt = x.mapt
        /\ y.conn6 = x.conn6 /\ y.dns = x.dns /\ y.late = l
    BY DEF WType, Unseen
  <2> HIDE DEF y
  <2>5. Told(x, y)
    BY <2>2, <2>3, <2>4 DEF Told, Known
  <2>6. QED
    BY <2>5 DEF y, l
<1>2. Told(x, [x EXCEPT !.v6 = TRUE, !.late = @ \/ ~ x.v6])
  <2> DEFINE l == x.late \/ ~ x.v6
             y == [x EXCEPT !.v6 = TRUE, !.late = l]
  <2>1. l \in BOOLEAN
    OBVIOUS
  <2>2. (x.late => l) /\ (~ l => x.v6)
    OBVIOUS
  <2> HIDE DEF l
  <2>3. y \in WType
    BY <2>1, TypeUpdates
  <2>4. /\ Unseen(x, y) /\ y.Reset = x.Reset /\ y.check = x.check /\ y.run4 = x.run4
        /\ y.run6 = x.run6 /\ y.d4 = x.d4 /\ y.d6 = x.d6 /\ y.VLAN = x.VLAN /\ y.PPP = x.PPP
        /\ y.v4 = x.v4 /\ y.v6 /\ y.ch4 = x.ch4 /\ y.ch6 = x.ch6 /\ y.mapt = x.mapt
        /\ y.conn6 = x.conn6 /\ y.dns = x.dns /\ y.late = l
    BY DEF WType, Unseen
  <2> HIDE DEF y
  <2>5. Told(x, y)
    BY <2>2, <2>3, <2>4 DEF Told, Known
  <2>6. QED
    BY <2>5 DEF y, l
<1>3. QED
  BY <1>1, <1>2

LEMMA ClientMessages ==
    ASSUME NEW x \in WType
    PROVE  /\ Told(x, [x EXCEPT !.d4 = TRUE, !.late = @ \/ ~ x.run4])
           /\ Told(x, [x EXCEPT !.d4 = FALSE, !.late = @ \/ x.run4])
           /\ Told(x, [x EXCEPT !.d6 = TRUE, !.late = @ \/ ~ x.run6])
           /\ Told(x, [x EXCEPT !.d6 = FALSE, !.late = @ \/ x.run6])
<1>1. ASSUME NEW d \in BOOLEAN, NEW l \in BOOLEAN, x.late => l, d \/ l \/ ~ x.run4
      PROVE  Told(x, [x EXCEPT !.d4 = d, !.late = l])
  <2> DEFINE y == [x EXCEPT !.d4 = d, !.late = l]
  <2>1. y \in WType
    BY TypeUpdates
  <2>2. /\ Unseen(x, y) /\ y.Reset = x.Reset /\ y.check = x.check /\ y.run4 = x.run4
        /\ y.run6 = x.run6 /\ y.d4 = d /\ y.d6 = x.d6 /\ y.VLAN = x.VLAN /\ y.PPP = x.PPP
        /\ y.v4 = x.v4 /\ y.v6 = x.v6 /\ y.ch4 = x.ch4 /\ y.ch6 = x.ch6 /\ y.mapt = x.mapt
        /\ y.conn6 = x.conn6 /\ y.dns = x.dns /\ y.late = l
    BY DEF WType, Unseen
  <2> HIDE DEF y
  <2>3. Known(x) => Known(y)
    BY <1>1, <2>2 DEF Known
  <2>4. Told(x, y)
    BY <1>1, <2>1, <2>2, <2>3 DEF Told
  <2>5. QED
    BY <2>4 DEF y
<1>2. ASSUME NEW d \in BOOLEAN, NEW l \in BOOLEAN, x.late => l, d \/ l \/ ~ x.run6
      PROVE  Told(x, [x EXCEPT !.d6 = d, !.late = l])
  <2> DEFINE y == [x EXCEPT !.d6 = d, !.late = l]
  <2>1. y \in WType
    BY TypeUpdates
  <2>2. /\ Unseen(x, y) /\ y.Reset = x.Reset /\ y.check = x.check /\ y.run4 = x.run4
        /\ y.run6 = x.run6 /\ y.d6 = d /\ y.d4 = x.d4 /\ y.VLAN = x.VLAN /\ y.PPP = x.PPP
        /\ y.v4 = x.v4 /\ y.v6 = x.v6 /\ y.ch4 = x.ch4 /\ y.ch6 = x.ch6 /\ y.mapt = x.mapt
        /\ y.conn6 = x.conn6 /\ y.dns = x.dns /\ y.late = l
    BY DEF WType, Unseen
  <2> HIDE DEF y
  <2>3. Known(x) => Known(y)
    BY <1>2, <2>2 DEF Known
  <2>4. Told(x, y)
    BY <1>2, <2>1, <2>2, <2>3 DEF Told
  <2>5. QED
    BY <2>4 DEF y
<1> DEFINE n4 == x.late \/ ~ x.run4
           p4 == x.late \/ x.run4
           n6 == x.late \/ ~ x.run6
           p6 == x.late \/ x.run6
<1>3. n4 \in BOOLEAN /\ p4 \in BOOLEAN /\ n6 \in BOOLEAN /\ p6 \in BOOLEAN
  OBVIOUS
<1>4. /\ (x.late => n4) /\ (x.late => p4) /\ (x.late => n6) /\ (x.late => p6)
      /\ (p4 \/ ~ x.run4) /\ (p6 \/ ~ x.run6)
  OBVIOUS
<1> HIDE DEF n4, p4, n6, p6
<1>5. Told(x, [x EXCEPT !.d4 = TRUE, !.late = n4]) /\ Told(x, [x EXCEPT !.d4 = FALSE, !.late = p4])
  BY <1>1, <1>3, <1>4
<1>6. Told(x, [x EXCEPT !.d6 = TRUE, !.late = n6]) /\ Told(x, [x EXCEPT !.d6 = FALSE, !.late = p6])
  BY <1>2, <1>3, <1>4
<1>7. QED
  BY <1>5, <1>6 DEF n4, p4, n6, p6

LEMMA AppliedFacts ==
    ASSUME NEW x \in WType, NEW m \in Messages
    PROVE  Told(x, Applied(m, x))
<1>1. \/ m = <<4, "UPDATE">> \/ m = <<4, "RENEW">> \/ m = <<4, "DEL">>
      \/ m = <<4, "STARTED">> \/ m = <<4, "STOPPED">>
      \/ m = <<6, "UPDATE">> \/ m = <<6, "RENEW">> \/ m = <<6, "DEL">>
      \/ m = <<6, "STARTED">> \/ m = <<6, "STOPPED">> \/ m = <<6, "MAPT">>
  BY DEF Messages
<1>2. Told(x, Applied(<<4, "UPDATE">>, x))
  BY LeaseMessages DEF Applied
<1>3. Told(x, Applied(<<4, "RENEW">>, x))
  BY RenewMessages DEF Applied
<1>4. Told(x, Applied(<<4, "DEL">>, x))
  BY LeaseMessages DEF Applied
<1>5. Told(x, Applied(<<4, "STARTED">>, x))
  BY ClientMessages DEF Applied
<1>6. Told(x, Applied(<<4, "STOPPED">>, x))
  BY ClientMessages DEF Applied
<1>7. Told(x, Applied(<<6, "UPDATE">>, x))
  BY LeaseMessages DEF Applied
<1>8. Told(x, Applied(<<6, "MAPT">>, x))
  BY LeaseMessages DEF Applied
<1>9. Told(x, Applied(<<6, "RENEW">>, x))
  BY RenewMessages DEF Applied
<1>10. Told(x, Applied(<<6, "DEL">>, x))
  BY LeaseMessages DEF Applied
<1>11. Told(x, Applied(<<6, "STARTED">>, x))
  BY ClientMessages DEF Applied
<1>12. Told(x, Applied(<<6, "STOPPED">>, x))
  BY ClientMessages DEF Applied
<1>13. QED
  BY <1>1, <1>2, <1>3, <1>4, <1>5, <1>6, <1>7, <1>8, <1>9,
     <1>10, <1>11, <1>12

LEMMA ToldKeeps ==
    ASSUME NEW x, NEW y, MachineInv(x), Told(x, y)
    PROVE  MachineInv(y)
<1>1. Running(y)
  BY DEF MachineInv, Told, Unseen, Running, NoClient4, NoClient6
<1>2. Serves(y)
  BY DEF MachineInv, Told, Unseen, Serves
<1>3. Layers(y)
  BY DEF MachineInv, Told, Unseen, Layers
<1>4. QED
  BY <1>1, <1>2, <1>3 DEF MachineInv, Told

(* What else is written beside the thread: settings, layers, a client that   *)
(* ended by itself.                                                          *)
Beside(x, y) ==
    /\ Unseen(x, y)
    /\ y.check = x.check /\ y.late = x.late /\ y.d4 = x.d4 /\ y.d6 = x.d6
    /\ y.v4 = x.v4 /\ y.v6 = x.v6 /\ y.ch4 = x.ch4 /\ y.ch6 = x.ch6 /\ y.mapt = x.mapt
    /\ y.conn6 = x.conn6 /\ y.dns = x.dns
    /\ y.run4 => x.run4
    /\ y.run6 => x.run6
    /\ y.VLAN = x.VLAN \/ y.VLAN # "CONFIGURING"
    /\ y.PPP = x.PPP \/ y.PPP # "CONFIGURING"

Aside(x, y) == y \in WType /\ Beside(x, y)

LEMMA AsideKeeps ==
    ASSUME NEW x, NEW y, MachineInv(x), Aside(x, y)
    PROVE  MachineInv(y)
<1>1. Running(y)
  BY DEF MachineInv, Aside, Beside, Unseen, Running, NoClient4, NoClient6
<1>2. Serves(y)
  BY DEF MachineInv, Aside, Beside, Unseen, Serves
<1>3. Layers(y)
  BY DEF MachineInv, Aside, Beside, Unseen, Layers
<1>4. Known(y)
  BY DEF MachineInv, Aside, Beside, Known
<1>5. QED
  BY <1>1, <1>2, <1>3, <1>4 DEF MachineInv, Aside

LEMMA AsideLayers ==
    ASSUME NEW x \in WType, NEW l \in {"UP", "DOWN"}, NEW b \in BOOLEAN
    PROVE  /\ Aside(x, [x EXCEPT !.VLAN = l])
           /\ Aside(x, [x EXCEPT !.PPP = l, !.V6CP = b])
           /\ [x EXCEPT !.VLAN = l].Reset = x.Reset
           /\ [x EXCEPT !.PPP = l, !.V6CP = b].Reset = x.Reset
<1>1. l \in LinkStates
  BY DEF LinkStates
<1>2. [x EXCEPT !.VLAN = l] \in WType
  BY <1>1, ZenonT(30) DEF WType
<1>3. [x EXCEPT !.PPP = l, !.V6CP = b] \in WType
  BY <1>1, ZenonT(30) DEF WType
<1>4. Aside(x, [x EXCEPT !.VLAN = l])
  BY <1>2 DEF WType, Aside, Beside, Unseen
<1>5. Aside(x, [x EXCEPT !.PPP = l, !.V6CP = b])
  BY <1>3 DEF WType, Aside, Beside, Unseen
<1>6. QED
  BY <1>4, <1>5 DEF WType

LEMMA SettingTypes ==
    ASSUME NEW x \in WType, NEW b \in BOOLEAN,
           NEW m \in {"NO_IP", "IPV4_ONLY", "IPV6_ONLY", "DUAL_STACK"}
    PROVE  /\ [x EXCEPT !.Reset = b] \in WType
           /\ [x EXCEPT !.VReset = b] \in WType
           /\ [x EXCEPT !.Mode = m, !.Refresh = TRUE] \in WType
           /\ [x EXCEPT !.feature = b, !.featureChanged = TRUE] \in WType
           /\ [x EXCEPT !.run4 = FALSE] \in WType
           /\ [x EXCEPT !.run6 = FALSE] \in WType
<1>1. [x EXCEPT !.Reset = b] \in WType
  BY DEF WType
<1>2. [x EXCEPT !.VReset = b] \in WType
  BY DEF WType
<1>3. [x EXCEPT !.Mode = m, !.Refresh = TRUE] \in WType
  BY ZenonT(30) DEF WType
<1>4. [x EXCEPT !.feature = b, !.featureChanged = TRUE] \in WType
  BY ZenonT(30) DEF WType
<1>5. [x EXCEPT !.run4 = FALSE] \in WType
  BY ZenonT(30) DEF WType
<1>6. [x EXCEPT !.run6 = FALSE] \in WType
  BY ZenonT(30) DEF WType
<1>7. QED
  BY <1>1, <1>2, <1>3, <1>4, <1>5, <1>6

LEMMA AsideSettings ==
    ASSUME NEW x \in WType, NEW b \in BOOLEAN,
           NEW m \in {"NO_IP", "IPV4_ONLY", "IPV6_ONLY", "DUAL_STACK"}
    PROVE  /\ Aside(x, [x EXCEPT !.Reset = b])
           /\ Aside(x, [x EXCEPT !.VReset = b])
           /\ Aside(x, [x EXCEPT !.Mode = m, !.Refresh = TRUE])
           /\ Aside(x, [x EXCEPT !.feature = b, !.featureChanged = TRUE])
           /\ Aside(x, [x EXCEPT !.run4 = FALSE])
           /\ Aside(x, [x EXCEPT !.run6 = FALSE])
<1>1. Beside(x, [x EXCEPT !.Reset = b])
  BY DEF WType, Beside, Unseen
<1>2. Beside(x, [x EXCEPT !.VReset = b])
  BY DEF WType, Beside, Unseen
<1>3. Beside(x, [x EXCEPT !.Mode = m, !.Refresh = TRUE])
  BY DEF WType, Beside, Unseen
<1>4. Beside(x, [x EXCEPT !.feature = b, !.featureChanged = TRUE])
  BY DEF WType, Beside, Unseen
<1>5. Beside(x, [x EXCEPT !.run4 = FALSE])
  BY DEF WType, Beside, Unseen
<1>6. Beside(x, [x EXCEPT !.run6 = FALSE])
  BY DEF WType, Beside, Unseen
<1>7. QED
  BY <1>1, <1>2, <1>3, <1>4, <1>5, <1>6, SettingTypes DEF Aside

-----------------------------------------------------------------------------
(* Every step keeps the invariant.                                           *)

(* The states with an outcome: all of the loop but REFRESHING.               *)
Works == StateConfiguring \/ StateObtaining \/ StateStandby \/ StateLeased

LEMMA WorkSound ==
    ASSUME MachineInv(w), Works
    PROVE  Sound(w, w')
<1>1. CASE StateConfiguring
  BY <1>1, VlanConfiguringSound, PppConfiguringSound, ValidatingSound DEF StateConfiguring
<1>2. CASE StateObtaining
  BY <1>2, ObtainingSound DEF StateObtaining
<1>3. CASE StateStandby
  BY <1>3, StandbySound DEF StateStandby
<1>4. CASE StateLeased
  BY <1>4, Ipv4LeasedSound, Ipv6LeasedSound, DualStackSound, MaptActiveSound DEF StateLeased
<1>5. QED
  BY <1>1, <1>2, <1>3, <1>4 DEF Works

(* Nothing runs before the thread and after it.                              *)
LEMMA InvOutside ==
    ASSUME NEW x, NEW y \in WType, MachineInv(x),
           x.st \in {"none", "DECONFIGURING", "EXIT"}, y.st \in {"none", "created", "EXIT"},
           ~ y.SMRunning,
           y.run4 = x.run4, y.run6 = x.run6, y.late = x.late, y.check = x.check,
           y.VLAN = x.VLAN, y.PPP = x.PPP
    PROVE  MachineInv(y)
<1>1. NoClient4(y) /\ NoClient6(y) /\ ~ y.check
  BY DEF MachineInv, Running, Idle, NoClient4, NoClient6
<1>2. Known(y)
  BY <1>1 DEF Known, NoClient4, NoClient6
<1>3. Running(y)
  BY <1>1 DEF Running, Idle, Loop, Configuring, Leased
<1>4. Serves(y) /\ Layers(y)
  BY DEF Serves, Leased, Serving6, MachineInv, Layers
<1>5. QED
  BY <1>2, <1>3, <1>4 DEF MachineInv

LEMMA DeconfiguringSound ==
    ASSUME MachineInv(w), StateDeconfiguring
    PROVE  /\ MachineInv(w') /\ w'.st = "EXIT" /\ w'.Status = "DISABLED"
           /\ w'.Reset = FALSE /\ w'.SMRunning = FALSE /\ w'.Conn = w.Conn
<1>1. w \in WType /\ w.st = "DECONFIGURING"
  BY DEF MachineInv, StateDeconfiguring
<1>2. "EXIT" \in SMStates
  BY DEF SMStates
<1> DEFINE y == [w EXCEPT !.Status = "DISABLED", !.Reset = FALSE, !.SMRunning = FALSE,
                          !.st = "EXIT"]
<1>3. w' = y
  BY DEF StateDeconfiguring
<1>4. y \in WType
  BY <1>1, <1>2, ZenonT(30) DEF WType
<1>5. /\ y.st = "EXIT" /\ y.Status = "DISABLED" /\ y.Reset = FALSE /\ y.SMRunning = FALSE
      /\ y.Conn = w.Conn /\ y.run4 = w.run4 /\ y.run6 = w.run6 /\ y.late = w.late
      /\ y.check = w.check /\ y.VLAN = w.VLAN /\ y.PPP = w.PPP
  BY <1>1 DEF WType
<1> HIDE DEF y
<1>6. MachineInv(y)
  BY <1>1, <1>4, <1>5, InvOutside
<1>7. QED
  BY <1>3, <1>5, <1>6

LEMMA ExitSound ==
    ASSUME MachineInv(w), StateExit
    PROVE  /\ MachineInv(w') /\ w'.st = "none" /\ w'.Status = w.Status
           /\ w'.Reset = w.Reset /\ w'.SMRunning = w.SMRunning /\ w'.Conn = w.Conn
<1> DEFINE c == ClearDHCPData(w)
           y == Goto(c, "none")
<1>1. w \in WType /\ w.st = "EXIT" /\ ~ w.SMRunning
  BY DEF MachineInv, StateExit, Running, Loop, Configuring, Leased
<1>2. /\ c \in WType /\ c.st = w.st /\ c.Status = w.Status
      /\ c.SMRunning = w.SMRunning /\ c.Reset = w.Reset /\ c.late = w.late
      /\ c.Conn = w.Conn /\ c.VLAN = w.VLAN /\ c.PPP = w.PPP
      /\ c.run4 = w.run4 /\ c.run6 = w.run6 /\ c.check = w.check
  BY <1>1, ClearFacts
<1>3. w' = y
  BY DEF StateExit
<1> HIDE DEF c
<1>4. "none" \in SMStates
  BY DEF SMStates
<1>5. Frame(c, y) /\ y.st = "none" /\ y.Status = c.Status /\ y.check = c.check
  BY <1>2, <1>4, GotoFacts
<1>6. y.run4 = c.run4 /\ y.run6 = c.run6 /\ y.VLAN = c.VLAN /\ y.PPP = c.PPP
  BY <1>2 DEF Goto, WType
<1> HIDE DEF y
<1>7. MachineInv(y)
  BY <1>1, <1>2, <1>5, <1>6, InvOutside DEF Frame
<1>8. QED
  BY <1>2, <1>3, <1>5, <1>7 DEF Frame

LEMMA CreatedSound ==
    ASSUME MachineInv(w), StartMachine
    PROVE  MachineInv(w')
<1> DEFINE y == Goto(w, "created")
<1>1. w \in WType /\ w.st = "none" /\ ~ w.SMRunning
  BY DEF MachineInv, StartMachine, Running, Loop, Configuring, Leased
<1>2. w' = y
  BY DEF StartMachine
<1>3. "created" \in SMStates
  BY DEF SMStates
<1>4. Frame(w, y) /\ y.st = "created" /\ y.check = w.check
  BY <1>1, <1>3, GotoFacts
<1>5. y.run4 = w.run4 /\ y.run6 = w.run6 /\ y.VLAN = w.VLAN /\ y.PPP = w.PPP
  BY <1>1 DEF Goto, WType
<1> HIDE DEF y
<1>6. MachineInv(y)
  BY <1>1, <1>4, <1>5, InvOutside DEF Frame
<1>7. QED
  BY <1>2, <1>6

(* What the threads beside the machine write to its interface, the policy    *)
(* that starts the machine excepted.                                         *)
Writes ==
    \/ LowerLayers \/ LayerFails \/ DhcpEvent \/ ClientReports
    \/ SetReset \/ BridgeModeChanged \/ SetVlanReset \/ SetMode \/ SetMaptFeature

LEMMA WriteSound ==
    ASSUME StackTypeOK, MachineInv(w), Writes
    PROVE  /\ MachineInv(w') /\ Unseen(w, w')
           /\ w'.Reset = w.Reset \/ SetReset \/ BridgeModeChanged
<1>1. w \in WType
  BY DEF MachineInv
<1>2. CASE LowerLayers
  <2>1. Aside(w, w') /\ w'.Reset = w.Reset
    <3>1. CASE w' = [w EXCEPT !.VLAN = IF w.vlanReq THEN "UP" ELSE "DOWN"]
      BY <1>1, <3>1, AsideLayers
    <3>2. CASE w' = [w EXCEPT !.PPP = IF w.pppReq THEN "UP" ELSE "DOWN", !.V6CP = w.pppReq]
      <4>1. w.pppReq \in BOOLEAN
        BY <1>1 DEF WType
      <4>2. QED
        BY <1>1, <3>2, <4>1, AsideLayers
    <3>3. QED
      BY <1>2, <3>1, <3>2 DEF LowerLayers
  <2>2. QED
    BY <2>1, AsideKeeps DEF Aside, Beside
<1>3. CASE LayerFails
  <2>1. Aside(w, w') /\ w'.Reset = w.Reset
    <3>1. ASSUME NEW l \in {"UP", "DOWN"}, w' = [w EXCEPT !.VLAN = l]
          PROVE  Aside(w, w') /\ w'.Reset = w.Reset
      BY <1>1, <3>1, AsideLayers
    <3>2. ASSUME NEW l \in {"UP", "DOWN"}, w' = [w EXCEPT !.PPP = l, !.V6CP = l = "UP"]
          PROVE  Aside(w, w') /\ w'.Reset = w.Reset
      <4> DEFINE b == (l = "UP")
      <4>1. b \in BOOLEAN /\ w' = [w EXCEPT !.PPP = l, !.V6CP = b]
        BY <3>2
      <4> HIDE DEF b
      <4>2. QED
        BY <1>1, <4>1, AsideLayers
    <3>3. QED
      BY <1>3, <3>1, <3>2 DEF LayerFails
  <2>2. QED
    BY <2>1, AsideKeeps DEF Aside, Beside
<1>4. CASE DhcpEvent
  <2>1. PICK m \in msgs : w' = IF w.SMRunning THEN Applied(m, w) ELSE w
    BY <1>4 DEF DhcpEvent
  <2>2. m \in Messages
    BY DEF StackTypeOK
  <2>3. Told(w, w') \/ w' = w
    BY <1>1, <2>1, <2>2, AppliedFacts
  <2>4. QED
    BY <2>3, ToldKeeps DEF Told, Unseen
<1>5. CASE ClientReports
  <2>1. w' = w \/ (Aside(w, w') /\ w'.Reset = w.Reset)
    <3>1. \/ w' = w \/ w' = [w EXCEPT !.run4 = FALSE] \/ w' = [w EXCEPT !.run6 = FALSE]
      BY <1>5 DEF ClientReports
    <3>2. /\ Aside(w, [w EXCEPT !.run4 = FALSE])
          /\ Aside(w, [w EXCEPT !.run6 = FALSE])
      BY <1>1, AsideSettings
    <3>3. /\ [w EXCEPT !.run4 = FALSE].Reset = w.Reset
          /\ [w EXCEPT !.run6 = FALSE].Reset = w.Reset
      BY <1>1 DEF WType
    <3>4. QED
      BY <3>1, <3>2, <3>3
  <2>2. QED
    BY <2>1, AsideKeeps DEF Aside, Beside, Unseen
<1>6. CASE SetReset \/ BridgeModeChanged
  <2> DEFINE b == ~ w.Reset
  <2>1. b \in BOOLEAN /\ (w' = [w EXCEPT !.Reset = b] \/ w' = [w EXCEPT !.Reset = TRUE])
    BY <1>1, <1>6 DEF SetReset, BridgeModeChanged, WType
  <2> HIDE DEF b
  <2>2. Aside(w, w')
    BY <1>1, <2>1, AsideSettings
  <2>3. QED
    BY <1>6, <2>2, AsideKeeps DEF Aside, Beside
<1>7. CASE SetVlanReset
  <2> DEFINE b == ~ w.VReset
  <2>1. b \in BOOLEAN /\ w' = [w EXCEPT !.VReset = b]
    BY <1>1, <1>7 DEF SetVlanReset, WType
  <2> HIDE DEF b
  <2>2. Aside(w, w') /\ w'.Reset = w.Reset
    BY <1>1, <2>1, AsideSettings DEF WType
  <2>3. QED
    BY <2>2, AsideKeeps DEF Aside, Beside
<1>8. CASE SetMode
  <2>1. PICK m \in Modes : w' = [w EXCEPT !.Mode = m, !.Refresh = TRUE]
    BY <1>8 DEF SetMode
  <2>2. m \in {"NO_IP", "IPV4_ONLY", "IPV6_ONLY", "DUAL_STACK"}
    BY StackAssumption DEF StackAssumption
  <2>3. Aside(w, w') /\ w'.Reset = w.Reset
    BY <1>1, <2>1, <2>2, AsideSettings DEF WType
  <2>4. QED
    BY <2>3, AsideKeeps DEF Aside, Beside
<1>9. CASE SetMaptFeature
  <2> DEFINE b == ~ w.feature
  <2>1. b \in BOOLEAN /\ w' = [w EXCEPT !.feature = b, !.featureChanged = TRUE]
    BY <1>1, <1>9 DEF SetMaptFeature, WType
  <2> HIDE DEF b
  <2>2. Aside(w, w') /\ w'.Reset = w.Reset
    BY <1>1, <2>1, AsideSettings DEF WType
  <2>3. QED
    BY <2>2, AsideKeeps DEF Aside, Beside
<1>10. QED
  BY <1>2, <1>3, <1>4, <1>5, <1>6, <1>7, <1>8, <1>9 DEF Writes

(* The types of the other variables.                                         *)
LEMMA OthersTyped ==
    ASSUME StackTypeOK, StackNext
    PROVE  /\ prof' \in Profiles /\ ctl' \in [en : BOOLEAN, nw : BOOLEAN]
           /\ adm' \in AdmType /\ msgs' \subseteq Messages
<1>1. prof' \in Profiles
  BY DEF StackTypeOK, StackNext
<1>2. ASSUME EndIteration
      PROVE  ctl' \in [en : BOOLEAN, nw : BOOLEAN] /\ adm' \in AdmType /\ msgs' = msgs
  BY <1>2 DEF StackTypeOK, EndIteration, AdmType
<1>3. CASE Works \/ Start \/ StateDeconfiguring \/ StateExit
  BY <1>1, <1>2, <1>3 DEF StackTypeOK, Works, StateConfiguring, StateObtaining, StateStandby,
     StateLeased, Start, StateDeconfiguring, StateExit
<1>4. CASE StateRefreshing
  <2> DEFINE b == adm.ResetScan \/ (w'.st = "VLAN_CONFIGURING" /\ w.Reset)
  <2>1. b \in BOOLEAN /\ adm' = [adm EXCEPT !.NwModeChanged = FALSE, !.ResetScan = b]
    BY <1>4 DEF StackTypeOK, StateRefreshing, AdmType
  <2> HIDE DEF b
  <2>2. adm' \in AdmType
    BY <2>1 DEF StackTypeOK, AdmType
  <2>3. QED
    BY <1>1, <1>4, <2>2 DEF StackTypeOK, StateRefreshing, AdmType
<1>5. CASE Sample
  <2> DEFINE b == ctl.nw \/ adm.NwModeChanged
  <2>1. b \in BOOLEAN /\ ctl' = [en |-> adm.Enable, nw |-> b]
    BY <1>5 DEF Sample
  <2> HIDE DEF b
  <2>2. adm' \in AdmType /\ msgs' = msgs
    BY <1>5 DEF StackTypeOK, Sample, AdmType
  <2>3. adm.Enable \in BOOLEAN
    BY DEF StackTypeOK, AdmType
  <2>4. QED
    BY <1>1, <2>1, <2>2, <2>3 DEF StackTypeOK
<1>6. CASE StartMachine \/ LowerLayers \/ SetReset \/ BridgeModeChanged \/ SetVlanReset
           \/ SetMode \/ SetMaptFeature \/ LayerFails
  BY <1>1, <1>6 DEF StackTypeOK, StartMachine, LowerLayers, SetReset, BridgeModeChanged,
     SetVlanReset, SetMode, SetMaptFeature, LayerFails
<1>7. CASE DhcpEvent
  BY <1>1, <1>7 DEF StackTypeOK, DhcpEvent
<1>8. CASE Leases \/ LeaseChanges \/ ClientReports
  <2>1. ctl' = ctl /\ adm' = adm
    BY <1>8 DEF Leases, LeaseChanges, ClientReports
  <2>2. \E m \in Messages : Sends(m)
    <3>1. CASE Leases
      BY <3>1 DEF Leases, Messages
    <3>2. CASE LeaseChanges
      BY <3>2 DEF LeaseChanges
    <3>3. CASE ClientReports
      BY <3>3 DEF ClientReports, Messages
    <3>4. QED
      BY <1>8, <3>1, <3>2, <3>3
  <2>3. QED
    BY <1>1, <2>1, <2>2 DEF StackTypeOK, Sends
<1>9. CASE SetEnable \/ SetIfEnable \/ SetPhy \/ SetSelection \/ SetNwMode
  <2>1. adm' \in AdmType
    BY <1>9 DEF StackTypeOK, SetEnable, SetIfEnable, SetPhy, SetSelection, SetNwMode, AdmType
  <2>2. QED
    BY <1>1, <1>9, <2>1 DEF StackTypeOK, SetEnable, SetIfEnable, SetPhy, SetSelection, SetNwMode
<1>10. QED
  BY <1>3, <1>4, <1>5, <1>6, <1>7, <1>8, <1>9
     DEF StackNext, Thread, Around, Disturbance, Works

(* The invariant of the data reads one variable besides: the settings.       *)
LEMMA InvPrimed ==
    ASSUME MachineInv(w'), prof' = prof
    PROVE  MachineInv(w)'
<1>1. Known(w)' /\ Running(w)' /\ Serves(w)' /\ w' \in WType
  BY DEF MachineInv, Known, Running, Serves, NoClient4, NoClient6
<1>2. Layers(w)'
  BY DEF MachineInv, Layers
<1>3. QED
  BY <1>1, <1>2 DEF MachineInv

LEMMA MachineKept ==
    ASSUME StackTypeOK, MachineInv(w), StackNext
    PROVE  MachineInv(w')
<1>1. CASE Works
  BY <1>1, WorkSound DEF Sound
<1>2. CASE Start \/ StateDeconfiguring \/ StateExit \/ StartMachine
  BY <1>2, StartSound, DeconfiguringSound, ExitSound, CreatedSound
<1>3. CASE StateRefreshing
  BY <1>3, RefreshingSound DEF StateRefreshing
<1>4. CASE Writes
  BY <1>4, WriteSound
<1>5. CASE \/ Sample \/ Leases \/ LeaseChanges
           \/ SetEnable \/ SetIfEnable \/ SetPhy \/ SetSelection \/ SetNwMode
  BY <1>5 DEF Sample, Leases, LeaseChanges, SetEnable, SetIfEnable, SetPhy, SetSelection,
     SetNwMode
<1>6. QED
  BY <1>1, <1>2, <1>3, <1>4, <1>5
     DEF StackNext, Thread, Around, Disturbance, Works, Writes

LEMMA StackInductive == StackInv /\ [StackNext]_svars => StackInv'
<1> SUFFICES ASSUME StackInv, [StackNext]_svars
             PROVE  StackInv'
  OBVIOUS
<1>1. CASE StackNext
  <2>1. MachineInv(w')
    BY <1>1, MachineKept DEF StackInv
  <2>2. MachineInv(w)'
    BY <1>1, <2>1, InvPrimed DEF StackNext
  <2>3. w' \in WType
    BY <2>1 DEF MachineInv
  <2>4. StackTypeOK'
    BY <1>1, <2>3, OthersTyped DEF StackInv, StackTypeOK
  <2>5. QED
    BY <2>2, <2>4 DEF StackInv
<1>2. CASE UNCHANGED svars
  BY <1>2 DEF svars, StackInv, StackTypeOK, MachineInv, Known, Running, Serves, Layers,
     NoClient4, NoClient6
<1>3. QED
  BY <1>1, <1>2

LEMMA StackInitially == StackInit => StackInv
<1> SUFFICES ASSUME StackInit
             PROVE  StackInv
  OBVIOUS
<1>1. PICK m \in Modes :
         w = [st |-> "none", SMRunning |-> FALSE, Status |-> "DISABLED",
              Reset |-> FALSE, VReset |-> FALSE, Expired |-> FALSE,
              VLAN |-> "DOWN", PPP |-> "DOWN", V6CP |-> FALSE,
              vlanReq |-> FALSE, pppReq |-> FALSE, Mode |-> m, Refresh |-> FALSE,
              v4 |-> FALSE, v6 |-> FALSE, mapt |-> FALSE,
              ch4 |-> FALSE, ch6 |-> FALSE, chM |-> FALSE,
              feature |-> TRUE, featureChanged |-> FALSE,
              d4 |-> FALSE, d6 |-> FALSE, run4 |-> FALSE, run6 |-> FALSE,
              timer |-> "NOTSTARTED", Conn |-> FALSE, check |-> FALSE,
              conn4 |-> FALSE, conn6 |-> FALSE, wan |-> FALSE,
              dns |-> {}, late |-> FALSE]
  BY DEF StackInit
<1>2. m \in {"NO_IP", "IPV4_ONLY", "IPV6_ONLY", "DUAL_STACK"}
  BY StackAssumption DEF StackAssumption
<1>3. w \in WType
  BY <1>1, <1>2 DEF WType, SMStates, LinkStates
<1>4. StackTypeOK
  BY <1>3 DEF StackInit, StackTypeOK, AdmType
<1>5. /\ w.st = "none" /\ ~ w.SMRunning /\ ~ w.check /\ ~ w.run4 /\ ~ w.run6
      /\ w.VLAN = "DOWN" /\ w.PPP = "DOWN"
  BY <1>1
<1>6. Known(w) /\ Running(w) /\ Serves(w) /\ Layers(w)
  BY <1>5 DEF Known, Running, NoClient4, NoClient6, Serves, Layers, Idle, Loop, Configuring,
     Leased, Serving6
<1>7. QED
  BY <1>3, <1>4, <1>6 DEF StackInv, MachineInv

(* The data of the interface, its layers and its clients keep their types    *)
(* and the invariant, for every set of interface settings, every mode        *)
(* written, every kind of event and any number of waiting event threads.     *)
THEOREM StackInvariant == StackSpec => []StackInv
  BY StackInitially, StackInductive, PTL DEF StackSpec

THEOREM StackTyped == StackSpec => []StackTypeOK
<1>1. StackInv => StackTypeOK
  BY DEF StackInv
<1>2. QED
  BY <1>1, StackInvariant, PTL

(* No DHCP client and no connectivity check outlives the state machine, and  *)
(* one that runs is known to run: the ten places that start or stop a client,*)
(* wan_transition_wan_validated and wan_state_exit, which forget the statuses*)
(* of the clients, and the messages that come in between included.           *)
THEOREM ClientsAreOwned == StackSpec => []NoOrphanClient
<1>1. StackInv => NoOrphanClient
  <2> SUFFICES ASSUME StackInv PROVE NoOrphanClient
    OBVIOUS
  <2>1. w \in WType /\ Known(w) /\ Running(w)
    BY DEF StackInv, MachineInv
  <2>2. w.st \notin Idle => w.SMRunning
    BY <2>1 DEF Running, Idle, WType, SMStates, Loop
  <2>3. QED
    BY <2>1, <2>2 DEF NoOrphanClient, Known, Running, NoClient4, NoClient6
<1>2. QED
  BY <1>1, StackInvariant, PTL

(* In the states that serve a family its name servers are in resolv.conf:    *)
(* every set-up and tear-down of one family, reconfiguration, MAP-T and its  *)
(* failures, and the way to standby and back, rewrite the file for both.     *)
THEOREM NameServersServed == StackSpec => []DnsServed
<1>1. StackInv => DnsServed
  BY DEF StackInv, MachineInv, Serves, DnsServed, Serving6
<1>2. QED
  BY <1>1, StackInvariant, PTL

-----------------------------------------------------------------------------
(* The refinement.  The interface state machine with its layers implements   *)
(* the machine IfaceSM.  First what the actions of IfaceSM say under the     *)
(* mapping, in the terms of the machine; then each step of the machine is    *)
(* one of them, by its outcome, or changes nothing that IfaceSM has.         *)

(* The mapping.  Copy is the abstract thread's copy of Enable, Row the row   *)
(* of its interface.                                                         *)
Copy == w.st \in Loop => ctl.en
Slot == [st |-> AbsPhase, en |-> Copy]

LEMMA Single ==
    ASSUME NEW r, NEW s
    PROVE  /\ <<r>>[1] = r /\ [<<r>> EXCEPT ![1] = s] = <<s>>
           /\ << <<r>> >>[1][1] = r /\ [<< <<r>> >> EXCEPT ![1][1] = s] = << <<s>> >>
OBVIOUS

(* What an action does to the copy and the phase.                            *)
Moves(s) == AbsPhase' = s /\ (Copy' <=> (s \in Abs!ISMLoop => adm.Enable))

LEMMA GotoMapped ==
    ASSUME NEW s, Moves(s)
    PROVE  Abs!ISMGoto(1, 1, s)
<1>1. Slot' = [st |-> s, en |-> s \in Abs!ISMLoop => adm.Enable]
  BY DEF Moves, Slot
<1>2. [<< <<Slot>> >> EXCEPT ![1][1] = Slot'] = << <<Slot'>> >>
  BY Single
<1>3. [Enable |-> adm.Enable, ResetFailOverScan |-> adm.ResetScan].Enable = adm.Enable
  OBVIOUS
<1>4. QED
  BY <1>1, <1>2, <1>3 DEF Abs!ISMGoto, Slot, Copy

LEMMA ConditionsMapped ==
    /\ Abs!IfDown(1, 1) <=> ~ Copy \/ ~ adm.IfEnable \/ adm.Sel = "NOT_SELECTED" \/ ~ adm.Phy
    /\ \A s : Abs!Healthy(1, 1, s) <=> AbsPhase = s /\ ~ Abs!IfDown(1, 1)
<1>1. << <<Slot>> >>[1][1] = Slot
  BY Single
<1>2. <<AbsIface>>[1] = AbsIface
  BY Single
<1>3. /\ AbsIface.Enable = adm.IfEnable /\ AbsIface.PhyUp = adm.Phy /\ AbsIface.Selection = adm.Sel
  BY DEF AbsIface
<1>4. Slot.st = AbsPhase /\ Slot.en = Copy
  BY DEF Slot
<1>5. QED
  BY <1>1, <1>2, <1>3, <1>4 DEF Abs!IfDown, Abs!Healthy, Slot, Copy

(* What an action does to the row of the interface.                          *)
RowType == [Group : {1}, Enable : BOOLEAN, PhyUp : BOOLEAN,
            Selection : {"NOT_SELECTED", "SELECTED", "ACTIVE"},
            Status : {"DISABLED", "INITIALISING", "STANDBY", "UP"},
            Connectivity : BOOLEAN, ActiveLink : {FALSE}, Reset : BOOLEAN,
            SMRunning : BOOLEAN]

Published(x) == IF x.Status = "VALIDATING" THEN "INITIALISING" ELSE x.Status

Row(x, a) ==
    [Group |-> 1, Enable |-> a.IfEnable, PhyUp |-> a.Phy, Selection |-> a.Sel,
     Status |-> Published(x),
     Connectivity |-> x.Conn, ActiveLink |-> FALSE, Reset |-> x.Reset,
     SMRunning |-> x.SMRunning]

LEMMA RowFacts ==
    ASSUME NEW x \in WType, NEW a \in AdmType
    PROVE  /\ Row(x, a) \in RowType
           /\ Row(x, a).Enable = a.IfEnable /\ Row(x, a).PhyUp = a.Phy
           /\ Row(x, a).Selection = a.Sel
           /\ Row(x, a).Status = Published(x)
           /\ Row(x, a).Connectivity = x.Conn /\ Row(x, a).Reset = x.Reset
           /\ Row(x, a).SMRunning = x.SMRunning
<1> DEFINE s == Published(x)
<1>1. s \in {"DISABLED", "INITIALISING", "STANDBY", "UP"}
  BY DEF WType, Published
<1> HIDE DEF s
<1>2. /\ a.IfEnable \in BOOLEAN /\ a.Phy \in BOOLEAN
      /\ a.Sel \in {"NOT_SELECTED", "SELECTED", "ACTIVE"}
  BY DEF AdmType
<1>3. x.Conn \in BOOLEAN /\ x.Reset \in BOOLEAN /\ x.SMRunning \in BOOLEAN
  BY DEF WType
<1> DEFINE r == [Group |-> 1, Enable |-> a.IfEnable, PhyUp |-> a.Phy, Selection |-> a.Sel,
                 Status |-> s, Connectivity |-> x.Conn, ActiveLink |-> FALSE,
                 Reset |-> x.Reset, SMRunning |-> x.SMRunning]
<1>4. r \in RowType
  BY <1>1, <1>2, <1>3 DEF RowType
<1>5. /\ r.Enable = a.IfEnable /\ r.PhyUp = a.Phy /\ r.Selection = a.Sel /\ r.Status = s
      /\ r.Connectivity = x.Conn /\ r.Reset = x.Reset /\ r.SMRunning = x.SMRunning
  OBVIOUS
<1>6. Row(x, a) = r
  BY DEF Row, s
<1> HIDE DEF r
<1>7. QED
  BY <1>4, <1>5, <1>6 DEF s

LEMMA RowsEqual ==
    ASSUME NEW a \in RowType, NEW b \in RowType,
           b.Enable = a.Enable, b.PhyUp = a.PhyUp, b.Selection = a.Selection,
           b.Status = a.Status, b.Connectivity = a.Connectivity, b.Reset = a.Reset,
           b.SMRunning = a.SMRunning
    PROVE  a = b
<1> DEFINE fields == {"Group", "Enable", "PhyUp", "Selection", "Status", "Connectivity",
                      "ActiveLink", "Reset", "SMRunning"}
<1>1. a = [f \in fields |-> a[f]]
  BY DEF RowType
<1>2. b = [f \in fields |-> b[f]]
  BY DEF RowType
<1>3. \A f \in fields : a[f] = b[f]
  BY DEF RowType
<1>4. [f \in fields |-> a[f]] = [f \in fields |-> b[f]]
  BY <1>3
<1>5. QED
  BY <1>1, <1>2, <1>4

(* The updates of IfaceSM.                                                   *)
SameSettings(a, b) == b.Enable = a.Enable /\ b.PhyUp = a.PhyUp /\ b.Selection = a.Selection

LEMMA RowPublishes ==
    ASSUME NEW a \in RowType, NEW b \in RowType, SameSettings(a, b),
           b.Connectivity = a.Connectivity, b.Reset = a.Reset,
           b.SMRunning = a.SMRunning
    PROVE  <<b>> = [<<a>> EXCEPT ![1].Status = b.Status]
<1> DEFINE c == [a EXCEPT !.Status = b.Status]
<1>1. [<<a>> EXCEPT ![1].Status = b.Status] = <<c>>
  BY Single
<1>2. c \in RowType
  BY DEF RowType
<1>3. /\ SameSettings(b, c) /\ c.Status = b.Status /\ c.Connectivity = b.Connectivity
      /\ c.Reset = b.Reset /\ c.SMRunning = b.SMRunning
  BY DEF RowType, SameSettings
<1> HIDE DEF c
<1>4. b = c
  BY <1>2, <1>3, RowsEqual DEF SameSettings
<1>5. QED
  BY <1>1, <1>4

LEMMA RowStarts ==
    ASSUME NEW a \in RowType, NEW b \in RowType, SameSettings(a, b),
           b.Connectivity = a.Connectivity, b.Reset = a.Reset,
           b.SMRunning = TRUE
    PROVE  <<b>> = [<<a>> EXCEPT ![1].Status = b.Status, ![1].SMRunning = TRUE]
<1> DEFINE c == [a EXCEPT !.Status = b.Status, !.SMRunning = TRUE]
<1>1. [<<a>> EXCEPT ![1].Status = b.Status, ![1].SMRunning = TRUE] = <<c>>
  BY Single
<1>2. c \in RowType
  BY DEF RowType
<1>3. /\ SameSettings(b, c) /\ c.Status = b.Status /\ c.Connectivity = b.Connectivity
      /\ c.Reset = b.Reset /\ c.SMRunning = b.SMRunning
  BY DEF RowType, SameSettings
<1> HIDE DEF c
<1>4. b = c
  BY <1>2, <1>3, RowsEqual DEF SameSettings
<1>5. QED
  BY <1>1, <1>4

LEMMA RowConnects ==
    ASSUME NEW a \in RowType, NEW b \in RowType, SameSettings(a, b),
           b.Connectivity = TRUE, b.Reset = a.Reset, b.SMRunning = a.SMRunning
    PROVE  <<b>> = [<<a>> EXCEPT ![1].Status = b.Status, ![1].Connectivity = TRUE]
<1> DEFINE c == [a EXCEPT !.Status = b.Status, !.Connectivity = TRUE]
<1>1. [<<a>> EXCEPT ![1].Status = b.Status, ![1].Connectivity = TRUE] = <<c>>
  BY Single
<1>2. c \in RowType
  BY DEF RowType
<1>3. /\ SameSettings(b, c) /\ c.Status = b.Status /\ c.Connectivity = b.Connectivity
      /\ c.Reset = b.Reset /\ c.SMRunning = b.SMRunning
  BY DEF RowType, SameSettings
<1> HIDE DEF c
<1>4. b = c
  BY <1>2, <1>3, RowsEqual DEF SameSettings
<1>5. QED
  BY <1>1, <1>4

LEMMA RowAborts ==
    ASSUME NEW a \in RowType, NEW b \in RowType, SameSettings(a, b),
           b.Connectivity = a.Connectivity, b.Reset = FALSE,
           b.SMRunning = a.SMRunning
    PROVE  <<b>> = [<<a>> EXCEPT ![1].Reset = FALSE, ![1].Status = b.Status]
<1> DEFINE c == [a EXCEPT !.Reset = FALSE, !.Status = b.Status]
<1>1. [<<a>> EXCEPT ![1].Reset = FALSE, ![1].Status = b.Status] = <<c>>
  BY Single
<1>2. c \in RowType
  BY DEF RowType
<1>3. /\ SameSettings(b, c) /\ c.Status = b.Status /\ c.Connectivity = b.Connectivity
      /\ c.Reset = b.Reset /\ c.SMRunning = b.SMRunning
  BY DEF RowType, SameSettings
<1> HIDE DEF c
<1>4. b = c
  BY <1>2, <1>3, RowsEqual DEF SameSettings
<1>5. QED
  BY <1>1, <1>4

LEMMA RowResets ==
    ASSUME NEW a \in RowType, NEW b \in RowType, SameSettings(a, b),
           b.Status = a.Status, b.Connectivity = a.Connectivity, b.SMRunning = a.SMRunning
    PROVE  <<b>> = [<<a>> EXCEPT ![1].Reset = b.Reset]
<1> DEFINE c == [a EXCEPT !.Reset = b.Reset]
<1>1. [<<a>> EXCEPT ![1].Reset = b.Reset] = <<c>>
  BY Single
<1>2. c \in RowType
  BY DEF RowType
<1>3. /\ SameSettings(b, c) /\ c.Status = b.Status /\ c.Connectivity = b.Connectivity
      /\ c.Reset = b.Reset /\ c.SMRunning = b.SMRunning
  BY DEF RowType, SameSettings
<1> HIDE DEF c
<1>4. b = c
  BY <1>2, <1>3, RowsEqual DEF SameSettings
<1>5. QED
  BY <1>1, <1>4

LEMMA RowExits ==
    ASSUME NEW a \in RowType, NEW b \in RowType, SameSettings(a, b),
           b.Connectivity = a.Connectivity, b.Reset = FALSE,
           b.SMRunning = FALSE
    PROVE  <<b>> = [<<a>> EXCEPT ![1].Status = b.Status, ![1].Reset = FALSE, ![1].SMRunning = FALSE]
<1> DEFINE c == [a EXCEPT !.Status = b.Status, !.Reset = FALSE, !.SMRunning = FALSE]
<1>1. [<<a>> EXCEPT ![1].Status = b.Status, ![1].Reset = FALSE, ![1].SMRunning = FALSE] = <<c>>
  BY Single
<1>2. c \in RowType
  BY DEF RowType
<1>3. /\ SameSettings(b, c) /\ c.Status = b.Status /\ c.Connectivity = b.Connectivity
      /\ c.Reset = b.Reset /\ c.SMRunning = b.SMRunning
  BY DEF RowType, SameSettings
<1> HIDE DEF c
<1>4. b = c
  BY <1>2, <1>3, RowsEqual DEF SameSettings
<1>5. QED
  BY <1>1, <1>4

LEMMA RowEnables ==
    ASSUME NEW a \in RowType, NEW b \in RowType,
           b.PhyUp = a.PhyUp, b.Selection = a.Selection, b.Status = a.Status,
           b.Connectivity = a.Connectivity, b.Reset = a.Reset, b.SMRunning = a.SMRunning
    PROVE  <<b>> = [<<a>> EXCEPT ![1].Enable = b.Enable]
<1> DEFINE c == [a EXCEPT !.Enable = b.Enable]
<1>1. [<<a>> EXCEPT ![1].Enable = b.Enable] = <<c>>
  BY Single
<1>2. c \in RowType
  BY DEF RowType
<1>3. /\ SameSettings(b, c) /\ c.Status = b.Status /\ c.Connectivity = b.Connectivity
      /\ c.Reset = b.Reset /\ c.SMRunning = b.SMRunning
  BY DEF RowType, SameSettings
<1> HIDE DEF c
<1>4. b = c
  BY <1>2, <1>3, RowsEqual DEF SameSettings
<1>5. QED
  BY <1>1, <1>4

LEMMA RowLinks ==
    ASSUME NEW a \in RowType, NEW b \in RowType,
           b.Enable = a.Enable, b.Selection = a.Selection, b.Status = a.Status,
           b.Connectivity = a.Connectivity, b.Reset = a.Reset, b.SMRunning = a.SMRunning
    PROVE  <<b>> = [<<a>> EXCEPT ![1].PhyUp = b.PhyUp]
<1> DEFINE c == [a EXCEPT !.PhyUp = b.PhyUp]
<1>1. [<<a>> EXCEPT ![1].PhyUp = b.PhyUp] = <<c>>
  BY Single
<1>2. c \in RowType
  BY DEF RowType
<1>3. /\ SameSettings(b, c) /\ c.Status = b.Status /\ c.Connectivity = b.Connectivity
      /\ c.Reset = b.Reset /\ c.SMRunning = b.SMRunning
  BY DEF RowType, SameSettings
<1> HIDE DEF c
<1>4. b = c
  BY <1>2, <1>3, RowsEqual DEF SameSettings
<1>5. QED
  BY <1>1, <1>4

-----------------------------------------------------------------------------
(* The phases.                                                               *)
Phase(s) ==
    CASE s \in {"none", "created"} -> s
      [] s \in Configuring        -> "config"
      [] s = "OBTAINING"          -> "obtain"
      [] s = "STANDBY"            -> "standby"
      [] s \in Leased             -> "up"
      [] s = "REFRESHING"         -> "refresh"
      [] s = "DECONFIGURING"      -> "deconfig"
      [] s = "EXIT"               -> "exit"

LEMMA PhaseFacts ==
    ASSUME NEW s \in SMStates
    PROVE  /\ s \in {"none", "created"} => Phase(s) = s
           /\ s \in Configuring => Phase(s) = "config"
           /\ s = "OBTAINING" => Phase(s) = "obtain"
           /\ s = "STANDBY" => Phase(s) = "standby"
           /\ s \in Leased => Phase(s) = "up"
           /\ s = "REFRESHING" => Phase(s) = "refresh"
           /\ s = "DECONFIGURING" => Phase(s) = "deconfig"
           /\ s = "EXIT" => Phase(s) = "exit"
           /\ s \in Loop <=> Phase(s) \in Abs!ISMLoop
  BY DEF Phase, SMStates, Loop, Configuring, Leased, Abs!ISMLoop

(* What every iteration of the thread does beside the data of the interface. *)
SettingsStay ==
    /\ adm'.IfEnable = adm.IfEnable /\ adm'.Phy = adm.Phy /\ adm'.Sel = adm.Sel
    /\ adm'.Enable = adm.Enable

Typed ==
    /\ w \in WType /\ w' \in WType /\ adm \in AdmType /\ adm' \in AdmType
    /\ ctl.en \in BOOLEAN

Iterates == Typed /\ SettingsStay /\ ctl'.en = adm.Enable

LEMMA MovesMapped ==
    ASSUME Iterates, NEW s, Phase(w'.st) = s
    PROVE  Abs!ISMGoto(1, 1, s)
<1>1. AbsPhase' = s
  BY DEF AbsPhase, Phase
<1>2. w'.st \in SMStates
  BY DEF Iterates, Typed, WType
<1>3. Copy' <=> (s \in Abs!ISMLoop => adm.Enable)
  BY <1>2, PhaseFacts DEF Copy, Iterates
<1>4. QED
  BY <1>1, <1>3, GotoMapped DEF Moves

LEMMA RowsMapped ==
    ASSUME Typed
    PROVE  /\ AbsIface \in RowType /\ AbsIface' \in RowType
           /\ SettingsStay => SameSettings(AbsIface, AbsIface')
           /\ AbsIface.Enable = adm.IfEnable /\ AbsIface'.Enable = adm'.IfEnable
           /\ AbsIface.PhyUp = adm.Phy /\ AbsIface'.PhyUp = adm'.Phy
           /\ AbsIface.Selection = adm.Sel /\ AbsIface'.Selection = adm'.Sel
           /\ AbsIface.Status = Published(w) /\ AbsIface'.Status = Published(w')
           /\ AbsIface.Connectivity = w.Conn /\ AbsIface'.Connectivity = w'.Conn
           /\ AbsIface.Reset = w.Reset /\ AbsIface'.Reset = w'.Reset
           /\ AbsIface.SMRunning = w.SMRunning /\ AbsIface'.SMRunning = w'.SMRunning
<1>1. AbsIface = Row(w, adm) /\ AbsIface' = Row(w', adm')
  BY DEF AbsIface, Row, Published
<1>2. QED
  BY <1>1, RowFacts DEF Typed, SettingsStay, SameSettings

(* What IfaceSM has of the step: nothing, or the copy of Enable alone.       *)
Silent ==
    /\ UNCHANGED <<adm.Enable, adm.ResetScan, AbsIface, AbsPhase, Copy>>

Stays ==
    /\ SettingsStay /\ adm'.ResetScan = adm.ResetScan
    /\ Published(w') = Published(w) /\ w'.Conn = w.Conn /\ w'.Reset = w.Reset
    /\ w'.SMRunning = w.SMRunning

LEMMA RowStays ==
    ASSUME Typed, Stays
    PROVE  AbsIface' = AbsIface
  BY RowsMapped, RowsEqual DEF Stays, SameSettings

LEMMA SampleMapped ==
    ASSUME Typed, Stays, w.st \in Loop, w'.st \in Loop, Phase(w'.st) = Phase(w.st),
           ctl'.en = adm.Enable
    PROVE  Abs!ISMSample(1, 1) \/ Silent
<1>1. AbsIface' = AbsIface
  BY RowStays
<1>2. AbsPhase' = AbsPhase
  BY DEF AbsPhase, Phase
<1>3. Copy = ctl.en /\ Copy' = adm.Enable
  <2>1. adm.Enable \in BOOLEAN /\ ctl.en \in BOOLEAN
    BY DEF Typed, AdmType
  <2>2. QED
    BY <2>1 DEF Copy
<1>4. CASE Copy = Copy'
  BY <1>1, <1>2, <1>4 DEF Silent, Stays, SettingsStay
<1>5. CASE Copy # Copy'
  <2>1. AbsPhase \in Abs!ISMLoop
    BY PhaseFacts DEF Typed, WType, AbsPhase, Phase
  <2>2. << <<Slot>> >>[1][1] = Slot
    BY Single
  <2>3. [<< <<Slot>> >> EXCEPT ![1][1].en = adm.Enable] = << <<Slot'>> >>
    <3>1. [Slot EXCEPT !.en = adm.Enable] = Slot'
      BY <1>2, <1>3 DEF Slot
    <3>2. QED
      BY <3>1, Single
  <2>4. [Enable |-> adm.Enable, ResetFailOverScan |-> adm.ResetScan].Enable = adm.Enable
    OBVIOUS
  <2>5. QED
    BY <1>1, <1>3, <1>5, <2>1, <2>2, <2>3, <2>4
       DEF Abs!ISMSample, Slot, Copy, Stays, SettingsStay, AbsGroup
<1>6. QED
  BY <1>4, <1>5

-----------------------------------------------------------------------------
(* The actions of IfaceSM.                                                   *)
Unchanged == Iterates /\ adm'.ResetScan = adm.ResetScan

LEMMA ThreadMapped ==
    /\ << <<Slot>> >>[1][1].st = AbsPhase /\ << <<Slot>> >>[1][1].en = Copy
    /\ <<AbsIface>>[1] = AbsIface
  BY Single DEF Slot

(* Its interface is down, or not.                                            *)
LEMMA DownMapped ==
    ASSUME Typed, w.st \in Loop
    PROVE  /\ Abs!IfDown(1, 1) <=> IfDown
           /\ \A s : Abs!Healthy(1, 1, s) <=> AbsPhase = s /\ ~ IfDown
  BY ConditionsMapped DEF Copy, IfDown

LEMMA EndedMapped ==
    ASSUME Unchanged, w.st \in Loop \ {"REFRESHING"}, Ended(w, w'),
           w'.Reset = w.Reset, w'.SMRunning = w.SMRunning
    PROVE  Abs!ISMDown(1, 1) \/ Abs!ISMLinkLost(1, 1)
<1>1. Typed /\ SettingsStay /\ w.st \in Loop /\ w.st \in SMStates /\ w'.st \in SMStates
  BY DEF Unchanged, Iterates, Typed, WType
<1>2. AbsPhase = Phase(w.st)
  BY DEF AbsPhase, Phase
<1>3. \/ w'.st = "REFRESHING" /\ Abs!ISMGoto(1, 1, "refresh")
      \/ w'.st = "DECONFIGURING" /\ Abs!ISMGoto(1, 1, "deconfig")
  BY <1>1, PhaseFacts, MovesMapped DEF Ended, Unchanged
<1>4. <<AbsIface'>> = [<<AbsIface>> EXCEPT ![1].Status = AbsIface'.Status]
  BY <1>1, RowsMapped, RowPublishes DEF Ended
<1>5. AbsIface'.Status \in {AbsIface.Status, "INITIALISING"}
  BY <1>1, RowsMapped DEF Ended, Published
<1>6. AbsPhase \in {"config", "obtain", "standby", "up"}
  BY <1>1, <1>2, PhaseFacts DEF Loop
<1>7. AbsIface'.Status \in Abs!StatusesAfterDown(1, 1)
  BY <1>5, <1>6, ThreadMapped DEF Abs!StatusesAfterDown, Slot, Copy
<1>8. adm'.Enable = adm.Enable /\ adm'.ResetScan = adm.ResetScan
  BY DEF Unchanged, Iterates, SettingsStay
<1>9. CASE IfDown
  <2>1. Abs!IfDown(1, 1)
    BY <1>1, <1>9, DownMapped
  <2>2. w'.st = "DECONFIGURING" => ~ AbsIface.Reset
    BY <1>1, RowsMapped DEF Ended
  <2>3. Abs!PhysicalInterfaceDown(1, 1)
    BY <1>3, <1>4, <1>7, <1>8, <2>2, ThreadMapped
       DEF Abs!PhysicalInterfaceDown, AbsGroup
  <2>4. Abs!ISMDown(1, 1)
    BY <1>6, <2>1, <2>3, ThreadMapped DEF Abs!ISMDown, Slot, Copy
  <2>5. QED
    BY <2>4
<1>10. CASE ~ IfDown
  <2>1. w'.st = "REFRESHING" /\ w.st # "STANDBY"
    BY <1>10 DEF Ended
  <2>2. AbsPhase \in {"config", "obtain", "up"}
    BY <1>1, <1>2, <2>1, PhaseFacts DEF Loop
  <2>3. Abs!Healthy(1, 1, AbsPhase)
    BY <1>1, <1>10, DownMapped
  <2>4. Abs!ISMLinkLost(1, 1)
    BY <1>3, <1>4, <1>7, <1>8, <2>1, <2>2, <2>3, ThreadMapped
       DEF Abs!ISMLinkLost, AbsGroup, Slot, Copy
  <2>5. QED
    BY <2>4
<1>11. QED
  BY <1>9, <1>10

(* The thread keeps its phase: whatever it does to Status is told apart.     *)
LEMMA KeptMapped ==
    ASSUME Unchanged, w.st \in Loop, w'.st \in Loop, Phase(w'.st) = Phase(w.st),
           Published(w') = Published(w), w'.Conn = w.Conn, w'.Reset = w.Reset,
           w'.SMRunning = w.SMRunning
    PROVE  Abs!ISMSample(1, 1) \/ Silent
  BY SampleMapped DEF Unchanged, Iterates, Stays

LEMMA ConfiguredMapped ==
    ASSUME Unchanged, ~ IfDown, Configured(w, w'), w'.Reset = w.Reset,
           w'.SMRunning = w.SMRunning
    PROVE  Abs!ISMNext(1, 1) \/ Silent
<1>1. /\ Typed /\ SettingsStay /\ w.st \in Configuring /\ w.st \in Loop
      /\ w.st \in SMStates /\ w'.st \in SMStates
  BY DEF Unchanged, Iterates, Typed, WType, Configured, Loop
<1>2. AbsPhase = "config"
  BY <1>1, PhaseFacts DEF AbsPhase, Phase
<1>3. Abs!Healthy(1, 1, "config")
  BY <1>1, <1>2, DownMapped
<1>4. adm'.Enable = adm.Enable /\ adm'.ResetScan = adm.ResetScan
  BY DEF Unchanged, Iterates, SettingsStay
<1>5. CASE w'.st \in Configuring /\ w'.Conn = w.Conn /\ w'.Status \in {w.Status, "VALIDATING"}
  <2>1. CASE Published(w') = Published(w)
    BY <1>1, <1>5, <2>1, KeptMapped, PhaseFacts DEF Loop, Abs!ISMNext, Abs!ISMControl
  <2>2. CASE Published(w') # Published(w)
    <3>1. Published(w') = "INITIALISING"
      BY <1>5, <2>2 DEF Published
    <3>2. <<AbsIface'>> = [<<AbsIface>> EXCEPT ![1].Status = "INITIALISING"]
      BY <1>1, <1>5, <3>1, RowsMapped, RowPublishes
    <3>3. AbsIface.Status # "INITIALISING"
      BY <1>1, <2>2, <3>1, RowsMapped
    <3>4. Abs!ISMGoto(1, 1, "config")
      BY <1>1, <1>5, MovesMapped, PhaseFacts DEF Unchanged
    <3>5. Abs!ISMWanUp(1, 1)
      BY <1>3, <1>4, <3>2, <3>3, <3>4, ThreadMapped DEF Abs!ISMWanUp, AbsGroup
    <3>6. QED
      BY <3>5 DEF Abs!ISMNext, Abs!ISMControl
  <2>3. QED
    BY <2>1, <2>2
<1>6. CASE w'.st = "OBTAINING" /\ w'.Conn /\ w'.Status = "VALIDATING"
  <2>1. <<AbsIface'>>
          = [<<AbsIface>> EXCEPT ![1].Status = "INITIALISING", ![1].Connectivity = TRUE]
    <3>1. AbsIface'.Status = "INITIALISING"
      BY <1>1, <1>6, RowsMapped DEF Published
    <3>2. AbsIface'.Connectivity = TRUE
      <4>1. w'.Conn \in BOOLEAN
        BY <1>1 DEF Typed, WType
      <4>2. QED
        BY <1>1, <1>6, <4>1, RowsMapped
    <3>3. SameSettings(AbsIface, AbsIface') /\ AbsIface \in RowType /\ AbsIface' \in RowType
      BY <1>1, RowsMapped
    <3>4. AbsIface'.Reset = AbsIface.Reset /\ AbsIface'.SMRunning = AbsIface.SMRunning
      BY <1>1, RowsMapped
    <3>5. <<AbsIface'>>
            = [<<AbsIface>> EXCEPT ![1].Status = AbsIface'.Status, ![1].Connectivity = TRUE]
      BY <3>2, <3>3, <3>4, RowConnects
    <3>6. QED
      BY <3>1, <3>5
  <2>2. Abs!ISMGoto(1, 1, "obtain")
    BY <1>1, <1>6, MovesMapped, PhaseFacts DEF Unchanged
  <2>3. Abs!ISMValidated(1, 1)
    BY <1>3, <1>4, <2>1, <2>2 DEF Abs!ISMValidated, AbsGroup
  <2>4. QED
    BY <2>3 DEF Abs!ISMNext, Abs!ISMControl
<1>7. QED
  BY <1>5, <1>6 DEF Configured

(* What the actions that only publish Status have in common.                 *)
LEMMA PublishesMapped ==
    ASSUME Unchanged, w'.Conn = w.Conn, w'.Reset = w.Reset, w'.SMRunning = w.SMRunning
    PROVE  /\ \A s : Published(w') = s =>
                 <<AbsIface'>> = [<<AbsIface>> EXCEPT ![1].Status = s]
           /\ Published(w') = Published(w) => AbsIface' = AbsIface
           /\ adm'.Enable = adm.Enable /\ adm'.ResetScan = adm.ResetScan
<1>1. Typed /\ SettingsStay
  BY DEF Unchanged, Iterates
<1>2. \A s : Published(w') = s => <<AbsIface'>> = [<<AbsIface>> EXCEPT ![1].Status = s]
  BY <1>1, RowsMapped, RowPublishes
<1>3. Published(w') = Published(w) => AbsIface' = AbsIface
  BY <1>1, RowStays DEF Unchanged, Stays
<1>4. QED
  BY <1>1, <1>2, <1>3 DEF Unchanged, SettingsStay

LEMMA ObtainedMapped ==
    ASSUME Unchanged, ~ IfDown, Obtained(w, w'), w'.Reset = w.Reset,
           w'.SMRunning = w.SMRunning
    PROVE  Abs!ISMNext(1, 1) \/ Silent
<1>1. /\ Typed /\ SettingsStay /\ w.st = "OBTAINING" /\ w.st \in Loop /\ ~ w.Reset
      /\ w.st \in SMStates /\ w'.st \in SMStates /\ w'.Conn = w.Conn
  BY DEF Unchanged, Iterates, Typed, WType, Obtained, Loop
<1>2. AbsPhase = "obtain"
  BY <1>1, PhaseFacts DEF AbsPhase, Phase
<1>3. Abs!Healthy(1, 1, "obtain")
  BY <1>1, <1>2, DownMapped
<1>4. ~ AbsIface.Reset /\ AbsIface.Selection = adm.Sel
  BY <1>1, RowsMapped
<1>5. /\ adm'.Enable = adm.Enable /\ adm'.ResetScan = adm.ResetScan
      /\ \A s : Published(w') = s =>
            <<AbsIface'>> = [<<AbsIface>> EXCEPT ![1].Status = s]
  BY <1>1, PublishesMapped
<1>6. CASE w'.st = "OBTAINING" /\ w'.Status \in {w.Status, "VALIDATING"}
  <2>1. CASE Published(w') = Published(w)
    BY <1>1, <1>6, <2>1, KeptMapped DEF Abs!ISMNext, Abs!ISMControl
  <2>2. CASE Published(w') # Published(w)
    <3>1. Published(w') = "INITIALISING"
      BY <1>6, <2>2 DEF Published
    <3>2. Abs!ISMGoto(1, 1, "obtain")
      BY <1>1, <1>6, MovesMapped, PhaseFacts DEF Unchanged
    <3>3. Abs!ISMModeChanged(1, 1)
      BY <1>3, <1>4, <1>5, <3>1, <3>2, ThreadMapped DEF Abs!ISMModeChanged, AbsGroup
    <3>4. QED
      BY <3>3 DEF Abs!ISMNext, Abs!ISMDisturbed
  <2>3. QED
    BY <2>1, <2>2
<1>7. CASE w'.st = "STANDBY" /\ w'.Status = "STANDBY" /\ ~ Active
  <2>1. Published(w') = "STANDBY"
    BY <1>7 DEF Published
  <2>2. Abs!ISMGoto(1, 1, "standby")
    BY <1>1, <1>7, MovesMapped, PhaseFacts DEF Unchanged
  <2>3. Abs!ISMStandby(1, 1)
    BY <1>3, <1>4, <1>5, <1>7, <2>1, <2>2, ThreadMapped DEF Abs!ISMStandby, AbsGroup, Active
  <2>4. QED
    BY <2>3 DEF Abs!ISMNext, Abs!ISMControl
<1>8. CASE w'.st \in Leased /\ w'.Status = "UP" /\ Active
  <2>1. Published(w') = "UP"
    BY <1>8 DEF Published
  <2>2. Abs!ISMGoto(1, 1, "up")
    BY <1>1, <1>8, MovesMapped, PhaseFacts DEF Unchanged
  <2>3. Abs!ISMUp(1, 1)
    BY <1>3, <1>4, <1>5, <1>8, <2>1, <2>2, ThreadMapped DEF Abs!ISMUp, AbsGroup, Active
  <2>4. QED
    BY <2>3 DEF Abs!ISMNext, Abs!ISMControl
<1>9. QED
  BY <1>6, <1>7, <1>8 DEF Obtained

LEMMA StoodByMapped ==
    ASSUME Unchanged, ~ IfDown, StoodBy(w, w'), w'.Reset = w.Reset,
           w'.SMRunning = w.SMRunning
    PROVE  Abs!ISMNext(1, 1) \/ Silent
<1>1. /\ Typed /\ SettingsStay /\ w.st = "STANDBY" /\ w.st \in Loop
      /\ w.st \in SMStates /\ w'.st \in SMStates /\ w'.Conn = w.Conn
  BY DEF Unchanged, Iterates, Typed, WType, StoodBy, Loop
<1>2. AbsPhase = "standby"
  BY <1>1, PhaseFacts DEF AbsPhase, Phase
<1>3. Abs!Healthy(1, 1, "standby")
  BY <1>1, <1>2, DownMapped
<1>4. AbsIface.Selection = adm.Sel
  BY <1>1, RowsMapped
<1>5. /\ adm'.Enable = adm.Enable /\ adm'.ResetScan = adm.ResetScan
      /\ \A s : Published(w') = s =>
            <<AbsIface'>> = [<<AbsIface>> EXCEPT ![1].Status = s]
      /\ Published(w') = Published(w) => AbsIface' = AbsIface
  BY <1>1, PublishesMapped
<1>6. CASE w'.st = "STANDBY" /\ w'.Status = w.Status
  BY <1>1, <1>6, KeptMapped DEF Abs!ISMNext, Abs!ISMControl, Published
<1>7. CASE w'.st = "OBTAINING" /\ w'.Status = w.Status
  <2>1. Published(w') = Published(w)
    BY <1>7 DEF Published
  <2>2. Abs!ISMGoto(1, 1, "obtain")
    BY <1>1, <1>7, MovesMapped, PhaseFacts DEF Unchanged
  <2>3. Abs!ISMLeaseLost(1, 1)
    BY <1>3, <1>5, <2>1, <2>2 DEF Abs!ISMLeaseLost, AbsGroup
  <2>4. QED
    BY <2>3 DEF Abs!ISMNext, Abs!ISMDisturbed
<1>8. CASE w'.st \in Leased /\ w'.Status = "UP" /\ Active
  <2>1. Published(w') = "UP"
    BY <1>8 DEF Published
  <2>2. Abs!ISMGoto(1, 1, "up")
    BY <1>1, <1>8, MovesMapped, PhaseFacts DEF Unchanged
  <2>3. Abs!ISMUp(1, 1)
    BY <1>3, <1>4, <1>5, <1>8, <2>1, <2>2, ThreadMapped DEF Abs!ISMUp, AbsGroup, Active
  <2>4. QED
    BY <2>3 DEF Abs!ISMNext, Abs!ISMControl
<1>9. QED
  BY <1>6, <1>7, <1>8 DEF StoodBy

LEMMA ServedMapped ==
    ASSUME Unchanged, Serves(w), ~ IfDown, Served(w, w'), w'.Reset = w.Reset,
           w'.SMRunning = w.SMRunning
    PROVE  Abs!ISMNext(1, 1) \/ Silent
<1>1. /\ Typed /\ SettingsStay /\ w.st \in Leased /\ w.st \in Loop /\ ~ w.Reset
      /\ w.st \in SMStates /\ w'.st \in SMStates /\ w'.Conn = w.Conn
  BY DEF Unchanged, Iterates, Typed, WType, Served, Loop
<1>2. AbsPhase = "up"
  BY <1>1, PhaseFacts DEF AbsPhase, Phase
<1>3. Abs!Healthy(1, 1, "up")
  BY <1>1, <1>2, DownMapped
<1>4. ~ AbsIface.Reset
  BY <1>1, RowsMapped
<1>5. /\ adm'.Enable = adm.Enable /\ adm'.ResetScan = adm.ResetScan
      /\ \A s : Published(w') = s =>
            <<AbsIface'>> = [<<AbsIface>> EXCEPT ![1].Status = s]
      /\ Published(w') = Published(w) => AbsIface' = AbsIface
  BY <1>1, PublishesMapped
<1>6. CASE w'.st = "OBTAINING" /\ w'.Status \in {w.Status, "VALIDATING"}
  <2>1. Abs!ISMGoto(1, 1, "obtain")
    BY <1>1, <1>6, MovesMapped, PhaseFacts DEF Unchanged
  <2>2. CASE w'.Status = w.Status
    <3>1. Published(w') = Published(w)
      BY <2>2 DEF Published
    <3>2. Abs!ISMFeatureSwitched(1, 1)
      BY <1>3, <1>4, <1>5, <2>1, <3>1, ThreadMapped DEF Abs!ISMFeatureSwitched, AbsGroup
    <3>3. QED
      BY <3>2 DEF Abs!ISMNext, Abs!ISMDisturbed
  <2>3. CASE w'.Status = "VALIDATING"
    <3>1. Published(w') = "INITIALISING"
      BY <2>3 DEF Published
    <3>2. Abs!ISMLeaseLost(1, 1)
      BY <1>3, <1>4, <1>5, <2>1, <3>1, ThreadMapped DEF Abs!ISMLeaseLost, AbsGroup
    <3>3. QED
      BY <3>2 DEF Abs!ISMNext, Abs!ISMDisturbed
  <2>4. QED
    BY <1>6, <2>2, <2>3
<1>7. CASE w'.st = "STANDBY" /\ w'.Status = "STANDBY"
  <2>1. Published(w') = "STANDBY"
    BY <1>7 DEF Published
  <2>2. Abs!ISMGoto(1, 1, "standby")
    BY <1>1, <1>7, MovesMapped, PhaseFacts DEF Unchanged
  <2>3. Abs!ISMDeactivated(1, 1)
    BY <1>3, <1>4, <1>5, <2>1, <2>2, ThreadMapped DEF Abs!ISMDeactivated, AbsGroup
  <2>4. QED
    BY <2>3 DEF Abs!ISMNext, Abs!ISMControl
<1>8. CASE w'.st \in Leased /\ w'.Status = "UP"
  <2>1. Published(w') = Published(w)
    BY <1>1, <1>8 DEF Published, Serves
  <2>2. Phase(w'.st) = Phase(w.st) /\ w'.st \in Loop
    BY <1>1, <1>8, PhaseFacts DEF Loop
  <2>3. QED
    BY <1>1, <2>1, <2>2, KeptMapped DEF Abs!ISMNext, Abs!ISMControl
<1>9. QED
  BY <1>6, <1>7, <1>8 DEF Served

-----------------------------------------------------------------------------
(* The steps of the thread.                                                  *)
LEMMA IterationsMapped ==
    ASSUME StackInv, StackInv', EndIteration
    PROVE  Unchanged
<1>1. Typed
  BY DEF StackInv, StackTypeOK, Typed
<1>2. SettingsStay /\ ctl'.en = adm.Enable /\ adm'.ResetScan = adm.ResetScan
  BY <1>1 DEF EndIteration, SettingsStay, Typed, AdmType
<1>3. QED
  BY <1>1, <1>2 DEF Unchanged, Iterates

LEMMA WorkMapped ==
    ASSUME StackInv, StackInv', Works
    PROVE  Abs!ISMNext(1, 1) \/ Silent
<1>1. Unchanged
  BY IterationsMapped DEF Works, StateConfiguring, StateObtaining, StateStandby, StateLeased
<1>2. Outcome(w, w')
  BY WorkSound DEF StackInv, Sound
<1>3. w.st \in Loop \ {"REFRESHING"}
  BY DEF Works, StateConfiguring, StateObtaining, StateStandby, StateLeased, Loop, Configuring,
         Leased
<1>4. CASE Ended(w, w')
  BY <1>1, <1>2, <1>3, <1>4, EndedMapped
     DEF Outcome, Abs!ISMNext, Abs!ISMControl, Abs!ISMDisturbed
<1>5. Serves(w)
  BY DEF StackInv, MachineInv
<1>6. QED
  BY <1>1, <1>2, <1>4, <1>5, ConfiguredMapped, ObtainedMapped, StoodByMapped, ServedMapped
     DEF Outcome

LEMMA StartMapped ==
    ASSUME StackInv, StackInv', Start
    PROVE  Abs!ISMNext(1, 1)
<1>1. Unchanged
  BY IterationsMapped DEF Start
<1>2. Typed /\ SettingsStay /\ w'.st \in SMStates
  BY <1>1 DEF Unchanged, Iterates, Typed, WType
<1>3. AbsPhase = "created"
  BY DEF Start, AbsPhase, Configuring, Leased
<1>4. /\ w'.st = "VLAN_CONFIGURING" /\ w'.Status = "INITIALISING"
      /\ w'.SMRunning = TRUE /\ w'.Reset = w.Reset /\ w'.Conn = w.Conn
  BY StartSound DEF StackInv
<1>5. Abs!ISMGoto(1, 1, "config")
  BY <1>1, <1>2, <1>4, MovesMapped, PhaseFacts DEF Unchanged, Configuring
<1>6. <<AbsIface'>>
        = [<<AbsIface>> EXCEPT ![1].Status = "INITIALISING", ![1].SMRunning = TRUE]
  <2>1. /\ SameSettings(AbsIface, AbsIface') /\ AbsIface \in RowType /\ AbsIface' \in RowType
        /\ AbsIface'.Connectivity = AbsIface.Connectivity /\ AbsIface'.Reset = AbsIface.Reset
    BY <1>2, <1>4, RowsMapped
  <2>2. AbsIface'.Status = "INITIALISING" /\ AbsIface'.SMRunning = TRUE
    BY <1>2, <1>4, RowsMapped DEF Published
  <2>3. <<AbsIface'>>
          = [<<AbsIface>> EXCEPT ![1].Status = AbsIface'.Status, ![1].SMRunning = TRUE]
    BY <2>1, <2>2, RowStarts
  <2>4. QED
    BY <2>2, <2>3
<1>7. adm'.Enable = adm.Enable /\ adm'.ResetScan = adm.ResetScan
  BY <1>1 DEF Unchanged, Iterates, SettingsStay
<1>8. Abs!ISMStart(1, 1)
  BY <1>3, <1>5, <1>6, <1>7, ThreadMapped DEF Abs!ISMStart, AbsGroup, Slot, Copy
<1>9. QED
  BY <1>8 DEF Abs!ISMNext, Abs!ISMControl

LEMMA DeconfiguringMapped ==
    ASSUME StackInv, StackInv', StateDeconfiguring
    PROVE  Abs!ISMNext(1, 1)
<1>1. Unchanged
  BY IterationsMapped DEF StateDeconfiguring
<1>2. Typed /\ SettingsStay /\ w'.st \in SMStates
  BY <1>1 DEF Unchanged, Iterates, Typed, WType
<1>3. AbsPhase = "deconfig"
  BY DEF StateDeconfiguring, AbsPhase, Configuring, Leased
<1>4. /\ w'.st = "EXIT" /\ w'.Status = "DISABLED"
      /\ w'.Reset = FALSE /\ w'.SMRunning = FALSE /\ w'.Conn = w.Conn
  BY DeconfiguringSound DEF StackInv
<1>5. Abs!ISMGoto(1, 1, "exit")
  BY <1>1, <1>2, <1>4, MovesMapped, PhaseFacts DEF Unchanged
<1>6. <<AbsIface'>>
        = [<<AbsIface>> EXCEPT ![1].Status = "DISABLED", ![1].Reset = FALSE,
                               ![1].SMRunning = FALSE]
  <2>1. /\ SameSettings(AbsIface, AbsIface') /\ AbsIface \in RowType /\ AbsIface' \in RowType
        /\ AbsIface'.Connectivity = AbsIface.Connectivity
    BY <1>2, <1>4, RowsMapped
  <2>2. /\ AbsIface'.Status = "DISABLED" /\ AbsIface'.Reset = FALSE
        /\ AbsIface'.SMRunning = FALSE
    BY <1>2, <1>4, RowsMapped DEF Published
  <2>3. <<AbsIface'>>
          = [<<AbsIface>> EXCEPT ![1].Status = AbsIface'.Status, ![1].Reset = FALSE,
                                 ![1].SMRunning = FALSE]
    BY <2>1, <2>2, RowExits
  <2>4. QED
    BY <2>2, <2>3
<1>7. adm'.Enable = adm.Enable /\ adm'.ResetScan = adm.ResetScan
  BY <1>1 DEF Unchanged, Iterates, SettingsStay
<1>8. Abs!ISMExit(1, 1)
  BY <1>3, <1>5, <1>6, <1>7, ThreadMapped DEF Abs!ISMExit, AbsGroup, Slot, Copy
<1>9. QED
  BY <1>8 DEF Abs!ISMNext, Abs!ISMControl

LEMMA ExitMapped ==
    ASSUME StackInv, StackInv', StateExit
    PROVE  Abs!ISMNext(1, 1)
<1>1. Unchanged
  BY IterationsMapped DEF StateExit
<1>2. Typed /\ SettingsStay /\ w'.st \in SMStates
  BY <1>1 DEF Unchanged, Iterates, Typed, WType
<1>3. AbsPhase = "exit"
  BY DEF StateExit, AbsPhase, Configuring, Leased
<1>4. /\ w'.st = "none" /\ w'.Status = w.Status
      /\ w'.Reset = w.Reset /\ w'.SMRunning = w.SMRunning /\ w'.Conn = w.Conn
  BY ExitSound DEF StackInv
<1>5. Abs!ISMGoto(1, 1, "none")
  BY <1>1, <1>2, <1>4, MovesMapped, PhaseFacts DEF Unchanged
<1>6. AbsIface' = AbsIface /\ adm'.Enable = adm.Enable /\ adm'.ResetScan = adm.ResetScan
  BY <1>1, <1>4, PublishesMapped DEF Published
<1>7. Abs!ISMEnd(1, 1)
  BY <1>3, <1>5, <1>6, ThreadMapped DEF Abs!ISMEnd, AbsGroup, Slot, Copy
<1>8. QED
  BY <1>7 DEF Abs!ISMNext, Abs!ISMControl

(* wan_transition_wan_refreshed asks for a new scan when Reset brought the   *)
(* machine here.                                                             *)
LEMMA RefreshingMapped ==
    ASSUME StackInv, StackInv', StateRefreshing
    PROVE  Abs!ISMNext(1, 1) \/ Silent
<1>1. Typed
  BY DEF StackInv, StackTypeOK, Typed
<1>2. Iterates
  BY <1>1 DEF StateRefreshing, SettingsStay, Typed, AdmType, Iterates
<1>3. /\ adm'.ResetScan = (adm.ResetScan \/ (w'.st = "VLAN_CONFIGURING" /\ w.Reset))
      /\ adm'.Enable = adm.Enable /\ adm.ResetScan \in BOOLEAN /\ w.Reset \in BOOLEAN
  BY <1>1 DEF StateRefreshing, Typed, AdmType, WType
<1>4. Refreshed(w, w') /\ w.st = "REFRESHING"
  BY RefreshingSound DEF StackInv, StateRefreshing
<1>5. SettingsStay /\ w.st \in Loop /\ w'.st \in SMStates /\ w.st \in SMStates
  BY <1>1, <1>2, <1>4 DEF Iterates, Typed, WType, Loop
<1>6. AbsPhase = "refresh"
  BY <1>4, <1>5, PhaseFacts DEF AbsPhase, Phase
<1>7. CASE w' = w
  <2>1. adm'.ResetScan = adm.ResetScan
    BY <1>3, <1>4, <1>7
  <2>2. QED
    BY <1>2, <1>5, <1>7, <2>1, KeptMapped DEF Unchanged, Abs!ISMNext, Abs!ISMControl
<1>8. CASE IfDown /\ w'.st = "DECONFIGURING" /\ w'.Reset = FALSE
           /\ w'.Status \in {w.Status, "VALIDATING"}
  <2>1. adm'.ResetScan = adm.ResetScan
    BY <1>3, <1>8
  <2>2. Abs!ISMGoto(1, 1, "deconfig")
    BY <1>2, <1>5, <1>8, MovesMapped, PhaseFacts
  <2>3. /\ SameSettings(AbsIface, AbsIface') /\ AbsIface \in RowType /\ AbsIface' \in RowType
        /\ AbsIface'.Connectivity = AbsIface.Connectivity
        /\ AbsIface'.Reset = FALSE /\ AbsIface'.SMRunning = AbsIface.SMRunning
    BY <1>1, <1>4, <1>5, <1>8, RowsMapped DEF Refreshed
  <2>4. <<AbsIface'>>
          = [<<AbsIface>> EXCEPT ![1].Reset = FALSE, ![1].Status = AbsIface'.Status]
    BY <2>3, RowAborts
  <2>5. AbsIface'.Status \in {AbsIface.Status, "INITIALISING"}
    BY <1>1, <1>8, RowsMapped DEF Published
  <2>6. AbsIface'.Status \in Abs!StatusesAfterDown(1, 1)
    BY <1>6, <2>5, ThreadMapped DEF Abs!StatusesAfterDown, Slot, Copy
  <2>7. Abs!IfDown(1, 1)
    BY <1>1, <1>5, <1>8, DownMapped
  <2>8. Abs!ISMRefreshAborted(1, 1)
    BY <1>3, <1>6, <2>1, <2>2, <2>4, <2>6, <2>7, ThreadMapped
       DEF Abs!ISMRefreshAborted, AbsGroup, Slot, Copy
  <2>9. QED
    BY <2>8 DEF Abs!ISMNext, Abs!ISMControl
<1>9. CASE ~ IfDown /\ w'.st = "VLAN_CONFIGURING" /\ w'.Reset = FALSE /\ w'.Status = w.Status
  <2>1. Abs!ISMGoto(1, 1, "config")
    BY <1>2, <1>5, <1>9, MovesMapped, PhaseFacts DEF Configuring
  <2>2. /\ SameSettings(AbsIface, AbsIface') /\ AbsIface \in RowType /\ AbsIface' \in RowType
        /\ AbsIface'.Connectivity = AbsIface.Connectivity /\ AbsIface'.Status = AbsIface.Status
        /\ AbsIface'.Reset = FALSE /\ AbsIface'.SMRunning = AbsIface.SMRunning
        /\ AbsIface.Reset = w.Reset
    BY <1>1, <1>4, <1>5, <1>9, RowsMapped DEF Refreshed, Published
  <2>3. <<AbsIface'>> = [<<AbsIface>> EXCEPT ![1].Reset = FALSE]
    <3>1. <<AbsIface'>> = [<<AbsIface>> EXCEPT ![1].Reset = AbsIface'.Reset]
      BY <2>2, RowResets
    <3>2. QED
      BY <2>2, <3>1
  <2>4. [Enable |-> adm'.Enable, ResetFailOverScan |-> adm'.ResetScan]
          = [[Enable |-> adm.Enable, ResetFailOverScan |-> adm.ResetScan]
                EXCEPT !.ResetFailOverScan = @ \/ w.Reset]
    <3> DEFINE b == adm.ResetScan \/ w.Reset
    <3>1. adm'.ResetScan = b /\ b \in BOOLEAN /\ adm.Enable \in BOOLEAN
      BY <1>1, <1>3, <1>9 DEF Typed, AdmType
    <3> HIDE DEF b
    <3>2. [Enable |-> adm.Enable, ResetFailOverScan |-> b]
            = [[Enable |-> adm.Enable, ResetFailOverScan |-> adm.ResetScan]
                  EXCEPT !.ResetFailOverScan = b]
      BY <1>3, <3>1
    <3>3. QED
      BY <1>3, <3>1, <3>2 DEF b
  <2>5. Abs!Healthy(1, 1, "refresh")
    BY <1>1, <1>5, <1>6, <1>9, DownMapped
  <2>6. Abs!ISMRefreshed(1, 1)
    BY <2>1, <2>2, <2>3, <2>4, <2>5, ThreadMapped DEF Abs!ISMRefreshed, AbsGroup
  <2>7. QED
    BY <2>6 DEF Abs!ISMNext, Abs!ISMControl
<1>10. QED
  BY <1>4, <1>7, <1>8, <1>9 DEF Refreshed

-----------------------------------------------------------------------------
(* The steps around the thread.                                              *)
LEMMA CopyMapped ==
    ASSUME StackInv, StackInv', Sample
    PROVE  Abs!ISMNext(1, 1) \/ Silent
<1>1. Typed
  BY DEF StackInv, StackTypeOK, Typed
<1>2. Stays /\ ctl'.en = adm.Enable /\ w' = w /\ w.st \in Loop
  BY <1>1 DEF Sample, Stays, SettingsStay, Typed, AdmType
<1>3. QED
  BY <1>1, <1>2, SampleMapped DEF Abs!ISMNext, Abs!ISMControl

LEMMA WritesMapped ==
    ASSUME StackInv, StackInv', Writes
    PROVE  Abs!Environment \/ Silent
<1>1. Typed
  BY DEF StackInv, StackTypeOK, Typed
<1>2. Unseen(w, w') /\ (w'.Reset = w.Reset \/ SetReset \/ BridgeModeChanged)
  BY WriteSound DEF StackInv
<1>3. adm' = adm /\ ctl' = ctl
  BY DEF Writes, LowerLayers, LayerFails, DhcpEvent, ClientReports, SetReset,
         BridgeModeChanged, SetVlanReset, SetMode, SetMaptFeature
<1>4. AbsPhase' = AbsPhase /\ (Copy' <=> Copy)
  BY <1>2, <1>3 DEF Unseen, AbsPhase, Copy
<1>5. Published(w') = Published(w) /\ w'.Conn = w.Conn /\ w'.SMRunning = w.SMRunning
  BY <1>2 DEF Unseen, Published
<1>6. CASE w'.Reset = w.Reset
  <2>1. AbsIface' = AbsIface
    BY <1>1, <1>3, <1>5, <1>6, RowStays DEF Stays, SettingsStay
  <2>2. QED
    BY <1>3, <1>4, <2>1 DEF Silent, Copy
<1>7. CASE w'.Reset # w.Reset
  <2>1. w'.Reset = ~ w.Reset
    BY <1>1, <1>7 DEF Typed, WType
  <2>2. /\ SameSettings(AbsIface, AbsIface') /\ AbsIface \in RowType /\ AbsIface' \in RowType
        /\ AbsIface'.Connectivity = AbsIface.Connectivity /\ AbsIface'.Status = AbsIface.Status
        /\ AbsIface'.SMRunning = AbsIface.SMRunning
        /\ AbsIface'.Reset = w'.Reset /\ AbsIface.Reset = w.Reset
    BY <1>1, <1>3, <1>5, RowsMapped DEF SettingsStay
  <2>3. <<AbsIface'>> = [<<AbsIface>> EXCEPT ![1].Reset = AbsIface'.Reset]
    BY <2>2, RowResets
  <2>4. <<AbsIface'>> = [<<AbsIface>> EXCEPT ![1].Reset = ~ @]
    BY <2>1, <2>2, <2>3, ThreadMapped
  <2>5. Abs!SetInterfaceReset(1)
    BY <1>3, <2>4 DEF Abs!SetInterfaceReset, AbsGroup
  <2>6. QED
    BY <2>5 DEF Abs!Environment, Abs!Ifaces
<1>8. QED
  BY <1>6, <1>7

LEMMA SettingsMapped ==
    ASSUME StackInv, StackInv', SetEnable \/ SetIfEnable \/ SetPhy \/ SetNwMode
    PROVE  Abs!Environment \/ Silent
<1>1. Typed
  BY DEF StackInv, StackTypeOK, Typed
<1>2. w' = w /\ ctl' = ctl
  BY DEF SetEnable, SetIfEnable, SetPhy, SetNwMode
<1>3. CASE SetNwMode
  <2>1. Stays
    BY <1>1, <1>2, <1>3 DEF SetNwMode, Stays, SettingsStay, Typed, AdmType
  <2>2. QED
    BY <1>1, <1>2, <2>1, RowStays DEF Silent, Stays, SettingsStay, AbsPhase, Copy
<1>4. CASE SetEnable
  <2>1. /\ adm'.Enable = ~ adm.Enable /\ adm'.ResetScan = adm.ResetScan
        /\ adm'.IfEnable = adm.IfEnable /\ adm'.Phy = adm.Phy /\ adm'.Sel = adm.Sel
        /\ adm.Enable \in BOOLEAN
    BY <1>1, <1>4 DEF SetEnable, Typed, AdmType
  <2>2. AbsIface' = AbsIface
    BY <1>2, <2>1 DEF AbsIface
  <2>3. [Enable |-> adm'.Enable, ResetFailOverScan |-> adm'.ResetScan]
          = [[Enable |-> adm.Enable, ResetFailOverScan |-> adm.ResetScan] EXCEPT !.Enable = ~ @]
    <3> DEFINE b == ~ adm.Enable
    <3>1. b \in BOOLEAN /\ adm.ResetScan \in BOOLEAN
      BY <1>1, <2>1 DEF Typed, AdmType
    <3> HIDE DEF b
    <3>2. [Enable |-> b, ResetFailOverScan |-> adm.ResetScan]
            = [[Enable |-> adm.Enable, ResetFailOverScan |-> adm.ResetScan] EXCEPT !.Enable = b]
      BY <2>1, <3>1
    <3>3. QED
      BY <2>1, <3>2 DEF b
  <2>4. Abs!SetWanEnable
    BY <2>2, <2>3 DEF Abs!SetWanEnable, AbsGroup
  <2>5. QED
    BY <2>4 DEF Abs!Environment
<1>5. CASE SetIfEnable
  <2>1. /\ adm'.IfEnable = ~ adm.IfEnable /\ adm'.ResetScan = adm.ResetScan
        /\ adm'.Enable = adm.Enable /\ adm'.Phy = adm.Phy /\ adm'.Sel = adm.Sel
    BY <1>1, <1>5 DEF SetIfEnable, Typed, AdmType
  <2>2. <<AbsIface'>> = [<<AbsIface>> EXCEPT ![1].Enable = AbsIface'.Enable]
    BY <1>1, <1>2, <2>1, RowsMapped, RowEnables
  <2>3. <<AbsIface'>> = [<<AbsIface>> EXCEPT ![1].Enable = ~ @]
    BY <1>1, <2>1, <2>2, RowsMapped, ThreadMapped
  <2>4. Abs!SetSelectionEnable(1)
    BY <2>1, <2>3 DEF Abs!SetSelectionEnable, AbsGroup
  <2>5. QED
    BY <2>4 DEF Abs!Environment, Abs!Ifaces
<1>6. CASE SetPhy
  <2>1. /\ adm'.Phy = ~ adm.Phy /\ adm'.ResetScan = adm.ResetScan
        /\ adm'.Enable = adm.Enable /\ adm'.IfEnable = adm.IfEnable /\ adm'.Sel = adm.Sel
    BY <1>1, <1>6 DEF SetPhy, Typed, AdmType
  <2>2. <<AbsIface'>> = [<<AbsIface>> EXCEPT ![1].PhyUp = AbsIface'.PhyUp]
    BY <1>1, <1>2, <2>1, RowsMapped, RowLinks
  <2>3. <<AbsIface'>> = [<<AbsIface>> EXCEPT ![1].PhyUp = ~ @]
    BY <1>1, <2>1, <2>2, RowsMapped, ThreadMapped
  <2>4. Abs!SetBaseInterfaceStatus(1)
    BY <2>1, <2>3 DEF Abs!SetBaseInterfaceStatus, AbsGroup
  <2>5. QED
    BY <2>4 DEF Abs!Environment, Abs!Ifaces
<1>7. QED
  BY <1>3, <1>4, <1>5, <1>6

Allowed == Abs!ISMNext(1, 1) \/ Abs!Environment \/ PolicyStarts \/ PolicySelects

LEMMA StepMapped == StackInv /\ StackInv' /\ [StackNext]_svars => Allowed \/ Silent
<1> SUFFICES ASSUME StackInv, StackInv', [StackNext]_svars
             PROVE  Allowed \/ Silent
  OBVIOUS
<1>1. CASE UNCHANGED svars
  BY <1>1 DEF svars, Silent, AbsIface, AbsPhase, Copy
<1>2. CASE Works \/ Start \/ StateDeconfiguring \/ StateExit \/ StateRefreshing \/ Sample
  BY <1>2, WorkMapped, StartMapped, DeconfiguringMapped, ExitMapped, RefreshingMapped,
     CopyMapped DEF Allowed
<1>3. CASE Writes
  BY <1>3, WritesMapped DEF Allowed
<1>4. CASE SetEnable \/ SetIfEnable \/ SetPhy \/ SetNwMode
  BY <1>4, SettingsMapped DEF Allowed
<1>5. CASE StartMachine
  BY <1>5 DEF Allowed, PolicyStarts
<1>6. CASE SetSelection
  <2>1. PICK s \in {"NOT_SELECTED", "SELECTED", "ACTIVE"} : adm' = [adm EXCEPT !.Sel = s]
    BY <1>6 DEF SetSelection
  <2>2. adm'.Sel = s
    BY <2>1 DEF StackInv, StackTypeOK, AdmType
  <2>3. PolicySelects
    BY <1>6, <2>1, <2>2 DEF PolicySelects, SetSelection
  <2>4. QED
    BY <2>3 DEF Allowed
<1>7. CASE Leases \/ LeaseChanges
  BY <1>7 DEF Leases, LeaseChanges, Silent, AbsIface, AbsPhase, Copy
<1>8. QED
  BY <1>1, <1>2, <1>3, <1>4, <1>5, <1>6, <1>7
     DEF StackNext, Thread, Around, Disturbance, Works, Writes

(* The state machine with its VLAN, PPP and MAP-T layers, its DHCP clients   *)
(* and the messages about them does nothing to the shared data that the      *)
(* machine of the selection and failover threads does not: their safety      *)
(* properties, shown with the abstract machine, hold with the detailed one.  *)
THEOREM MachineRefines == StackSpec => ImplementsIfaceSM
<1>1. StackInv /\ StackInv' /\ [StackNext]_svars
        => [Allowed]_<<adm.Enable, adm.ResetScan, AbsIface, AbsPhase, w.st \in Loop => ctl.en>>
  BY StepMapped DEF Silent, Copy
<1>2. QED
  BY <1>1, StackInvariant, PTL DEF StackSpec, ImplementsIfaceSM, Allowed
=============================================================================
