------------------------- MODULE HostSwitchProofs -------------------------
(***************************************************************************)
(* Proofs about HostSwitch, for any number of changes of hosting, of       *)
(* overlapping disconnects, tokens and losses.                             *)
(***************************************************************************)
EXTENDS HostSwitch, FiniteSetTheorems, SequenceTheorems, TLAPS

Lans == [pc : {"idle", "bind", "lookup", "close"}, gen : Nat]
Maints == [pc : {"idle", "wait"}, gen : Nat]
Registrations == [token : Tokens, open : BOOLEAN]

-----------------------------------------------------------------------------
(* The chain of transitions *)

LEMMA ChainParts ==
  ASSUME chain \in Seq(Transitions), chain # <<>>
  PROVE  /\ Head(chain) \in Transitions /\ Head(chain) = chain[1]
         /\ Tail(chain) \in Seq(Transitions)
         /\ Len(chain) \in Nat \ {0} /\ Len(Tail(chain)) = Len(chain) - 1
         /\ \A i \in 1 .. Len(chain) - 1 : Tail(chain)[i] = chain[i + 1]
BY HeadTailProperties

LEMMA ChainHead ==
  ASSUME chain \in Seq(Transitions), chain # <<>>, NEW t \in Transitions,
         NEW c, c = [chain EXCEPT ![1] = t]
  PROVE  /\ c \in Seq(Transitions) /\ c # <<>> /\ Len(c) = Len(chain)
         /\ c[1] = t /\ Head(c) = t
         /\ \A i \in 2 .. Len(chain) : c[i] = chain[i]
<1>1. Len(chain) \in Nat \ {0}
  BY ChainParts
<1>2. /\ c \in Seq(Transitions) /\ Len(c) = Len(chain) /\ c[1] = t
      /\ \A i \in 2 .. Len(chain) : c[i] = chain[i]
  BY <1>1
<1>3. c # <<>>
  BY <1>1, <1>2
<1>. QED BY <1>2, <1>3, HeadTailProperties

LEMMA ChainGoto ==
  ASSUME chain \in Seq(Transitions), chain # <<>>, NEW pc \in {"service", "wait", "unregister"},
         Goto(pc)
  PROVE  /\ chain' \in Seq(Transitions) /\ chain' # <<>> /\ Len(chain') = Len(chain)
         /\ chain'[1] = [chain[1] EXCEPT !.pc = pc] /\ Head(chain') = chain'[1]
         /\ \A i \in 2 .. Len(chain) : chain'[i] = chain[i]
<1>1. chain[1] \in Transitions
  BY ChainParts
<1>2. [chain[1] EXCEPT !.pc = pc] \in Transitions
  BY <1>1 DEF Transitions
<1>3. chain' = [chain EXCEPT ![1] = [chain[1] EXCEPT !.pc = pc]]
  BY DEF Goto
<1>. QED BY <1>2, <1>3, ChainHead

LEMMA ChainAppend ==
  ASSUME chain \in Seq(Transitions), NEW t \in Transitions, chain' = Append(chain, t)
  PROVE  /\ chain' \in Seq(Transitions) /\ chain' # <<>> /\ Len(chain') = Len(chain) + 1
         /\ chain'[Len(chain) + 1] = t
         /\ \A i \in 1 .. Len(chain) : chain'[i] = chain[i]
BY AppendProperties

-----------------------------------------------------------------------------
(* Types *)

LEMMA RegType ==
  ASSUME TypeOK, BeginRegistration \/ UNCHANGED reg
  PROVE  reg' \in Regs
BY HostParameters DEF TypeOK, BeginRegistration, Regs, TokenOrNone

LEMMA LanType ==
  ASSUME TypeOK, JoinLan \/ UNCHANGED lan
  PROVE  lan' \in Lans
BY DEF TypeOK, JoinLan, Lans

\* What a call to unregister leaves, answered or not.
LEMMA UnregisterType ==
  ASSUME TypeOK, NEW t \in TokenOrNone, Unregister(t)
  PROVE  /\ srv' \in Registrations \cup {None}
         /\ late' \subseteq Requests /\ losses' \in Nat
<1>1. [op |-> "unregister", token |-> t, open |-> FALSE] \in Requests
  BY DEF Requests
<1>2. CASE Unregistered(t) /\ UNCHANGED <<late, losses>>
  BY <1>2 DEF TypeOK, Unregistered, Registrations
<1>3. CASE Lose([op |-> "unregister", token |-> t, open |-> FALSE])
  <2>1. srv' \in Registrations \cup {None} /\ losses' \in Nat
    BY <1>3 DEF TypeOK, Lose, Registrations
  <2>2. late' \subseteq Requests
    BY <1>1, <1>3, Zenon DEF TypeOK, Lose
  <2>. QED BY <2>1, <2>2
<1>. QED BY <1>2, <1>3 DEF Unregister

LEMMA RegisteredType ==
  ASSUME NEW c \in BOOLEAN, NEW t \in Tokens, Registered(c, t)
  PROVE  srv' \in Registrations
BY DEF Registered, Registrations

LEMMA TypeInit == Init => TypeOK
<1>. SUFFICES ASSUME Init PROVE TypeOK
  OBVIOUS
<1>1. NoReg \in Regs /\ NoDisc \in Discs /\ Idle \in Lans /\ Idle \in Maints
  BY DEF NoReg, NoDisc, Idle, Regs, Discs, Lans, Maints, TokenOrNone
<1>2. disc \in [Disconnects -> Discs] /\ reg \in Regs /\ lan \in Lans /\ maint \in Maints
  BY <1>1 DEF Init
<1>3. chain \in Seq(Transitions) /\ late \subseteq Requests /\ token \in TokenOrNone
  BY DEF Init, TokenOrNone
<1>4. hosting \in BOOLEAN /\ running \in BOOLEAN
  BY DEF Init
<1>. QED BY <1>2, <1>3, <1>4 DEF Init, TypeOK, Lans, Maints

LEMMA UserTypes ==
  ASSUME TypeOK, StartHosting \/ StopHosting \/ Heartbeat \/ Trust
  PROVE  TypeOK'
<1>1. CASE StartHosting
  <2>1. Transition("start") \in Transitions
    BY <1>1 DEF StartHosting, Transition, Transitions, TypeOK, TokenOrNone
  <2>. QED BY <1>1, <2>1, ChainAppend DEF StartHosting, TypeOK
<1>2. CASE StopHosting
  <2>1. Transition("stop") \in Transitions
    BY <1>2 DEF StopHosting, Transition, Transitions, TypeOK, TokenOrNone
  <2>2. chain' \in Seq(Transitions)
    BY <1>2, <2>1, ChainAppend DEF StopHosting, TypeOK
  <2>3. hosting' \in BOOLEAN
    BY <1>2 DEF StopHosting
  <2>. QED BY <1>2, <2>2, <2>3 DEF StopHosting, TypeOK
<1>3. CASE Heartbeat
  BY <1>3, RegType DEF Heartbeat, TypeOK
<1>4. CASE Trust
  BY <1>4 DEF Trust, TypeOK
<1>. QED BY <1>1, <1>2, <1>3, <1>4

LEMMA RelayTypes ==
  ASSUME TypeOK, Relay
  PROVE  TypeOK'
<1>1. CASE LateArrives
  <2>1. PICK m \in late :
          /\ late' = late \ {m}
          /\ \/ m.op = "unregister" /\ Unregistered(m.token)
             \/ m.op = "register" /\ \E t \in Tokens : Registered(m.open, t)
             \/ UNCHANGED srv
    BY <1>1 DEF LateArrives
  <2>2. m.open \in BOOLEAN
    BY DEF TypeOK, Requests
  <2>3. srv' \in Registrations \cup {None}
    BY <2>1, <2>2, RegisteredType DEF TypeOK, Unregistered, Registrations
  <2>. QED BY <1>1, <2>1, <2>3 DEF LateArrives, TypeOK, Registrations
<1>2. CASE Expire
  BY <1>2 DEF Expire, TypeOK
<1>3. CASE Restart
  BY <1>3 DEF Restart, TypeOK
<1>. QED BY <1>1, <1>2, <1>3 DEF Relay

LEMMA RegisteringTypes ==
  ASSUME TypeOK, Registering
  PROVE  TypeOK'
<1>. /\ reg \in Regs /\ reg.token \in TokenOrNone /\ reg.open \in BOOLEAN /\ reg.gen \in Nat
     /\ NoReg \in Regs
  BY DEF TypeOK, Regs, NoReg, TokenOrNone
<1>0. CASE RegisterRead
  <2>1. (IF way = "trust" THEN open ELSE reg.open) \in BOOLEAN
    BY DEF TypeOK
  <2>2. reg' \in Regs
    BY <1>0, <2>1 DEF RegisterRead, Regs
  <2>. QED BY <1>0, <2>2 DEF RegisterRead, TypeOK
<1>1. CASE RegisterSend
  <2>1. reg' \in Regs
    BY <1>1 DEF RegisterSend, TypeOK, Regs
  <2>. QED BY <1>1, <2>1 DEF RegisterSend, TypeOK
<1>2. CASE RegisterServe
  <2>1. CASE \E t \in Tokens : Registered(reg.open, t)
                               /\ reg' = [reg EXCEPT !.pc = "answered", !.token = t]
    <3>1. reg' \in Regs
      BY <2>1 DEF Regs, TokenOrNone
    <3>2. srv' \in Registrations
      BY <2>1, RegisteredType
    <3>3. late' \subseteq Requests /\ losses' \in Nat
      <4>1. CASE UNCHANGED <<late, losses>>
        BY <4>1 DEF TypeOK
      <4>2. CASE Lose([op |-> "register", token |-> reg.token, open |-> reg.open])
        BY <4>2 DEF Lose, TypeOK, Requests
      <4>. QED BY <1>2, <4>1, <4>2 DEF RegisterServe
    <3>. QED BY <1>2, <3>1, <3>2, <3>3 DEF RegisterServe, TypeOK, Registrations
  <2>2. CASE reg' = NoReg /\ UNCHANGED <<srv, late, losses>>
    BY <1>2, <2>2 DEF RegisterServe, TypeOK
  <2>3. CASE reg' = NoReg /\ Lose([op |-> "register", token |-> reg.token, open |-> reg.open])
    <3>1. [op |-> "register", token |-> reg.token, open |-> reg.open] \in Requests
      BY DEF Requests
    <3>2. /\ srv' \in Registrations \cup {None}
          /\ late' \subseteq Requests /\ losses' \in Nat
      BY <2>3, <3>1 DEF Lose, TypeOK, Registrations
    <3>. QED BY <1>2, <2>3, <3>2 DEF RegisterServe, TypeOK, Registrations
  <2>. QED BY <1>2, <2>1, <2>2, <2>3 DEF RegisterServe
<1>3. CASE RegisterAnswered
  <2>1. reg' \in Regs
    BY <1>3 DEF RegisterAnswered, Regs
  <2>. QED BY <1>3, <2>1 DEF RegisterAnswered, TypeOK
<1>4. CASE RegisterUndo
  BY <1>4, UnregisterType DEF RegisterUndo, TypeOK, Registrations
<1>. QED BY <1>0, <1>1, <1>2, <1>3, <1>4 DEF Registering

LEMMA ListeningTypes ==
  ASSUME TypeOK, Listening
  PROVE  TypeOK'
<1>. lan \in Lans /\ Idle \in Lans /\ Idle \in Maints
  BY DEF TypeOK, Idle, Lans, Maints
<1>1. CASE LanBound
  <2>1. lan' \in Lans /\ lan.gen \in Nat
    BY <1>1 DEF LanBound, Lans
  <2>. QED BY <1>1, <2>1 DEF LanBound, TypeOK, Lans
<1>2. CASE LanFails
  <2>1. disc' \in [Disconnects -> Discs]
    BY <1>2 DEF LanFails, TypeOK, Discs, DiscOver, TokenOrNone
  <2>2. chain' \in Seq(Transitions)
    BY <1>2, ChainParts DEF LanFails, At, TypeOK
  <2>3. reg' \in Regs
    BY <1>2, RegType DEF LanFails
  <2>. QED BY <1>2, <2>1, <2>2, <2>3 DEF LanFails, TypeOK, Lans, Maints
<1>3. CASE LanLookedUp
  <2>1. lan' \in Lans
    BY <1>3 DEF LanLookedUp, Lans
  <2>. QED BY <1>3, <2>1 DEF LanLookedUp, TypeOK, Lans
<1>4. CASE LanClosed
  BY <1>4 DEF LanClosed, TypeOK, Lans
<1>. QED BY <1>1, <1>2, <1>3, <1>4 DEF Listening

LEMMA SwitchingTypes ==
  ASSUME TypeOK, Switching
  PROVE  TypeOK'
<1>1. chain \in Seq(Transitions) /\ chain # <<>>
  BY DEF TypeOK, Switching, StartBegins, StartServed, StartLan, StopBegins,
         StopServed, StopClosed, StopUnregisters, At
<1>2. /\ Head(chain) \in Transitions /\ Head(chain).token \in TokenOrNone
      /\ Head(chain).sock \in {0, 1} /\ chain[1] = Head(chain)
      /\ Tail(chain) \in Seq(Transitions)
  BY <1>1, ChainParts DEF Transitions
<1>3. ASSUME NEW pc \in {"service", "wait", "unregister"}, Goto(pc)
      PROVE  chain' \in Seq(Transitions)
  BY <1>1, <1>3, ChainGoto
<1>4. CASE StartBegins
  <2>1. chain' \in Seq(Transitions)
    BY <1>2, <1>3, <1>4 DEF StartBegins
  <2>. QED BY <1>4, <2>1 DEF StartBegins, TypeOK
<1>5. CASE StartServed \/ StartLan
  <2>1. chain' \in Seq(Transitions)
    BY <1>1, <1>2, <1>3, <1>5 DEF StartServed, StartLan, StartEnds
  <2>2. reg' \in Regs /\ lan' \in Lans
    BY <1>5, RegType, LanType DEF StartServed, StartLan, StartEnds
  <2>. QED BY <1>5, <2>1, <2>2 DEF StartServed, StartLan, TypeOK, Lans
<1>6. CASE StopBegins
  <2>1. chain' \in Seq(Transitions)
    BY <1>3, <1>6 DEF StopBegins
  <2>. QED BY <1>6, <2>1 DEF StopBegins, TypeOK
<1>7. CASE StopServed
  <2>. DEFINE t == [chain[1] EXCEPT !.pc = "closing", !.token = token,
                                    !.sock = IF server = None THEN 0 ELSE 1]
  <2>1. t \in Transitions
    BY <1>2 DEF Transitions, TypeOK
  <2>2. chain' = [chain EXCEPT ![1] = t]
    BY <1>7 DEF StopServed
  <2>3. chain' \in Seq(Transitions)
    BY <1>1, <2>1, <2>2, ChainHead
  <2>. QED BY <1>7, <2>3 DEF StopServed, TypeOK, TokenOrNone
<1>8. CASE StopClosed
  <2>1. chain' \in Seq(Transitions)
    BY <1>2, <1>3, <1>8 DEF StopClosed
  <2>. QED BY <1>2, <1>8, <2>1 DEF StopClosed, TypeOK
<1>9. CASE StopUnregisters
  <2>1. chain' \in Seq(Transitions)
    BY <1>2, <1>9 DEF StopUnregisters
  <2>2. /\ srv' \in Registrations \cup {None}
        /\ late' \subseteq Requests /\ losses' \in Nat
    BY <1>2, <1>9, UnregisterType DEF StopUnregisters
  <2>. QED BY <1>9, <2>1, <2>2 DEF StopUnregisters, TypeOK, Registrations
<1>. QED BY <1>4, <1>5, <1>6, <1>7, <1>8, <1>9 DEF Switching

LEMMA DisconnectingTypes ==
  ASSUME TypeOK, NEW d \in Disconnects, Revoke(d) \/ Disconnecting(d)
  PROVE  TypeOK'
<1>1. /\ disc \in [Disconnects -> Discs] /\ disc[d] \in Discs
      /\ disc[d].gen \in Nat /\ disc[d].token \in TokenOrNone /\ disc[d].sock \in {0, 1}
      /\ token \in TokenOrNone /\ None \in TokenOrNone /\ gen \in Nat
      /\ DiscOver \in Discs /\ open \in BOOLEAN
  BY DEF TypeOK, Discs, DiscOver, TokenOrNone
<1>2. ASSUME NEW t \in Discs, disc' = [disc EXCEPT ![d] = t]
      PROVE  disc' \in [Disconnects -> Discs]
  BY <1>1, <1>2
<1>3. ASSUME NEW g \in Nat, DiscCloses(d, g)
      PROVE  disc' \in [Disconnects -> Discs]
  <2>1. [pc |-> "closing", gen |-> g, token |-> None,
         sock |-> IF server = None THEN 0 ELSE 1] \in Discs
    BY <1>1 DEF Discs
  <2>. QED BY <1>2, <1>3, <2>1 DEF DiscCloses
<1>4. CASE Revoke(d)
  <2>1. [disc[d] EXCEPT !.pc = "clearing"] \in Discs
    BY <1>1 DEF Discs
  <2>2. disc' \in [Disconnects -> Discs]
    BY <1>2, <1>4, <2>1 DEF Revoke
  <2>3. open' \in BOOLEAN
    BY <1>4 DEF Revoke
  <2>. QED BY <1>4, <2>2, <2>3 DEF Revoke, TypeOK
<1>9. CASE RevokePassword(d)
  <2>1. [disc[d] EXCEPT !.pc = "revoked"] \in Discs
    BY <1>1 DEF Discs
  <2>2. disc' \in [Disconnects -> Discs]
    BY <1>2, <1>9, <2>1 DEF RevokePassword
  <2>3. open' \in BOOLEAN
    BY <1>1, <1>9 DEF RevokePassword
  <2>. QED BY <1>9, <2>2, <2>3 DEF RevokePassword, TypeOK
<1>5. CASE Disconnect(d)
  <2>1. gen' \in Nat /\ server' \in Nat \cup {None}
    BY <1>5 DEF Disconnect, DiscCloses, TypeOK
  <2>2. [pc |-> "unregister", gen |-> gen', token |-> token, sock |-> 0] \in Discs
    BY <1>1, <2>1 DEF Discs
  <2>3. disc' \in [Disconnects -> Discs]
    BY <1>1, <1>2, <1>3, <1>5, <2>1, <2>2 DEF Disconnect
  <2>. QED BY <1>5, <2>1, <2>3 DEF Disconnect, TypeOK
<1>6. CASE DiscUnregisters(d)
  <2>1. /\ srv' \in Registrations \cup {None}
        /\ late' \subseteq Requests /\ losses' \in Nat
    BY <1>1, <1>6, UnregisterType DEF DiscUnregisters
  <2>2. disc' \in [Disconnects -> Discs]
    BY <1>1, <1>3, <1>6 DEF DiscUnregisters
  <2>. QED BY <1>6, <2>1, <2>2 DEF DiscUnregisters, DiscCloses, TypeOK, Registrations
<1>7. CASE DiscClosed(d)
  <2>1. [disc[d] EXCEPT !.pc = "wait", !.sock = 0] \in Discs
    BY <1>1 DEF Discs
  <2>2. disc' \in [Disconnects -> Discs]
    <3>1. CASE disc' = [disc EXCEPT ![d] = [disc[d] EXCEPT !.pc = "wait", !.sock = 0]]
      BY <1>2, <2>1, <3>1
    <3>2. CASE disc' = [disc EXCEPT ![d] = DiscOver]
      BY <1>1, <1>2, <3>2
    <3>. QED BY <1>7, <3>1, <3>2 DEF DiscClosed
  <2>3. reg' \in Regs /\ lan' \in Lans
    BY <1>7, RegType, LanType DEF DiscClosed
  <2>. QED BY <1>1, <1>7, <2>2, <2>3 DEF DiscClosed, TypeOK, Lans
<1>8. CASE DiscLan(d)
  <2>1. disc' \in [Disconnects -> Discs]
    BY <1>1, <1>2, <1>8 DEF DiscLan
  <2>2. reg' \in Regs /\ lan' \in Lans
    BY <1>8, RegType, LanType DEF DiscLan
  <2>. QED BY <1>8, <2>1, <2>2 DEF DiscLan, TypeOK, Lans
<1>. QED BY <1>4, <1>5, <1>6, <1>7, <1>8, <1>9 DEF Disconnecting

LEMMA MaintainingTypes ==
  ASSUME TypeOK, Maintaining
  PROVE  TypeOK'
<1>1. CASE Maintain
  BY <1>1, LanType DEF Maintain, TypeOK, Lans
<1>2. CASE MaintainLan
  <2>1. reg' \in Regs /\ lan' \in Lans
    BY <1>2, RegType, LanType DEF MaintainLan
  <2>2. maint' \in Maints
    BY <1>2 DEF MaintainLan, TypeOK, Maints, Idle
  <2>. QED BY <1>2, <2>1, <2>2 DEF MaintainLan, TypeOK, Lans, Maints
<1>. QED BY <1>1, <1>2 DEF Maintaining

LEMMA TypeStep == TypeOK /\ [HostNext]_hostVars => TypeOK'
<1>. SUFFICES ASSUME TypeOK, [HostNext]_hostVars PROVE TypeOK'
  OBVIOUS
<1>1. CASE UNCHANGED hostVars
  BY <1>1 DEF hostVars, TypeOK
<1>2. CASE HostNext
  BY <1>2, UserTypes, RelayTypes, RegisteringTypes, ListeningTypes, SwitchingTypes,
     DisconnectingTypes, MaintainingTypes DEF HostNext
<1>. QED BY <1>1, <1>2

\* Every variable of the desktop host keeps its type, for any number of calls.
THEOREM TypeCorrect == HostSpec => []TypeOK
BY TypeInit, TypeStep, PTL DEF HostSpec

-----------------------------------------------------------------------------
(* HostSwitch implements HostSession: of all that happens while calls overlap, *)
(* only a start of today begins the service and only an answer of today is a   *)
(* token learned.                                                              *)

mappedSrv == IF srv = None THEN None ELSE srv.token

\* What a change of the registration at the relay looks like from the session.
SrvStep ==
  \/ mappedSrv' = mappedSrv
  \/ mappedSrv' = None
  \/ \E t \in Tokens : mappedSrv = None /\ t # token /\ mappedSrv' = t

LEMMA RegisteredStep ==
  ASSUME TypeOK, NEW c \in BOOLEAN, NEW t \in Tokens, Registered(c, t)
  PROVE  SrvStep
<1>1. srv' = [token |-> t, open |-> c] /\ srv' # None /\ srv'.token = t
  BY HostParameters DEF Registered
<1>2. CASE srv = None
  <2>1. t \notin Remembered
    BY <1>2 DEF Registered, NewToken
  <2>2. t # token
    BY <2>1 DEF Remembered
  <2>. QED BY <1>1, <1>2, <2>2 DEF SrvStep, mappedSrv
<1>3. CASE srv # None
  BY <1>1, <1>3 DEF Registered, SrvStep, mappedSrv
<1>. QED BY <1>2, <1>3

LEMMA UnregisteredStep ==
  ASSUME NEW t, Unregistered(t) \/ Unregister(t) \/ UNCHANGED srv
  PROVE  SrvStep
BY DEF Unregister, Unregistered, Lose, SrvStep, mappedSrv

LEMMA SessionStep == TypeOK /\ [HostNext]_hostVars => [Session!Next]_Session!sessionVars
<1>. SUFFICES ASSUME TypeOK, [HostNext]_hostVars
              PROVE  [Session!Next]_Session!sessionVars
  OBVIOUS
<1>. USE DEF Session!Next, Session!sessionVars
<1>1. ASSUME SrvStep, UNCHANGED <<hosting, running, token>>
      PROVE  [Session!Next]_Session!sessionVars
  BY <1>1 DEF SrvStep, mappedSrv, Session!Register, Session!Unregister
<1>2. ASSUME UNCHANGED <<hosting, running, srv>>, token' \in {token, None}
      PROVE  [Session!Next]_Session!sessionVars
  BY <1>2 DEF Session!ForgetToken
<1>3. CASE UNCHANGED hostVars
  BY <1>3, <1>2 DEF hostVars
<1>4. CASE StartHosting \/ StopHosting \/ Heartbeat \/ Trust
  BY <1>4, <1>2 DEF StartHosting, StopHosting, Heartbeat, Trust, Session!Switch
<1>5. CASE Registering
  <2>1. CASE RegisterRead \/ RegisterSend
    BY <1>2, <2>1 DEF RegisterRead, RegisterSend
  <2>2. CASE RegisterServe
    <3>1. SrvStep
      BY <2>2, RegisteredStep, UnregisteredStep DEF RegisterServe, Lose, TypeOK, Regs
    <3>. QED BY <1>1, <2>2, <3>1 DEF RegisterServe
  <2>3. CASE RegisterAnswered
    <3>1. reg.token \in TokenOrNone
      BY DEF TypeOK, Regs
    <3>. QED BY <1>2, <2>3, <3>1
             DEF RegisterAnswered, Current, TokenOrNone, Session!LearnToken, Session!ForgetToken
  <2>4. CASE RegisterUndo
    BY <1>1, <2>4, UnregisteredStep DEF RegisterUndo
  <2>. QED BY <1>5, <2>1, <2>2, <2>3, <2>4 DEF Registering
<1>6. CASE Listening
  BY <1>2, <1>6 DEF Listening, LanBound, LanFails, LanLookedUp, LanClosed
<1>7. CASE Switching
  <2>1. CASE StartBegins
    BY <1>2, <2>1 DEF StartBegins, Current, TypeOK, Session!Serve
  <2>2. CASE StopBegins
    BY <2>2 DEF StopBegins, Session!Rest
  <2>3. CASE StopUnregisters
    BY <1>1, <2>3, UnregisteredStep DEF StopUnregisters
  <2>4. CASE StartServed \/ StartLan \/ StopServed \/ StopClosed
    BY <1>2, <2>4 DEF StartServed, StartLan, StopServed, StopClosed
  <2>. QED BY <1>7, <2>1, <2>2, <2>3, <2>4 DEF Switching
<1>8. CASE Maintaining
  BY <1>2, <1>8 DEF Maintaining, Maintain, MaintainLan
<1>9. CASE Relay
  <2>1. SrvStep /\ UNCHANGED <<hosting, running, token>>
    <3>1. CASE LateArrives
      <4>1. PICK m \in late :
              \/ Unregistered(m.token)
              \/ \E t \in Tokens : Registered(m.open, t)
              \/ UNCHANGED srv
        BY <3>1 DEF LateArrives
      <4>2. m.open \in BOOLEAN
        BY DEF TypeOK, Requests
      <4>3. SrvStep
        BY <4>1, <4>2, RegisteredStep, UnregisteredStep
      <4>. QED BY <3>1, <4>3 DEF LateArrives
    <3>2. CASE Expire \/ Restart
      BY <3>2 DEF Expire, Restart, SrvStep, mappedSrv
    <3>. QED BY <1>9, <3>1, <3>2 DEF Relay
  <2>. QED BY <1>1, <2>1
<1>10. CASE \E d \in Disconnects : Revoke(d) \/ Disconnecting(d)
  <2>1. PICK d \in Disconnects : Revoke(d) \/ Disconnecting(d)
    BY <1>10
  <2>2. CASE DiscUnregisters(d)
    BY <1>1, <2>2, UnregisteredStep DEF DiscUnregisters
  <2>3. CASE Revoke(d) \/ RevokePassword(d) \/ Disconnect(d) \/ DiscClosed(d) \/ DiscLan(d)
    BY <1>2, <2>3 DEF Revoke, RevokePassword, Disconnect, DiscClosed, DiscLan
  <2>. QED BY <2>1, <2>2, <2>3 DEF Disconnecting
<1>. QED BY <1>3, <1>4, <1>5, <1>6, <1>7, <1>8, <1>9, <1>10 DEF HostNext

\* The desktop host, with all its calls in progress, does what HostSession says.
THEOREM Implements == HostSpec => ImplementsSession
<1>1. Init => Session!Init
  BY DEF Init, Session!Init
<1>. QED BY <1>1, TypeCorrect, SessionStep, PTL DEF HostSpec, ImplementsSession, Session!Spec

-----------------------------------------------------------------------------
(* What is left behind, and who is on the way to remove it *)

\* A stop that has not taken the token and the listener yet.
Pending(t) == t.kind = "stop" /\ t.pc \in {"queued", "service"}
StopPending == \E i \in 1 .. Len(chain) : Pending(chain[i])
Queued(t) == t.kind = "stop" /\ t.pc = "queued"
StopQueued == \E i \in 1 .. Len(chain) : Queued(chain[i])

\* Only the first transition runs.
OneRuns == \A i \in 2 .. Len(chain) : chain[i].pc = "queued"

\* What hosting left behind when it was switched off, a queued stop removes.
StopFollows ==
  ~hosting => /\ StopPending \/ (token = None /\ server = None)
              /\ StopQueued \/ ~running

\* A listener of an earlier generation is closed by a stop or a disconnect.
StaleFollows ==
  hosting /\ server \notin {None, gen} =>
    StopPending \/ \E d \in Disconnects : disc[d].pc = "unregister"

\* Every socket has exactly one owner that closes it.
Closes(t) == t.pc = "closing" /\ t.sock = 1
Closers == {d \in Disconnects : Closes(disc[d])}
One(b) == IF b THEN 1 ELSE 0
StopSock == One(chain # <<>> /\ Closes(chain[1]))
SocketsOwned ==
  sockets = One(server # None) + One(lan.pc = "close") + StopSock + Cardinality(Closers)

BindAlone == lan.pc = "bind" => server = None

HostInv == OneRuns /\ StopFollows /\ StaleFollows /\ SocketsOwned /\ BindAlone

LEMMA TailStep ==
  ASSUME TypeOK, OneRuns, chain # <<>>, chain' = Tail(chain)
  PROVE  /\ OneRuns' /\ StopSock' = 0
         /\ StopPending /\ ~Pending(chain[1]) => StopPending'
         /\ StopQueued /\ ~Queued(chain[1]) => StopQueued'
<1>1. /\ Len(chain) \in Nat \ {0} /\ Len(chain') = Len(chain) - 1
      /\ \A i \in 1 .. Len(chain) - 1 : chain'[i] = chain[i + 1]
  BY ChainParts DEF TypeOK
<1>2. \A i \in 1 .. Len(chain') : i + 1 \in 2 .. Len(chain) /\ chain'[i].pc = "queued"
  BY <1>1 DEF OneRuns
<1>3. OneRuns'
  BY <1>1, <1>2 DEF OneRuns
<1>4. StopSock' = 0
  <2>1. CASE chain' = <<>>
    BY <2>1 DEF StopSock, One
  <2>2. CASE chain' # <<>>
    <3>1. chain' \in Seq(Transitions)
      BY ChainParts DEF TypeOK
    <3>2. 1 \in 1 .. Len(chain')
      BY <2>2, <3>1
    <3>. QED BY <1>2, <3>2 DEF StopSock, One, Closes
  <2>. QED BY <2>1, <2>2
<1>5. ASSUME NEW i \in 1 .. Len(chain), i # 1
      PROVE  i - 1 \in 1 .. Len(chain') /\ chain'[i - 1] = chain[i]
  BY <1>1, <1>5
<1>6. ASSUME StopPending, ~Pending(chain[1]) PROVE StopPending'
  <2>1. PICK i \in 1 .. Len(chain) : Pending(chain[i])
    BY <1>6 DEF StopPending
  <2>2. i # 1
    BY <1>6, <2>1
  <2>3. i - 1 \in 1 .. Len(chain') /\ chain'[i - 1] = chain[i]
    BY <1>5, <2>2
  <2>. QED BY <2>1, <2>3 DEF StopPending, Pending
<1>7. ASSUME StopQueued, ~Queued(chain[1]) PROVE StopQueued'
  <2>1. PICK i \in 1 .. Len(chain) : Queued(chain[i])
    BY <1>7 DEF StopQueued
  <2>2. i # 1
    BY <1>7, <2>1
  <2>3. i - 1 \in 1 .. Len(chain') /\ chain'[i - 1] = chain[i]
    BY <1>5, <2>2
  <2>. QED BY <2>1, <2>3 DEF StopQueued, Queued
<1>. QED BY <1>3, <1>4, <1>6, <1>7

LEMMA HeadStep ==
  ASSUME TypeOK, OneRuns, chain # <<>>, NEW t \in Transitions, chain' = [chain EXCEPT ![1] = t]
  PROVE  /\ OneRuns' /\ StopSock' = One(Closes(t))
         /\ StopPending /\ (Pending(chain[1]) => Pending(t)) => StopPending'
         /\ StopQueued /\ (Queued(chain[1]) => Queued(t)) => StopQueued'
<1>1. /\ Len(chain) \in Nat \ {0} /\ Len(chain') = Len(chain) /\ chain' # <<>>
      /\ chain'[1] = t /\ \A i \in 2 .. Len(chain) : chain'[i] = chain[i]
  BY ChainHead, ChainParts DEF TypeOK
<1>2. OneRuns'
  BY <1>1 DEF OneRuns
<1>3. StopSock' = One(Closes(t))
  BY <1>1 DEF StopSock, Closes
<1>4. \A i \in 1 .. Len(chain) : i = 1 \/ chain'[i] = chain[i]
  BY <1>1
<1>5. ASSUME StopPending, Pending(chain[1]) => Pending(t) PROVE StopPending'
  BY <1>1, <1>4, <1>5 DEF StopPending, Pending
<1>6. ASSUME StopQueued, Queued(chain[1]) => Queued(t) PROVE StopQueued'
  BY <1>1, <1>4, <1>6 DEF StopQueued, Queued
<1>. QED BY <1>2, <1>3, <1>5, <1>6

LEMMA GotoStep ==
  ASSUME TypeOK, OneRuns, chain # <<>>, NEW pc \in {"service", "wait", "unregister"}, Goto(pc)
  PROVE  /\ OneRuns' /\ StopSock' = 0
         /\ StopPending /\ (Pending(chain[1]) => pc = "service") => StopPending'
         /\ StopQueued /\ ~Queued(chain[1]) => StopQueued'
<1>. DEFINE t == [chain[1] EXCEPT !.pc = pc]
<1>1. chain[1] \in Transitions
  BY ChainParts DEF TypeOK
<1>2. t \in Transitions /\ t.pc = pc /\ t.kind = chain[1].kind
  BY <1>1 DEF Transitions
<1>3. chain' = [chain EXCEPT ![1] = t]
  BY DEF Goto
<1>4. One(Closes(t)) = 0 /\ (Pending(chain[1]) /\ pc = "service" => Pending(t))
  BY <1>2 DEF Closes, Pending, One
<1>. QED BY <1>2, <1>3, <1>4, HeadStep

LEMMA AppendStep ==
  ASSUME TypeOK, OneRuns, NEW kind \in {"start", "stop"},
         gen' \in Nat, chain' = Append(chain, Transition(kind))
  PROVE  /\ OneRuns' /\ StopSock' = StopSock
         /\ StopPending \/ kind = "stop" => StopPending'
         /\ StopQueued \/ kind = "stop" => StopQueued'
<1>. DEFINE t == Transition(kind)
<1>1. t \in Transitions /\ t.pc = "queued" /\ t.kind = kind
  BY DEF Transition, Transitions, TokenOrNone
<1>2. /\ Len(chain) \in Nat /\ Len(chain') = Len(chain) + 1 /\ chain' # <<>>
      /\ chain'[Len(chain) + 1] = t
      /\ \A i \in 1 .. Len(chain) : chain'[i] = chain[i]
  BY <1>1, ChainAppend DEF TypeOK
<1>. HIDE DEF t
<1>3. \A i \in 1 .. Len(chain') : i \in 1 .. Len(chain) \/ chain'[i] = t
  BY <1>2
<1>4. OneRuns'
  <2>. SUFFICES ASSUME NEW i \in 2 .. Len(chain') PROVE chain'[i].pc = "queued"
    BY DEF OneRuns
  <2>1. CASE i \in 2 .. Len(chain)
    BY <1>2, <2>1 DEF OneRuns
  <2>2. CASE i \notin 2 .. Len(chain)
    BY <1>1, <1>2, <2>2
  <2>. QED BY <2>1, <2>2
<1>5. StopSock' = StopSock
  <2>1. CASE chain = <<>>
    BY <1>1, <1>2, <2>1 DEF StopSock, Closes, One
  <2>2. CASE chain # <<>>
    <3>1. 1 \in 1 .. Len(chain)
      BY <2>2, ChainParts DEF TypeOK
    <3>. QED BY <1>2, <2>2, <3>1 DEF StopSock, Closes
  <2>. QED BY <2>1, <2>2
<1>6. ASSUME StopPending \/ kind = "stop" PROVE StopPending'
  BY <1>1, <1>2, <1>6 DEF StopPending, Pending
<1>7. ASSUME StopQueued \/ kind = "stop" PROVE StopQueued'
  BY <1>1, <1>2, <1>7 DEF StopQueued, Queued
<1>. QED BY <1>4, <1>5, <1>6, <1>7

\* A call to throw out begins or ends to close a socket.
LEMMA CloserStep ==
  ASSUME TypeOK, NEW d \in Disconnects, NEW t \in Discs, disc' = [disc EXCEPT ![d] = t]
  PROVE  /\ Cardinality(Closers) \in Nat
         /\ Cardinality(Closers') = Cardinality(Closers) - One(Closes(disc[d])) + One(Closes(t))
<1>1. IsFiniteSet(Closers) /\ IsFiniteSet(Closers \ {d})
  BY HostParameters, FS_Subset DEF Closers
<1>2. disc'[d] = t /\ \A e \in Disconnects \ {d} : disc'[e] = disc[e]
  BY DEF TypeOK
<1>3. Closers' \ {d} = Closers \ {d}
  BY <1>2 DEF Closers, Closes
<1>4. Cardinality(Closers) = Cardinality(Closers \ {d}) + One(Closes(disc[d]))
  <2>1. CASE Closes(disc[d])
    <3>1. Closers = (Closers \ {d}) \cup {d}
      BY <2>1 DEF Closers
    <3>. QED BY <1>1, <2>1, <3>1, FS_AddElement, FS_CardinalityType DEF One
  <2>2. CASE ~Closes(disc[d])
    <3>1. Closers = Closers \ {d}
      BY <2>2 DEF Closers
    <3>2. Cardinality(Closers) = Cardinality(Closers \ {d})
      BY <3>1, Zenon
    <3>3. One(Closes(disc[d])) = 0 /\ Cardinality(Closers) \in Nat
      BY <1>1, <2>2, FS_CardinalityType DEF One
    <3>. QED BY <3>2, <3>3
  <2>. QED BY <2>1, <2>2
<1>5. Cardinality(Closers') = Cardinality(Closers \ {d}) + One(Closes(t))
  <2>1. CASE Closes(t)
    <3>1. Closers' = (Closers \ {d}) \cup {d}
      BY <1>2, <1>3, <2>1 DEF Closers, Closes
    <3>. QED BY <1>1, <2>1, <3>1, FS_AddElement, FS_CardinalityType DEF One
  <2>2. CASE ~Closes(t)
    <3>1. Closers' = Closers \ {d}
      BY <1>2, <1>3, <2>2 DEF Closers, Closes
    <3>. QED BY <1>1, <2>2, <3>1, FS_CardinalityType DEF One
  <2>. QED BY <2>1, <2>2
<1>6. /\ Cardinality(Closers \ {d}) \in Nat
      /\ One(Closes(disc[d])) \in {0, 1} /\ One(Closes(t)) \in {0, 1}
  BY <1>1, FS_CardinalityType DEF One
<1>. QED BY <1>4, <1>5, <1>6

-----------------------------------------------------------------------------
(* HostInv is inductive *)

\* A task joins or begins the attempt to open the listener, or leaves it alone.
MayJoin == UNCHANGED server /\ (UNCHANGED lan \/ (NeedLan /\ JoinLan))

LEMMA JoinStep ==
  ASSUME TypeOK, BindAlone, MayJoin
  PROVE  BindAlone' /\ One(lan'.pc = "close") = One(lan.pc = "close")
BY DEF MayJoin, NeedLan, JoinLan, BindAlone, One

\* A step that leaves the chain, the listener and the disconnects alone, and learns
\* a token only while hosting is on.
LEMMA FrameStep ==
  ASSUME TypeOK, HostInv, MayJoin, UNCHANGED <<hosting, gen, chain, running, sockets, disc>>,
         token' = token \/ token' = None \/ hosting
  PROVE  HostInv'
<1>1. /\ StopPending' = StopPending /\ StopQueued' = StopQueued /\ StopSock' = StopSock
      /\ Closers' = Closers /\ OneRuns'
  BY DEF StopPending, StopQueued, StopSock, Closers, HostInv, OneRuns
<1>2. BindAlone' /\ One(lan'.pc = "close") = One(lan.pc = "close")
  BY JoinStep DEF HostInv
<1>3. server' = server
  BY DEF MayJoin
<1>4. StopFollows'
  BY <1>1, <1>3 DEF HostInv, StopFollows
<1>5. StaleFollows'
  BY <1>1, <1>3 DEF HostInv, StaleFollows
<1>6. SocketsOwned'
  BY <1>1, <1>2, <1>3 DEF HostInv, SocketsOwned
<1>. QED BY <1>1, <1>2, <1>4, <1>5, <1>6 DEF HostInv

LEMMA UserInv ==
  ASSUME TypeOK, TypeOK', HostInv, StartHosting \/ StopHosting \/ Heartbeat \/ Trust
  PROVE  HostInv'
<1>1. CASE StartHosting
  <2>1. /\ OneRuns' /\ StopSock' = StopSock /\ (StopPending => StopPending')
        /\ (StopQueued => StopQueued')
    BY <1>1, AppendStep DEF StartHosting, HostInv, TypeOK
  <2>2. Closers' = Closers
    BY <1>1 DEF StartHosting, Closers
  <2>3. StopFollows' /\ StaleFollows' /\ BindAlone'
    BY <1>1, <2>1 DEF StartHosting, HostInv, StopFollows, StaleFollows, BindAlone
  <2>4. SocketsOwned'
    BY <1>1, <2>1, <2>2 DEF StartHosting, HostInv, SocketsOwned
  <2>. QED BY <2>1, <2>3, <2>4 DEF HostInv
<1>2. CASE StopHosting
  <2>1. OneRuns' /\ StopSock' = StopSock /\ StopPending' /\ StopQueued'
    BY <1>2, AppendStep DEF StopHosting, HostInv, TypeOK
  <2>2. Closers' = Closers
    BY <1>2 DEF StopHosting, Closers
  <2>3. StopFollows' /\ StaleFollows' /\ BindAlone'
    BY <1>2, <2>1 DEF StopHosting, HostInv, StopFollows, StaleFollows, BindAlone
  <2>4. SocketsOwned'
    BY <1>2, <2>1, <2>2 DEF StopHosting, HostInv, SocketsOwned
  <2>. QED BY <2>1, <2>3, <2>4 DEF HostInv
<1>3. CASE Heartbeat \/ Trust
  BY <1>3, FrameStep DEF Heartbeat, Trust, MayJoin
<1>. QED BY <1>1, <1>2, <1>3

LEMMA RegisteringInv ==
  ASSUME TypeOK, HostInv, Registering
  PROVE  HostInv'
<1>1. /\ UNCHANGED <<hosting, gen, chain, running, sockets, disc, server, lan>>
      /\ token' = token \/ hosting
  BY DEF Registering, RegisterRead, RegisterSend, RegisterServe, RegisterAnswered, RegisterUndo, Current
<1>. QED BY <1>1, FrameStep DEF MayJoin

LEMMA RelayInv ==
  ASSUME TypeOK, HostInv, Relay
  PROVE  HostInv'
<1>1. UNCHANGED <<hosting, gen, chain, running, token, sockets, disc, server, lan>>
  BY DEF Relay, LateArrives, Expire, Restart
<1>. QED BY <1>1, FrameStep DEF MayJoin

LEMMA MaintainingInv ==
  ASSUME TypeOK, HostInv, Maintaining
  PROVE  HostInv'
<1>1. UNCHANGED <<hosting, gen, chain, running, token, sockets, disc>> /\ MayJoin
  BY DEF Maintaining, Maintain, MaintainLan, MayJoin
<1>. QED BY <1>1, FrameStep

LEMMA ListeningInv ==
  ASSUME TypeOK, HostInv, Listening
  PROVE  HostInv'
<1>. /\ OneRuns /\ StopFollows /\ StaleFollows /\ SocketsOwned /\ BindAlone
     /\ sockets \in Int /\ server \in Nat \cup {None} /\ gen \in Nat /\ lan \in Lans
  BY DEF HostInv, TypeOK, Lans
<1>. StopSock \in {0, 1} /\ Cardinality(Closers) \in Nat
  BY HostParameters, FS_Subset, FS_CardinalityType DEF StopSock, One, Closers
<1>1. CASE UNCHANGED <<hosting, gen, chain, running, token, disc>>
           /\ (LanBound \/ LanLookedUp \/ LanClosed)
  <2>1. /\ StopPending' = StopPending /\ StopQueued' = StopQueued /\ StopSock' = StopSock
        /\ Closers' = Closers /\ OneRuns'
    BY <1>1 DEF StopPending, StopQueued, StopSock, Closers, OneRuns
  <2>2. CASE LanBound
    <3>1. StopFollows' /\ StaleFollows' /\ BindAlone'
      BY <1>1, <2>1, <2>2 DEF LanBound, Current, StopFollows, StaleFollows, BindAlone, Lans
    <3>2. server = None /\ lan.pc = "bind" /\ lan.gen # None
      BY <2>2, HostParameters DEF LanBound, BindAlone, Lans
    <3>3. CASE Current(lan.gen)
      <4>1. server' # None /\ lan'.pc = "lookup"
        BY <2>2, <3>2, <3>3 DEF LanBound, Lans
      <4>. QED BY <2>1, <2>2, <3>1, <3>2, <4>1 DEF LanBound, SocketsOwned, One, HostInv
    <3>4. CASE ~Current(lan.gen)
      <4>1. server' = None /\ lan'.pc = "close"
        BY <2>2, <3>2, <3>4 DEF LanBound, Lans
      <4>. QED BY <2>1, <2>2, <3>1, <3>2, <4>1 DEF LanBound, SocketsOwned, One, HostInv
    <3>. QED BY <3>3, <3>4
  <2>3. CASE LanLookedUp
    <3>1. lan'.pc \in {"idle", "close"}
      BY <2>3 DEF LanLookedUp, Idle, Lans
    <3>2. server' = server \/ server' = None
      BY <2>3 DEF LanLookedUp
    <3>3. StopFollows' /\ StaleFollows' /\ BindAlone'
      BY <1>1, <2>1, <3>1, <3>2 DEF StopFollows, StaleFollows, BindAlone
    <3>4. One(server' # None) + One(lan'.pc = "close") = One(server # None) + One(lan.pc = "close")
      <4>1. CASE Current(lan.gen)
        BY <2>3, <4>1 DEF LanLookedUp, Idle, One
      <4>2. CASE ~Current(lan.gen)
        BY <2>3, <4>2 DEF LanLookedUp, Idle, One, Lans
      <4>. QED BY <4>1, <4>2
    <3>5. SocketsOwned'
      BY <2>1, <2>3, <3>4 DEF LanLookedUp, SocketsOwned
    <3>. QED BY <2>1, <3>3, <3>5 DEF HostInv
  <2>4. CASE LanClosed
    <3>1. lan'.pc = "idle" /\ lan.pc = "close" /\ server' = server /\ sockets' = sockets - 1
      BY <2>4 DEF LanClosed, Idle
    <3>2. StopFollows' /\ StaleFollows' /\ BindAlone'
      BY <1>1, <2>1, <3>1 DEF StopFollows, StaleFollows, BindAlone
    <3>3. SocketsOwned'
      BY <2>1, <3>1 DEF SocketsOwned, One
    <3>. QED BY <2>1, <3>2, <3>3 DEF HostInv
  <2>. QED BY <1>1, <2>2, <2>3, <2>4
<1>2. CASE LanFails
  <2>1. /\ OneRuns' /\ StopSock' = StopSock /\ (StopPending => StopPending')
        /\ (StopQueued => StopQueued')
    <3>1. CASE At("start", "wait")
      <4>1. chain # <<>> /\ chain[1].kind = "start" /\ chain[1].pc = "wait" /\ chain' = Tail(chain)
        BY <1>2, <3>1, ChainParts DEF LanFails, At, TypeOK
      <4>. QED BY <4>1, TailStep DEF Pending, Queued, StopSock, Closes, One
    <3>2. CASE ~At("start", "wait")
      BY <1>2, <3>2 DEF LanFails, StopPending, StopQueued, StopSock, OneRuns
    <3>. QED BY <3>1, <3>2
  <2>2. Closers' = Closers
    BY <1>2 DEF LanFails, Closers, Closes, DiscOver
  <2>3. StaleFollows'
    BY <1>2, <2>1 DEF LanFails, StaleFollows, DiscOver
  <2>4. StopFollows'
    BY <1>2, <2>1 DEF LanFails, StopFollows
  <2>5. lan'.pc = "idle" /\ lan.pc = "bind"
    BY <1>2 DEF LanFails, Idle
  <2>6. BindAlone' /\ SocketsOwned'
    BY <1>2, <2>1, <2>2, <2>5 DEF LanFails, BindAlone, SocketsOwned, One
  <2>. QED BY <2>1, <2>3, <2>4, <2>6 DEF HostInv
<1>. QED BY <1>1, <1>2 DEF Listening, LanBound, LanLookedUp, LanClosed

\* A transition goes on or ends: what StopFollows and StaleFollows ask is still there.
LEMMA SwitchingInv ==
  ASSUME TypeOK, HostInv, Switching
  PROVE  HostInv'
<1>. /\ OneRuns /\ StopFollows /\ StaleFollows /\ SocketsOwned /\ BindAlone
     /\ sockets \in Int /\ server \in Nat \cup {None}
  BY DEF HostInv, TypeOK
<1>0. chain # <<>> /\ Head(chain) = chain[1] /\ chain[1] \in Transitions
  BY ChainParts DEF TypeOK, Switching, StartBegins, StartServed, StartLan, StopBegins,
                    StopServed, StopClosed, StopUnregisters, At
<1>1. UNCHANGED <<hosting, gen, disc>> /\ Closers' = Closers /\ Cardinality(Closers) \in Nat
  <2>1. UNCHANGED <<hosting, gen, disc>>
    BY DEF Switching, StartBegins, StartServed, StartLan, StopBegins, StopServed,
           StopClosed, StopUnregisters
  <2>. QED BY <2>1, HostParameters, FS_Subset, FS_CardinalityType DEF Closers
<1>2. CASE StartBegins
  <2>1. /\ OneRuns' /\ StopSock' = 0 /\ StopSock = 0 /\ (StopPending => StopPending')
        /\ (StopQueued => StopQueued')
    <3>1. chain[1].kind = "start" /\ chain[1].pc = "queued"
      BY <1>0, <1>2 DEF StartBegins, At
    <3>2. Goto("service") \/ chain' = Tail(chain)
      BY <1>2 DEF StartBegins
    <3>. QED BY <1>0, <3>1, <3>2, TailStep, GotoStep DEF Pending, Queued, StopSock, Closes, One
  <2>2. StopFollows'
    BY <1>1, <1>2, <2>1 DEF StartBegins, Current, StopFollows
  <2>3. StaleFollows' /\ BindAlone' /\ SocketsOwned'
    BY <1>1, <1>2, <2>1 DEF StartBegins, StaleFollows, BindAlone, SocketsOwned
  <2>. QED BY <2>1, <2>2, <2>3 DEF HostInv
<1>3. CASE StartServed \/ StartLan
  <2>1. /\ OneRuns' /\ StopSock' = StopSock /\ (StopPending => StopPending')
        /\ (StopQueued => StopQueued')
    <3>1. chain[1].kind = "start" /\ chain[1].pc \in {"service", "wait"}
      BY <1>0, <1>3 DEF StartServed, StartLan, At
    <3>2. Goto("wait") \/ chain' = Tail(chain) \/ UNCHANGED chain
      BY <1>3 DEF StartServed, StartLan, StartEnds
    <3>3. CASE UNCHANGED chain
      BY <3>3 DEF OneRuns, StopSock, StopPending, StopQueued
    <3>. QED BY <1>0, <3>1, <3>2, <3>3, TailStep, GotoStep
             DEF Pending, Queued, StopSock, Closes, One
  <2>2. MayJoin /\ UNCHANGED <<server, running, token, sockets>>
    BY <1>3 DEF StartServed, StartLan, MayJoin
  <2>3. BindAlone' /\ One(lan'.pc = "close") = One(lan.pc = "close")
    BY <2>2, JoinStep
  <2>4. StopFollows' /\ StaleFollows'
    BY <1>1, <2>1, <2>2 DEF StopFollows, StaleFollows
  <2>5. SocketsOwned'
    BY <1>1, <2>1, <2>2, <2>3 DEF SocketsOwned
  <2>. QED BY <2>1, <2>3, <2>4, <2>5 DEF HostInv
<1>4. CASE StopBegins
  <2>1. OneRuns' /\ StopSock' = 0 /\ StopSock = 0 /\ (StopPending => StopPending')
    <3>1. chain[1].kind = "stop" /\ chain[1].pc = "queued" /\ Goto("service")
      BY <1>0, <1>4 DEF StopBegins, At
    <3>. QED BY <1>0, <3>1, GotoStep DEF StopSock, Closes, One
  <2>2. StopFollows' /\ StaleFollows' /\ BindAlone' /\ SocketsOwned'
    BY <1>1, <1>4, <2>1 DEF StopBegins, StopFollows, StaleFollows, BindAlone, SocketsOwned
  <2>. QED BY <2>1, <2>2 DEF HostInv
<1>5. CASE StopServed
  <2>. DEFINE t == [chain[1] EXCEPT !.pc = "closing", !.token = token,
                                    !.sock = IF server = None THEN 0 ELSE 1]
  <2>1. t \in Transitions /\ chain' = [chain EXCEPT ![1] = t]
    BY <1>0, <1>5 DEF StopServed, Transitions, TypeOK
  <2>2. Closes(t) <=> server # None
    BY <1>0 DEF Closes, Transitions
  <2>3. chain[1].pc = "service"
    BY <1>0, <1>5 DEF StopServed, At
  <2>. HIDE DEF t
  <2>4. /\ OneRuns' /\ StopSock' = One(server # None) /\ StopSock = 0
        /\ (StopQueued => StopQueued')
    BY <1>0, <2>1, <2>2, <2>3, HeadStep DEF StopSock, Closes, One, Queued
  <2>5. server' = None /\ token' = None /\ UNCHANGED <<running, sockets, lan>>
    BY <1>5 DEF StopServed
  <2>6. StopFollows' /\ StaleFollows' /\ BindAlone'
    BY <1>1, <2>4, <2>5 DEF StopFollows, StaleFollows, BindAlone
  <2>7. SocketsOwned'
    BY <1>1, <2>4, <2>5 DEF SocketsOwned, One
  <2>. QED BY <2>4, <2>6, <2>7 DEF HostInv
<1>6. CASE StopClosed
  <2>1. chain[1].kind = "stop" /\ chain[1].pc = "closing" /\ chain[1].sock \in {0, 1}
    BY <1>0, <1>6 DEF StopClosed, At, Transitions
  <2>2. Goto("unregister") \/ chain' = Tail(chain)
    BY <1>6 DEF StopClosed
  <2>3. /\ OneRuns' /\ StopSock' = 0 /\ (StopPending => StopPending')
        /\ (StopQueued => StopQueued')
    BY <1>0, <2>1, <2>2, TailStep, GotoStep DEF Pending, Queued
  <2>4. StopSock = chain[1].sock
    BY <1>0, <2>1 DEF StopSock, Closes, One
  <2>5. StopFollows' /\ StaleFollows' /\ BindAlone'
    BY <1>1, <1>6, <2>3 DEF StopClosed, StopFollows, StaleFollows, BindAlone
  <2>6. SocketsOwned'
    BY <1>0, <1>1, <1>6, <2>1, <2>3, <2>4 DEF StopClosed, SocketsOwned, One
  <2>. QED BY <2>3, <2>5, <2>6 DEF HostInv
<1>7. CASE StopUnregisters
  <2>1. /\ OneRuns' /\ StopSock' = 0 /\ StopSock = 0 /\ (StopPending => StopPending')
        /\ (StopQueued => StopQueued')
    <3>1. chain[1].kind = "stop" /\ chain[1].pc = "unregister" /\ chain' = Tail(chain)
      BY <1>0, <1>7 DEF StopUnregisters, At
    <3>. QED BY <1>0, <3>1, TailStep DEF Pending, Queued, StopSock, Closes, One
  <2>2. StopFollows' /\ StaleFollows' /\ BindAlone' /\ SocketsOwned'
    BY <1>1, <1>7, <2>1 DEF StopUnregisters, StopFollows, StaleFollows, BindAlone, SocketsOwned
  <2>. QED BY <2>1, <2>2 DEF HostInv
<1>. QED BY <1>2, <1>3, <1>4, <1>5, <1>6, <1>7 DEF Switching

LEMMA DisconnectingInv ==
  ASSUME TypeOK, HostInv, NEW d \in Disconnects, Revoke(d) \/ Disconnecting(d)
  PROVE  HostInv'
<1>. /\ OneRuns /\ StopFollows /\ StaleFollows /\ SocketsOwned /\ BindAlone
     /\ sockets \in Int /\ server \in Nat \cup {None} /\ gen \in Nat
     /\ token \in TokenOrNone /\ disc \in [Disconnects -> Discs] /\ disc[d] \in Discs
  BY DEF HostInv, TypeOK
<1>1. /\ UNCHANGED <<hosting, chain, running>> /\ token' \in {token, None}
      /\ StopPending' = StopPending /\ StopQueued' = StopQueued /\ StopSock' = StopSock /\ OneRuns'
  <2>1. UNCHANGED <<hosting, chain, running>> /\ token' \in {token, None}
    BY DEF Disconnecting, Revoke, RevokePassword, Disconnect, DiscUnregisters, DiscClosed, DiscLan
  <2>. QED BY <2>1 DEF StopPending, StopQueued, StopSock, OneRuns
<1>2. Cardinality(Closers) \in Nat /\ StopSock \in {0, 1}
  BY HostParameters, FS_Subset, FS_CardinalityType DEF Closers, StopSock, One
<1>3. ASSUME NEW t \in Discs, disc' = [disc EXCEPT ![d] = t]
      PROVE  /\ Cardinality(Closers') = Cardinality(Closers) - One(Closes(disc[d])) + One(Closes(t))
             /\ disc'[d] = t /\ \A e \in Disconnects \ {d} : disc'[e] = disc[e]
  BY <1>3, CloserStep
<1>4. server' \in {server, None} => StopFollows'
  BY <1>1 DEF StopFollows
\* The listener changes hands: from the host to the call that closes it.
<1>5. ASSUME NEW g \in Nat, DiscCloses(d, g), ~Closes(disc[d]), UNCHANGED <<sockets, lan>>
      PROVE  HostInv'
  <2>. DEFINE t == [pc |-> "closing", gen |-> g, token |-> None,
                    sock |-> IF server = None THEN 0 ELSE 1]
  <2>1. t \in Discs /\ disc' = [disc EXCEPT ![d] = t] /\ server' = None
    BY <1>5 DEF DiscCloses, Discs, TokenOrNone
  <2>2. Closes(t) <=> server # None
    BY DEF Closes
  <2>. HIDE DEF t
  <2>3. Cardinality(Closers') = Cardinality(Closers) + One(server # None)
    <3>1. Cardinality(Closers') = Cardinality(Closers) - One(Closes(disc[d])) + One(Closes(t))
      BY <1>3, <2>1
    <3>2. One(Closes(disc[d])) = 0 /\ One(Closes(t)) = One(server # None)
      BY <1>5, <2>2 DEF One
    <3>3. One(server # None) \in {0, 1}
      BY DEF One
    <3>. QED BY <1>2, <3>1, <3>2, <3>3
  <2>4. SocketsOwned' /\ BindAlone' /\ StaleFollows'
    BY <1>1, <1>2, <1>5, <2>1, <2>3 DEF SocketsOwned, One, BindAlone, StaleFollows
  <2>. QED BY <1>1, <1>4, <2>1, <2>4 DEF HostInv
\* The call goes on with no socket of its own and nothing left to unregister.
<1>6. ASSUME NEW t \in Discs, disc' = [disc EXCEPT ![d] = t], ~Closes(t), UNCHANGED gen,
             disc[d].pc # "unregister", MayJoin,
             sockets' = sockets - One(Closes(disc[d]))
      PROVE  HostInv'
  <2>1. Cardinality(Closers') = Cardinality(Closers) - One(Closes(disc[d]))
    <3>1. Cardinality(Closers') = Cardinality(Closers) - One(Closes(disc[d])) + One(Closes(t))
      BY <1>3, <1>6
    <3>2. One(Closes(t)) = 0 /\ One(Closes(disc[d])) \in {0, 1}
      BY <1>6 DEF One
    <3>. QED BY <1>2, <3>1, <3>2
  <2>2. BindAlone' /\ One(lan'.pc = "close") = One(lan.pc = "close") /\ server' = server
    BY <1>6, JoinStep DEF MayJoin
  <2>3. One(lan.pc = "close") \in {0, 1} /\ One(server # None) \in {0, 1} /\ One(Closes(disc[d])) \in {0, 1}
    BY DEF One
  <2>4. SocketsOwned'
    BY <1>1, <1>2, <1>6, <2>1, <2>2, <2>3 DEF SocketsOwned
  <2>5. StaleFollows'
    BY <1>1, <1>3, <1>6, <2>2 DEF StaleFollows
  <2>. QED BY <1>1, <1>4, <2>2, <2>4, <2>5 DEF HostInv
<1>7. DiscOver \in Discs /\ ~Closes(DiscOver)
  BY DEF DiscOver, Discs, TokenOrNone, Closes
<1>8. CASE Revoke(d)
  <2>1. [disc[d] EXCEPT !.pc = "clearing"] \in Discs /\ ~Closes([disc[d] EXCEPT !.pc = "clearing"])
    BY DEF Discs, Closes
  <2>2. sockets' = sockets - One(Closes(disc[d])) /\ disc[d].pc # "unregister"
    BY <1>8 DEF Revoke, Closes, One
  <2>. QED BY <1>6, <1>8, <2>1, <2>2 DEF Revoke, MayJoin
<1>13. CASE RevokePassword(d)
  <2>1. [disc[d] EXCEPT !.pc = "revoked"] \in Discs /\ ~Closes([disc[d] EXCEPT !.pc = "revoked"])
    BY DEF Discs, Closes
  <2>2. sockets' = sockets - One(Closes(disc[d])) /\ disc[d].pc # "unregister"
    BY <1>13 DEF RevokePassword, Closes, One
  <2>. QED BY <1>6, <1>13, <2>1, <2>2 DEF RevokePassword, MayJoin
<1>9. CASE Disconnect(d)
  <2>0. disc[d].pc = "revoked" /\ ~Closes(disc[d]) /\ UNCHANGED <<sockets, lan>>
    BY <1>9 DEF Disconnect, Closes
  <2>1. CASE ~hosting
    <3>1. sockets' = sockets - One(Closes(disc[d])) /\ disc[d].pc # "unregister"
      BY <2>0 DEF One
    <3>. QED BY <1>6, <1>7, <1>9, <2>1, <3>1 DEF Disconnect, MayJoin
  <2>2. CASE hosting /\ token = None
    <3>1. gen' \in Nat /\ DiscCloses(d, gen')
      BY <1>9, <2>2 DEF Disconnect
    <3>. QED BY <1>5, <2>0, <3>1
  <2>3. CASE hosting /\ token # None
    <3>. DEFINE t == [pc |-> "unregister", gen |-> gen', token |-> token, sock |-> 0]
    <3>1. gen' \in Nat /\ disc' = [disc EXCEPT ![d] = t] /\ server' = server
      BY <1>9, <2>3 DEF Disconnect
    <3>2. t \in Discs /\ ~Closes(t) /\ t.pc = "unregister"
      BY <3>1 DEF Discs, Closes
    <3>. HIDE DEF t
    <3>3. Cardinality(Closers') = Cardinality(Closers)
      <4>1. Cardinality(Closers') = Cardinality(Closers) - One(Closes(disc[d])) + One(Closes(t))
        BY <1>3, <3>1, <3>2
      <4>2. One(Closes(t)) = 0 /\ One(Closes(disc[d])) = 0
        BY <2>0, <3>2 DEF One
      <4>. QED BY <1>2, <4>1, <4>2
    <3>4. disc'[d].pc = "unregister"
      BY <1>3, <3>1, <3>2
    <3>5. StaleFollows'
      BY <3>4 DEF StaleFollows
    <3>6. SocketsOwned' /\ BindAlone'
      BY <1>1, <2>0, <3>1, <3>3 DEF SocketsOwned, BindAlone
    <3>. QED BY <1>1, <1>4, <3>1, <3>5, <3>6 DEF HostInv
  <2>. QED BY <2>1, <2>2, <2>3
<1>10. CASE DiscUnregisters(d)
  <2>1. /\ disc[d].gen \in Nat /\ ~Closes(disc[d]) /\ UNCHANGED <<sockets, lan>>
        /\ DiscCloses(d, disc[d].gen)
    BY <1>10 DEF DiscUnregisters, Closes, Discs
  <2>. QED BY <1>5, <2>1
<1>11. CASE DiscClosed(d)
  <2>1. One(Closes(disc[d])) = disc[d].sock /\ disc[d].pc # "unregister"
    BY <1>11 DEF DiscClosed, One, Closes, Discs
  <2>2. MayJoin /\ UNCHANGED gen /\ sockets' = sockets - One(Closes(disc[d]))
    BY <1>11, <2>1 DEF DiscClosed, MayJoin
  <2>. DEFINE t == [disc[d] EXCEPT !.pc = "wait", !.sock = 0]
  <2>3. t \in Discs /\ ~Closes(t)
    BY DEF Discs, Closes
  <2>4. disc' = [disc EXCEPT ![d] = t] \/ disc' = [disc EXCEPT ![d] = DiscOver]
    BY <1>11 DEF DiscClosed
  <2>. QED BY <1>6, <1>7, <2>1, <2>2, <2>3, <2>4
<1>12. CASE DiscLan(d)
  <2>1. /\ UNCHANGED gen /\ MayJoin /\ disc[d].pc = "wait"
        /\ disc' = [disc EXCEPT ![d] = DiscOver] \/ disc' = disc
    BY <1>12 DEF DiscLan, MayJoin, Woken
  <2>2. sockets' = sockets - One(Closes(disc[d]))
    BY <1>12, <2>1 DEF DiscLan, One, Closes
  <2>3. CASE disc' = disc
    <3>1. UNCHANGED <<hosting, gen, chain, running, sockets, disc>>
      BY <1>1, <1>12, <2>1, <2>3 DEF DiscLan
    <3>. QED BY <1>1, <2>1, <3>1, FrameStep
  <2>. QED BY <1>6, <1>7, <2>1, <2>2, <2>3
<1>. QED BY <1>8, <1>9, <1>10, <1>11, <1>12, <1>13 DEF Disconnecting

LEMMA HostInit == Init => HostInv
<1>. SUFFICES ASSUME Init PROVE HostInv
  OBVIOUS
<1>1. ~StopPending /\ StopSock = 0 /\ Len(chain) = 0 /\ lan.pc = "idle"
  BY DEF Init, StopPending, StopSock, One, Idle
<1>2. Closers = {} /\ Cardinality(Closers) = 0
  BY FS_EmptySet DEF Init, NoDisc, Closers, Closes
<1>. QED BY <1>1, <1>2
         DEF Init, HostInv, OneRuns, StopFollows, StaleFollows, SocketsOwned, BindAlone, One

LEMMA HostStep == TypeOK /\ TypeOK' /\ HostInv /\ [HostNext]_hostVars => HostInv'
<1>. SUFFICES ASSUME TypeOK, TypeOK', HostInv, [HostNext]_hostVars PROVE HostInv'
  OBVIOUS
<1>1. CASE UNCHANGED hostVars
  BY <1>1, FrameStep DEF hostVars, MayJoin
<1>2. CASE HostNext
  BY <1>2, UserInv, RelayInv, RegisteringInv, ListeningInv, SwitchingInv,
     DisconnectingInv, MaintainingInv DEF HostNext
<1>. QED BY <1>1, <1>2

\* Whatever overlaps, every socket has an owner that closes it, and what an earlier
\* hosting left has a stop or a disconnect on its way that removes it.
THEOREM Followed == HostSpec => []HostInv
BY HostInit, HostStep, TypeCorrect, PTL DEF HostSpec

\* Quiet hosting that is off has no socket, no listener, no token and no service.
THEOREM Stopped == HostSpec => []StoppedIsStopped
<1>1. TypeOK /\ HostInv => StoppedIsStopped
  <2>. SUFFICES ASSUME TypeOK, HostInv, ~hosting, Quiet
                PROVE  sockets = 0 /\ server = None /\ token = None /\ ~running
    BY DEF StoppedIsStopped
  <2>1. ~StopPending /\ ~StopQueued /\ StopSock = 0 /\ lan.pc # "close"
    BY DEF Quiet, StopPending, StopQueued, StopSock, One
  <2>2. Cardinality(Closers) = 0
    BY FS_EmptySet DEF Quiet, Closers, Closes
  <2>3. server = None /\ token = None /\ ~running
    BY <2>1 DEF HostInv, StopFollows
  <2>. QED BY <2>1, <2>2, <2>3 DEF HostInv, SocketsOwned, One
<1>. QED BY <1>1, TypeCorrect, Followed, PTL

\* A quiet host's listener is the one of its present generation, and the only one.
THEOREM Listener == HostSpec => []ListenerCurrent
<1>1. TypeOK /\ HostInv => ListenerCurrent
  <2>. SUFFICES ASSUME TypeOK, HostInv, hosting, Quiet
                PROVE  server \in {None, gen} /\ sockets = IF server = None THEN 0 ELSE 1
    BY DEF ListenerCurrent
  <2>1. ~StopPending /\ StopSock = 0 /\ lan.pc # "close"
    BY DEF Quiet, StopPending, StopSock, One
  <2>2. Cardinality(Closers) = 0
    BY FS_EmptySet DEF Quiet, Closers, Closes
  <2>3. server \in {None, gen}
    BY <2>1 DEF HostInv, StaleFollows, Quiet
  <2>. QED BY <2>1, <2>2, <2>3 DEF HostInv, SocketsOwned, One
<1>. QED BY <1>1, TypeCorrect, Followed, PTL

-----------------------------------------------------------------------------
(* Revoked access.  What lets a viewer in whom the host has shut out is a      *)
(* registration that is no longer current or a revocation that has not come to *)
(* throw the viewers out; and whatever made it so still has the token to take  *)
(* back.                                                                       *)

Someone(pcs) == \E d \in Disconnects : disc[d].pc \in pcs
Revoking == Someone({"clearing", "revoked"})
Leaving == StopPending \/ Someone({"unregister", "closing"})

RegPast == reg.pc # "idle" => reg.gen <= gen
RegFresh ==
  reg.pc # "idle" /\ Current(reg.gen) /\ reg.open /\ ~open => Revoking
RegStale == reg.pc # "idle" /\ ~Current(reg.gen) => token = None \/ Leaving
\* With no request lost:
AnswerKept ==
  reg.pc = "answered" /\ srv # None /\ srv.token = reg.token => srv.open = reg.open
StaleLeaves ==
  srv # None /\ srv.open /\ ~open /\ token = srv.token => Leaving \/ Revoking

RevokeInv ==
  /\ RegPast /\ RegFresh /\ RegStale
  /\ losses = 0 => late = {} /\ AnswerKept /\ StaleLeaves

LEMMA DiscsStep ==
  ASSUME TypeOK, NEW d \in Disconnects, NEW t, disc' = [disc EXCEPT ![d] = t], NEW pcs,
         disc[d].pc \in pcs => t.pc \in pcs
  PROVE  /\ disc'[d] = t
         /\ Someone(pcs) => Someone(pcs)'
<1>1. disc'[d] = t /\ \A e \in Disconnects \ {d} : disc'[e] = disc[e]
  BY DEF TypeOK
<1>. QED BY <1>1 DEF Someone

\* Nothing but the end of a stop takes it off the chain before it has the token.
LEMMA PendingStep ==
  ASSUME TypeOK, HostInv, HostNext
  PROVE  StopPending => StopPending' \/ token' = None
<1>. OneRuns
  BY DEF HostInv
<1>1. ASSUME UNCHANGED chain PROVE StopPending => StopPending'
  BY <1>1 DEF StopPending
<1>2. CASE StartHosting \/ StopHosting
  <2>1. StopPending => StopPending'
    BY <1>2, AppendStep DEF StartHosting, StopHosting, TypeOK
  <2>. QED BY <2>1
<1>3. CASE LanFails
  <2>1. CASE At("start", "wait")
    <3>1. chain # <<>> /\ chain[1].kind = "start" /\ chain' = Tail(chain)
      BY <1>3, <2>1, ChainParts DEF LanFails, At, TypeOK
    <3>. QED BY <3>1, TailStep DEF Pending
  <2>2. CASE ~At("start", "wait")
    BY <1>1, <1>3, <2>2 DEF LanFails
  <2>. QED BY <2>1, <2>2
<1>4. CASE Switching
  <2>1. chain # <<>> /\ Head(chain) = chain[1] /\ chain[1] \in Transitions
    BY <1>4, ChainParts DEF TypeOK, Switching, StartBegins, StartServed, StartLan, StopBegins,
                            StopServed, StopClosed, StopUnregisters, At
  <2>2. CASE StopServed
    BY <2>2 DEF StopServed
  <2>3. CASE StopBegins
    <3>1. Goto("service")
      BY <2>3 DEF StopBegins
    <3>. QED BY <2>1, <3>1, GotoStep
  <2>4. CASE StartBegins \/ StartServed \/ StartLan \/ StopClosed \/ StopUnregisters
    <3>1. ~Pending(chain[1])
      BY <2>1, <2>4
      DEF StartBegins, StartServed, StartLan, StopClosed, StopUnregisters, At, Pending
    <3>2. \/ Goto("service") \/ Goto("wait") \/ Goto("unregister")
          \/ chain' = Tail(chain) \/ UNCHANGED chain
      BY <2>4 DEF StartBegins, StartServed, StartLan, StartEnds, StopClosed, StopUnregisters
    <3>. QED BY <1>1, <2>1, <3>1, <3>2, GotoStep, TailStep
  <2>. QED BY <1>4, <2>2, <2>3, <2>4 DEF Switching
<1>5. CASE \/ Heartbeat \/ Trust \/ Registering \/ LanBound \/ LanLookedUp \/ LanClosed
           \/ Maintaining \/ Relay
  <2>1. UNCHANGED chain
    BY <1>5 DEF Heartbeat, Trust, Registering, RegisterRead, RegisterSend, RegisterServe, RegisterAnswered,
                RegisterUndo, LanBound, LanLookedUp, LanClosed, Maintaining, Maintain,
                MaintainLan, Relay, LateArrives, Expire, Restart
  <2>. QED BY <1>1, <2>1
<1>6. ASSUME NEW d \in Disconnects, Revoke(d) \/ Disconnecting(d)
      PROVE  StopPending => StopPending'
  <2>1. UNCHANGED chain
    BY <1>6 DEF Revoke, RevokePassword, Disconnecting, Disconnect, DiscUnregisters, DiscClosed, DiscLan
  <2>. QED BY <1>1, <2>1
<1>. QED BY <1>2, <1>3, <1>4, <1>5, <1>6 DEF HostNext, Listening

\* A step that takes no answer, does not change the generation and shuts nobody out.
LEMMA RevokeFrame ==
  ASSUME TypeOK, TypeOK', HostNext, HostInv, RevokeInv, UNCHANGED <<hosting, gen>>,
         ~open' => ~open, token' \in {token, None},
         Revoking => Revoking',
         Someone({"unregister", "closing"}) =>
           Someone({"unregister", "closing"})' \/ token' = None,
         losses' = 0 => losses = 0 /\ late' = late /\ srv' \in {srv, None},
         reg'.pc # "idle" =>
           \/ /\ reg.pc # "idle" /\ reg'.gen = reg.gen /\ (reg'.open => reg.open \/ open)
              /\ reg'.pc = "answered" =>
                   reg.pc = "answered" /\ reg'.token = reg.token /\ reg'.open = reg.open
           \/ hosting /\ reg'.gen = gen /\ reg'.open = open /\ reg'.pc = "local"
  PROVE  RevokeInv'
<1>1. Leaving => Leaving' \/ token' = None
  BY PendingStep DEF Leaving
<1>2. gen \in Nat /\ \A g : Current(g)' <=> Current(g)
  BY DEF TypeOK, Current
<1>3. RegPast'
  BY <1>2 DEF RevokeInv, RegPast
<1>4. RegFresh'
  BY <1>2 DEF RevokeInv, RegFresh, Current
<1>5. RegStale'
  BY <1>1, <1>2 DEF RevokeInv, RegStale, Current
<1>6. ASSUME losses' = 0 PROVE late' = {} /\ AnswerKept' /\ StaleLeaves'
  <2>1. losses = 0 /\ late' = {} /\ srv' \in {srv, None} /\ AnswerKept /\ StaleLeaves
    BY <1>6 DEF RevokeInv
  <2>2. AnswerKept'
    BY <2>1 DEF AnswerKept
  <2>3. StaleLeaves'
    <3>. SUFFICES ASSUME srv' # None, srv'.open, ~open', token' = srv'.token
                  PROVE  Leaving' \/ Revoking'
      BY DEF StaleLeaves
    <3>1. srv' = srv /\ srv'.token \in Tokens
      BY <2>1 DEF TypeOK
    <3>2. token' # None
      BY <3>1, HostParameters
    <3>. QED BY <1>1, <2>1, <3>1, <3>2 DEF StaleLeaves
  <2>. QED BY <2>1, <2>2, <2>3
<1>. QED BY <1>3, <1>4, <1>5, <1>6 DEF RevokeInv

\* A registration begins with the generation and the password of the moment.
LEMMA BeginFollows ==
  ASSUME TypeOK, BeginRegistration \/ UNCHANGED reg \/ reg' = NoReg, reg'.pc # "idle"
  PROVE  \/ /\ reg.pc # "idle" /\ reg'.gen = reg.gen /\ reg'.open = reg.open
            /\ reg'.pc = "answered" => reg.pc = "answered" /\ reg'.token = reg.token
         \/ hosting /\ reg'.gen = gen /\ reg'.open = open /\ reg'.pc = "local"
BY DEF BeginRegistration, NoReg

LEMMA UnregisterKeeps ==
  ASSUME TypeOK, NEW t, Unregister(t)
  PROVE  losses' = 0 => losses = 0 /\ late' = late /\ srv' \in {srv, None}
BY DEF Unregister, Unregistered, Lose, TypeOK

\* The steps of the calls that do not throw anybody out.
LEMMA RevokeOthers ==
  ASSUME TypeOK, TypeOK', HostNext, HostInv, RevokeInv,
         Heartbeat \/ Trust \/ Listening \/ Switching \/ Maintaining \/ Relay
  PROVE  RevokeInv'
<1>1. UNCHANGED <<hosting, gen>> /\ (~open' => ~open) /\ token' \in {token, None}
  BY DEF Heartbeat, Trust, Listening, LanBound, LanFails, LanLookedUp, LanClosed, Switching,
         StartBegins, StartServed, StartLan, StopBegins, StopServed, StopClosed,
         StopUnregisters, Maintaining, Maintain, MaintainLan, Relay, LateArrives, Expire,
         Restart
<1>2. /\ Revoking => Revoking'
      /\ Someone({"unregister", "closing"}) => Someone({"unregister", "closing"})'
  <2>1. \/ UNCHANGED disc
        \/ disc' = [d \in Disconnects |-> IF disc[d].pc = "wait" THEN DiscOver ELSE disc[d]]
    BY DEF Heartbeat, Trust, Listening, LanBound, LanFails, LanLookedUp, LanClosed, Switching,
           StartBegins, StartServed, StartLan, StopBegins, StopServed, StopClosed,
           StopUnregisters, Maintaining, Maintain, MaintainLan, Relay, LateArrives, Expire,
           Restart
  <2>. QED BY <2>1 DEF Someone, Revoking, DiscOver
<1>3. BeginRegistration \/ UNCHANGED reg \/ reg' = NoReg
  BY DEF Heartbeat, Trust, Listening, LanBound, LanFails, LanLookedUp, LanClosed, Switching,
         StartBegins, StartServed, StartLan, StartEnds, StopBegins, StopServed, StopClosed,
         StopUnregisters, Maintaining, Maintain, MaintainLan, Relay, LateArrives, Expire,
         Restart
<1>4. losses' = 0 => losses = 0 /\ late' = late /\ srv' \in {srv, None}
  <2>1. CASE Heartbeat \/ Trust \/ Listening \/ Maintaining
    BY <2>1 DEF Heartbeat, Trust, Listening, LanBound, LanFails, LanLookedUp, LanClosed, Maintaining,
                Maintain, MaintainLan, TypeOK
  <2>2. CASE Switching
    BY <2>2, UnregisterKeeps
    DEF Switching, StartBegins, StartServed, StartLan, StopBegins, StopServed, StopClosed,
        StopUnregisters
  <2>3. CASE LateArrives
    BY <2>3 DEF LateArrives, RevokeInv
  <2>4. CASE Expire \/ Restart
    BY <2>4 DEF Expire, Restart, TypeOK
  <2>. QED BY <2>1, <2>2, <2>3, <2>4 DEF Relay
<1>. QED BY <1>1, <1>2, <1>3, <1>4, BeginFollows, RevokeFrame

\* Hosting switched on or off: what is under way is of an earlier generation.
LEMMA RevokeUser ==
  ASSUME TypeOK, TypeOK', HostInv, RevokeInv, StartHosting \/ StopHosting
  PROVE  RevokeInv'
<1>1. /\ UNCHANGED <<token, disc, reg, open, srv, late, losses>>
      /\ gen \in Nat /\ gen' = gen + 1
  BY DEF StartHosting, StopHosting, TypeOK
<1>2. /\ StopPending \/ StopHosting => StopPending'
      /\ (\A pcs : Someone(pcs)' <=> Someone(pcs)) /\ (Revoking' <=> Revoking)
  BY <1>1, AppendStep DEF StartHosting, StopHosting, HostInv, TypeOK, Someone, Revoking
<1>3. Leaving => Leaving'
  BY <1>2 DEF Leaving
<1>4. reg.pc # "idle" => reg.gen \in Nat /\ reg.gen <= gen /\ ~Current(reg.gen)'
  BY <1>1 DEF RevokeInv, RegPast, Current, TypeOK, Regs
<1>5. RegPast' /\ RegFresh'
  BY <1>1, <1>4 DEF RegPast, RegFresh
<1>6. RegStale'
  <2>1. CASE StopHosting
    BY <1>2, <2>1 DEF RegStale, Leaving
  <2>2. CASE StartHosting
    <3>1. ~Current(reg.gen)
      BY <2>2 DEF StartHosting, Current
    <3>. QED BY <1>1, <1>3, <3>1 DEF RevokeInv, RegStale
  <2>. QED BY <2>1, <2>2
<1>7. losses' = 0 => late' = {} /\ AnswerKept' /\ StaleLeaves'
  BY <1>1, <1>2, <1>3 DEF RevokeInv, AnswerKept, StaleLeaves
<1>. QED BY <1>5, <1>6, <1>7 DEF RevokeInv

\* The registration is sent, answered, taken or undone.
LEMMA RevokeRegistering ==
  ASSUME TypeOK, TypeOK', HostNext, HostInv, RevokeInv, Registering
  PROVE  RevokeInv'
<1>1. /\ UNCHANGED <<hosting, gen, chain, disc, open>> /\ gen \in Nat
      /\ reg \in Regs /\ token \in TokenOrNone
  BY DEF Registering, RegisterRead, RegisterSend, RegisterServe, RegisterAnswered, RegisterUndo, TypeOK
<1>2. /\ Revoking' <=> Revoking
      /\ StopPending' <=> StopPending
      /\ Leaving' <=> Leaving
      /\ \A g : Current(g)' <=> Current(g)
      /\ Someone({"unregister", "closing"})' <=> Someone({"unregister", "closing"})
  BY <1>1 DEF Someone, Revoking, StopPending, Leaving, Current
<1>7. CASE RegisterRead
  <2>1. /\ reg'.pc # "answered" /\ reg.pc # "idle" /\ reg'.gen = reg.gen
        /\ reg'.open => reg.open \/ open
    BY <1>1, <1>7 DEF RegisterRead, Regs
  <2>2. UNCHANGED <<token, srv, late, losses>>
    BY <1>7 DEF RegisterRead
  <2>. QED BY <1>1, <1>2, <2>1, <2>2, RevokeFrame
<1>3. CASE RegisterSend
  <2>1. reg'.pc # "idle" =>
          /\ reg.pc # "idle" /\ reg'.gen = reg.gen /\ reg'.open = reg.open
          /\ reg'.pc # "answered"
    BY <1>1, <1>3 DEF RegisterSend, NoReg, Regs
  <2>2. UNCHANGED <<token, srv, late, losses>>
    BY <1>3 DEF RegisterSend
  <2>. QED BY <1>1, <1>2, <2>1, <2>2, RevokeFrame
<1>4. CASE RegisterServe
  <2>1. CASE reg' = NoReg
    <3>1. losses' = 0 => losses = 0 /\ late' = late /\ srv' \in {srv, None}
      <4>1. CASE Lose([op |-> "register", token |-> reg.token, open |-> reg.open])
        BY <4>1 DEF Lose, TypeOK
      <4>2. CASE UNCHANGED <<srv, late, losses>>
        BY <4>2
      <4>. QED BY <1>1, <1>4, <2>1, <4>1, <4>2 DEF RegisterServe, NoReg, Regs
    <3>2. reg'.pc = "idle" /\ token' = token
      BY <1>4, <2>1 DEF RegisterServe, NoReg
    <3>. QED BY <1>1, <1>2, <3>1, <3>2, RevokeFrame
  <2>2. CASE reg' # NoReg
    <3>1. PICK t \in Tokens :
            /\ Registered(reg.open, t)
            /\ reg' = [reg EXCEPT !.pc = "answered", !.token = t]
            /\ UNCHANGED <<late, losses, token>> /\ reg.pc = "sent"
      BY <1>4, <2>2 DEF RegisterServe
    <3>2. /\ reg'.pc = "answered" /\ reg'.gen = reg.gen /\ reg'.open = reg.open
          /\ reg'.token = t
      BY <1>1, <3>1 DEF Regs
    <3>3. srv' = [token |-> t, open |-> reg.open] /\ t # None
      BY <3>1, HostParameters DEF Registered
    <3>4. RegPast' /\ RegFresh' /\ RegStale'
      BY <1>1, <1>2, <3>1, <3>2 DEF RevokeInv, RegPast, RegFresh, RegStale
    <3>5. AnswerKept'
      BY <3>2, <3>3 DEF AnswerKept
    <3>6. StaleLeaves'
      <4>. SUFFICES ASSUME reg.open, ~open, token = t PROVE Leaving \/ Revoking
        BY <1>1, <1>2, <3>1, <3>3 DEF StaleLeaves
      <4>1. reg.pc # "idle" /\ token # None
        BY <3>1, <3>3
      <4>. QED BY <4>1 DEF RevokeInv, RegFresh, RegStale
    <3>. QED BY <3>1, <3>4, <3>5, <3>6 DEF RevokeInv
  <2>. QED BY <2>1, <2>2
<1>5. CASE RegisterAnswered
  <2>1. UNCHANGED <<srv, late, losses>> /\ reg.pc = "answered"
    BY <1>5 DEF RegisterAnswered
  <2>2. CASE Current(reg.gen)
    <3>1. token' = reg.token /\ reg'.pc = "idle"
      BY <1>5, <2>2 DEF RegisterAnswered, NoReg
    <3>2. RegPast' /\ RegFresh' /\ RegStale' /\ AnswerKept'
      BY <3>1 DEF RegPast, RegFresh, RegStale, AnswerKept
    <3>3. ASSUME losses' = 0 PROVE late' = {} /\ StaleLeaves'
      <4>1. late = {} /\ AnswerKept /\ RegFresh
        BY <2>1, <3>3 DEF RevokeInv
      <4>. SUFFICES ASSUME srv # None, srv.open, ~open, reg.token = srv.token
                    PROVE  Leaving \/ Revoking
        BY <1>1, <1>2, <2>1, <3>1, <4>1 DEF StaleLeaves
      <4>2. srv.open = reg.open
        BY <2>1, <4>1 DEF AnswerKept
      <4>. QED BY <2>1, <2>2, <4>1, <4>2 DEF RegFresh
    <3>. QED BY <3>2, <3>3 DEF RevokeInv
  <2>3. CASE ~Current(reg.gen)
    <3>1. reg' = [reg EXCEPT !.pc = "undo"] /\ token' = token
      BY <1>5, <2>3 DEF RegisterAnswered
    <3>2. /\ reg'.pc = "undo" /\ reg'.gen = reg.gen /\ reg'.open = reg.open
      BY <1>1, <3>1 DEF Regs
    <3>. QED BY <1>1, <1>2, <2>1, <3>1, <3>2, RevokeFrame
  <2>. QED BY <2>2, <2>3
<1>6. CASE RegisterUndo
  <2>1. reg'.pc = "idle" /\ token' = token
    BY <1>6 DEF RegisterUndo, NoReg
  <2>2. losses' = 0 => losses = 0 /\ late' = late /\ srv' \in {srv, None}
    BY <1>6, UnregisterKeeps DEF RegisterUndo
  <2>. QED BY <1>1, <1>2, <2>1, <2>2, RevokeFrame
<1>. QED BY <1>3, <1>4, <1>5, <1>6, <1>7 DEF Registering

\* A revocation, and the call that throws the viewers out.
LEMMA RevokeDisconnecting ==
  ASSUME TypeOK, TypeOK', HostNext, HostInv, RevokeInv,
         NEW d \in Disconnects, Revoke(d) \/ Disconnecting(d)
  PROVE  RevokeInv'
<1>. /\ gen \in Nat /\ open \in BOOLEAN /\ reg \in Regs /\ disc \in [Disconnects -> Discs]
     /\ disc[d] \in Discs /\ token \in TokenOrNone
  BY DEF TypeOK
<1>1. CASE Revoke(d) \/ RevokePassword(d)
  <2>1. UNCHANGED <<hosting, gen, chain, token, reg, srv, late, losses>>
    BY <1>1 DEF Revoke, RevokePassword
  <2>2. PICK pc \in {"clearing", "revoked"} :
          disc' = [disc EXCEPT ![d] = [disc[d] EXCEPT !.pc = pc]]
    BY <1>1 DEF Revoke, RevokePassword
  <2>3. [disc[d] EXCEPT !.pc = pc].pc = pc /\ disc[d].pc \in {"idle", "clearing"}
    BY <1>1 DEF Discs, Revoke, RevokePassword
  <2>4. Revoking'
    <3>1. disc'[d].pc = pc
      BY <2>2, <2>3
    <3>. QED BY <3>1 DEF Revoking, Someone
  <2>5. Leaving => Leaving'
    <3>1. Someone({"unregister", "closing"}) => Someone({"unregister", "closing"})'
      BY <2>2, <2>3, DiscsStep
    <3>. QED BY <2>1, <3>1 DEF Leaving, StopPending
  <2>6. RegPast' /\ RegFresh' /\ RegStale'
    BY <2>1, <2>4, <2>5 DEF RevokeInv, RegPast, RegFresh, RegStale, Current
  <2>7. losses' = 0 => late' = {} /\ AnswerKept' /\ StaleLeaves'
    BY <2>1, <2>4 DEF RevokeInv, AnswerKept, StaleLeaves
  <2>. QED BY <2>6, <2>7 DEF RevokeInv
<1>2. CASE Disconnect(d)
  <2>1. /\ UNCHANGED <<hosting, chain, token, reg, open, srv, late, losses>>
        /\ disc[d].pc = "revoked"
    BY <1>2 DEF Disconnect
  <2>2. CASE hosting
    <3>1. gen' = gen + 1 /\ disc'[d].pc \in {"unregister", "closing"}
      BY <1>2, <2>2 DEF Disconnect, DiscCloses
    <3>2. Leaving'
      BY <3>1 DEF Leaving, Someone
    <3>3. reg.pc # "idle" => reg.gen \in Nat /\ reg.gen <= gen
      BY DEF RevokeInv, RegPast, Regs
    <3>4. RegPast' /\ RegFresh' /\ RegStale'
      BY <2>1, <3>1, <3>2, <3>3 DEF RegPast, RegFresh, RegStale, Current
    <3>5. losses' = 0 => late' = {} /\ AnswerKept' /\ StaleLeaves'
      BY <2>1, <3>2 DEF RevokeInv, AnswerKept, StaleLeaves
    <3>. QED BY <3>4, <3>5 DEF RevokeInv
  <2>3. CASE ~hosting
    <3>1. gen' = gen /\ disc' = [disc EXCEPT ![d] = DiscOver]
      BY <1>2, <2>3 DEF Disconnect
    <3>2. Someone({"unregister", "closing"}) => Someone({"unregister", "closing"})'
      BY <2>1, <3>1, DiscsStep
    <3>3. /\ StopPending' <=> StopPending
          /\ Leaving => Leaving'
      BY <2>1, <3>2 DEF Leaving, StopPending
    <3>4. RegPast' /\ RegFresh' /\ RegStale'
      BY <2>1, <2>3, <3>1, <3>3 DEF RevokeInv, RegPast, RegFresh, RegStale, Current
    <3>5. ASSUME losses' = 0 PROVE late' = {} /\ AnswerKept' /\ StaleLeaves'
      <4>1. late' = {} /\ AnswerKept'
        BY <2>1, <3>5 DEF RevokeInv, AnswerKept
      <4>2. ASSUME srv' # None, token' = srv'.token PROVE Leaving'
        <5>1. token # None
          BY <2>1, <4>2, HostParameters DEF TypeOK
        <5>. QED BY <2>3, <3>3, <5>1 DEF HostInv, StopFollows, Leaving
      <4>. QED BY <4>1, <4>2 DEF StaleLeaves
    <3>. QED BY <3>4, <3>5 DEF RevokeInv
  <2>. QED BY <2>2, <2>3
<1>3. CASE DiscUnregisters(d)
  <2>1. /\ UNCHANGED <<hosting, gen, open, token, reg>> /\ disc[d].pc = "unregister"
    BY <1>3 DEF DiscUnregisters
  <2>2. disc' = [disc EXCEPT ![d] = [pc |-> "closing", gen |-> disc[d].gen, token |-> None,
                                     sock |-> IF server = None THEN 0 ELSE 1]]
    BY <1>3 DEF DiscUnregisters, DiscCloses
  <2>3. disc'[d].pc = "closing"
    BY <2>2
  <2>4. Someone({"unregister", "closing"})'
    BY <2>3 DEF Someone
  <2>5. Revoking => Revoking'
    <3>1. \A e \in Disconnects : e # d => disc'[e] = disc[e]
      BY <2>2 DEF TypeOK
    <3>2. disc[d].pc \notin {"clearing", "revoked"}
      BY <2>1
    <3>. QED BY <3>1, <3>2 DEF Someone, Revoking
  <2>6. losses' = 0 => losses = 0 /\ late' = late /\ srv' \in {srv, None}
    BY <1>3, UnregisterKeeps DEF DiscUnregisters
  <2>. QED BY <2>1, <2>4, <2>5, <2>6, RevokeFrame
<1>4. CASE DiscClosed(d) \/ DiscLan(d)
  <2>1. /\ UNCHANGED <<hosting, gen, open, srv, late, losses>> /\ token' \in {token, None}
        /\ BeginRegistration \/ UNCHANGED reg \/ reg' = NoReg
    BY <1>4 DEF DiscClosed, DiscLan
  <2>2. CASE DiscClosed(d)
    <3>1. disc[d].pc = "closing" /\ token' = None
      BY <2>2 DEF DiscClosed
    <3>2. \/ disc' = [disc EXCEPT ![d] = DiscOver]
          \/ disc' = [disc EXCEPT ![d] = [disc[d] EXCEPT !.pc = "wait", !.sock = 0]]
      BY <2>2 DEF DiscClosed
    <3>3. Revoking => Revoking'
      BY <3>1, <3>2, DiscsStep DEF Revoking
    <3>. QED BY <2>1, <3>1, <3>3, BeginFollows, RevokeFrame
  <2>3. CASE DiscLan(d)
    <3>1. disc[d].pc = "wait" /\ (UNCHANGED disc \/ disc' = [disc EXCEPT ![d] = DiscOver])
      BY <2>3 DEF DiscLan, Woken
    <3>2. /\ Revoking => Revoking'
          /\ Someone({"unregister", "closing"}) => Someone({"unregister", "closing"})'
      <4>1. CASE UNCHANGED disc
        BY <4>1 DEF Someone, Revoking
      <4>2. CASE disc' = [disc EXCEPT ![d] = DiscOver]
        BY <3>1, <4>2, DiscsStep DEF Revoking
      <4>. QED BY <3>1, <4>1, <4>2
    <3>. QED BY <2>1, <3>2, BeginFollows, RevokeFrame
  <2>. QED BY <1>4, <2>2, <2>3
<1>. QED BY <1>1, <1>2, <1>3, <1>4 DEF Disconnecting

LEMMA RevokeStep ==
  TypeOK /\ TypeOK' /\ HostInv /\ RevokeInv /\ [HostNext]_hostVars => RevokeInv'
<1>. SUFFICES ASSUME TypeOK, TypeOK', HostInv, RevokeInv, [HostNext]_hostVars
              PROVE  RevokeInv'
  OBVIOUS
<1>1. CASE UNCHANGED hostVars
  BY <1>1 DEF hostVars, Revoking, RevokeInv, RegPast, RegFresh, RegStale, AnswerKept, StaleLeaves,
              Leaving, StopPending, Someone, Current
<1>2. CASE HostNext
  BY <1>2, RevokeUser, RevokeOthers, RevokeRegistering, RevokeDisconnecting DEF HostNext
<1>. QED BY <1>1, <1>2

\* The relay does not let in, under the host's token, who knows only a password that
\* was replaced, or a viewer who was taken off the host's list and not put on it again,
\* whatever registrations and switches overlap the revocation, as long as no request
\* was lost.
THEOREM Revoked == HostSpec => []RevokedStays
<1>1. Init => RevokeInv
  BY DEF Init, RevokeInv, RegPast, RegFresh, RegStale, AnswerKept, StaleLeaves, NoReg
<1>2. RevokeInv => RevokedStays
  <2>. SUFFICES ASSUME RevokeInv, losses = 0, Quiet, srv # None, token = srv.token,
                       srv.open, ~open
                PROVE  FALSE
    BY DEF RevokedStays
  <2>1. ~Leaving /\ ~Revoking
    BY DEF Quiet, Leaving, Revoking, StopPending, Someone
  <2>. QED BY <2>1 DEF RevokeInv, StaleLeaves
<1>. QED BY <1>1, <1>2, RevokeStep, TypeCorrect, Followed, PTL DEF HostSpec

=============================================================================
