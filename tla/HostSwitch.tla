----------------------------- MODULE HostSwitch -----------------------------
(***************************************************************************)
(* The desktop host (DesktopHostProvider): switching hosting on and off,   *)
(* throwing viewers out, the LAN listener and the registration at the      *)
(* relay.  Dart runs one task at a time, and a task lets others run where  *)
(* it awaits: a step of the model is what runs between two awaits.  The    *)
(* user's calls, the timers and the calls that are still awaited overlap.  *)
(***************************************************************************)
EXTENDS Integers, Sequences, FiniteSets

CONSTANTS
  Disconnects,   \* calls of revokeAccessAndDisconnect
  Tokens,        \* host tokens; a new one is one that nobody remembers
  None

CONSTANTS        \* bounds of the model
  MaxGen,        \* calls that change the generation
  MaxLosses      \* requests that fail, binds that fail, restarts of the relay,
                 \* for each way

\* How a viewer that is thrown out could get in again: by the password it knows, or
\* because the host trusts it.
Ways == {"none", "password", "trust"}

ASSUME HostParameters ==
  /\ MaxGen \in Nat /\ MaxLosses \in [Ways -> Nat]
  /\ None \notin Tokens /\ None \notin Nat
  /\ None \notin [token : Tokens, open : BOOLEAN]
  /\ IsFiniteSet(Disconnects)

VARIABLES
  hosting,       \* _hostingEnabled
  gen,           \* _hostGeneration
  chain,         \* _hostTransition: the transitions not completed, in order
  running,       \* DesktopHostService._isRunning
  token,         \* _relayHostToken
  server,        \* _lanRelayServer: the generation its handler belongs to
  lan,           \* _lanRelayStarting: the attempt that callers share
  sockets,       \* listening sockets of the process
  disc,          \* disconnectCurrentViewer, for each call
  maint,         \* _maintainHostAvailability
  reg,           \* _registerPreviewHost (_relayRegisterBusy)
  way,           \* the way of the viewer that is looked at
  open,          \* it is open: the password is in force, the viewer on the list of
                 \* trusted ones
  srv,           \* the relay's registration of this device
  late,          \* requests the host gave up that may still reach the relay
  losses

hostVars == <<way, hosting, gen, chain, running, token, server, lan, sockets, disc, maint, reg, open, srv, late, losses>>

-----------------------------------------------------------------------------
Current(g) == hosting /\ g = gen

Idle == [pc |-> "idle", gen |-> 0]
NoReg == [pc |-> "idle", gen |-> 0, token |-> None, open |-> FALSE]
NoDisc == [pc |-> "idle", gen |-> 0, token |-> None, sock |-> 0]
DiscOver == [pc |-> "over", gen |-> 0, token |-> None, sock |-> 0]
Transition(kind) == [kind |-> kind, pc |-> "queued", gen |-> gen', token |-> None, sock |-> 0]

Init ==
  /\ hosting = FALSE /\ gen = 0 /\ chain = <<>> /\ running = FALSE
  /\ token = None /\ server = None /\ lan = Idle /\ sockets = 0
  /\ disc = [d \in Disconnects |-> NoDisc] /\ maint = Idle /\ reg = NoReg
  /\ way \in Ways /\ open = (way # "none") /\ srv = None /\ late = {} /\ losses = 0

-----------------------------------------------------------------------------
(* The relay's side of a registration *)

Remembered ==
  {token, reg.token} \cup {disc[d].token : d \in Disconnects}
    \cup {chain[i].token : i \in 1 .. Len(chain)} \cup {m.token : m \in late}
    \cup (IF srv = None THEN {} ELSE {srv.token})

\* new_token.
NewToken == CHOOSE t \in Tokens : t \notin Remembered

\* register_preview: t is the token in the answer.  The owner's account may
\* take the place of the token.
Registered(c, t) ==
  /\ IF srv = None THEN Tokens \ Remembered # {} /\ t = NewToken ELSE t = srv.token
  /\ srv' = [token |-> t, open |-> c]

\* unregister_preview.
Unregistered(t) == srv' = IF srv # None /\ srv.token = t THEN None ELSE srv

\* A call fails for the host, and its request may be on its way still.
Lose(m) ==
  /\ losses < MaxLosses[way] /\ losses' = losses + 1
  /\ late' \in {late, late \cup {m}}
  /\ UNCHANGED srv

Unregister(t) ==
  \/ Unregistered(t) /\ UNCHANGED <<late, losses>>
  \/ Lose([op |-> "unregister", token |-> t, open |-> FALSE])

LateArrives ==
  /\ \E m \in late :
       /\ late' = late \ {m}
       /\ \/ m.op = "unregister" /\ Unregistered(m.token)
          \/ m.op = "register" /\ \E t \in Tokens : Registered(m.open, t)
          \/ UNCHANGED srv
  /\ UNCHANGED <<way, hosting, gen, chain, running, token, server, lan, sockets, disc, maint, reg, open, losses>>

\* cleanup_expired, for a registration that was not renewed for PREVIEW_TTL_MS.
\* A heartbeat with its token renews it in time, and the host has the answer to a
\* renewal, and has dealt with it, long before that.
Expire ==
  /\ srv # None /\ (token # srv.token \/ ~hosting) /\ reg.pc \notin {"answered", "undo"}
  /\ srv' = None
  /\ UNCHANGED <<way, hosting, gen, chain, running, token, server, lan, sockets, disc, maint, reg, open, late, losses>>

\* The relay restarts with no registration.
Restart ==
  /\ srv # None /\ losses < MaxLosses[way]
  /\ srv' = None /\ losses' = losses + 1
  /\ UNCHANGED <<way, hosting, gen, chain, running, token, server, lan, sockets, disc, maint, reg, open, late>>

-----------------------------------------------------------------------------
(* _registerPreviewHost: by the heartbeat, a LAN viewer, a frame without token *)

BeginRegistration ==
  reg' = IF hosting /\ reg.pc = "idle"
         THEN [pc |-> "local", gen |-> gen, token |-> None, open |-> open] ELSE reg

\* Mutant: only a registration that is known is renewed.
HeartbeatRenews ==
  /\ hosting /\ reg.pc = "idle" /\ token # None
  /\ BeginRegistration
  /\ UNCHANGED <<way, hosting, gen, chain, running, token, server, lan, sockets, disc, maint, open, srv, late, losses>>

Heartbeat ==
  /\ hosting /\ reg.pc = "idle"
  /\ BeginRegistration
  /\ UNCHANGED <<way, hosting, gen, chain, running, token, server, lan, sockets, disc, maint, open, srv, late, losses>>

\* The password has been read before, the trusted viewers are now, and the account
\* after them.
RegisterRead ==
  /\ reg.pc = "local"
  /\ reg' = [reg EXCEPT !.pc = "read", !.open = IF way = "trust" THEN open ELSE @]
  /\ UNCHANGED <<way, hosting, gen, chain, running, token, server, lan, sockets, disc, maint, open, srv, late, losses>>

RegisterSend ==
  /\ reg.pc = "read"
  /\ reg' = IF Current(reg.gen) THEN [reg EXCEPT !.pc = "sent", !.token = token] ELSE NoReg
  /\ UNCHANGED <<way, hosting, gen, chain, running, token, server, lan, sockets, disc, maint, open, srv, late, losses>>

\* The relay answers, refuses (reg ends with an error), or the call fails.
RegisterServe ==
  /\ reg.pc = "sent"
  /\ \/ /\ \E t \in Tokens :
             /\ Registered(reg.open, t)
             /\ reg' = [reg EXCEPT !.pc = "answered", !.token = t]
        /\ UNCHANGED <<late, losses>>
     \/ /\ srv # None /\ reg.token # srv.token
        /\ reg' = NoReg /\ UNCHANGED <<srv, late, losses>>
     \/ /\ Lose([op |-> "register", token |-> reg.token, open |-> reg.open])
        /\ reg' = NoReg
  /\ UNCHANGED <<way, hosting, gen, chain, running, token, server, lan, sockets, disc, maint, open>>

\* Mutant: an answer for an earlier generation is taken.
RegisterAnsweredAny ==
  /\ reg.pc = "answered"
  /\ token' = reg.token /\ reg' = NoReg
  /\ UNCHANGED <<way, hosting, gen, chain, running, server, lan, sockets, disc, maint, open, srv, late, losses>>

RegisterAnswered ==
  /\ reg.pc = "answered"
  /\ IF Current(reg.gen)
     THEN token' = reg.token /\ reg' = NoReg
     ELSE reg' = [reg EXCEPT !.pc = "undo"] /\ UNCHANGED token
  /\ UNCHANGED <<way, hosting, gen, chain, running, server, lan, sockets, disc, maint, open, srv, late, losses>>

RegisterUndo ==
  /\ reg.pc = "undo" /\ reg' = NoReg
  /\ Unregister(reg.token)
  /\ UNCHANGED <<way, hosting, gen, chain, running, token, server, lan, sockets, disc, maint, open>>

-----------------------------------------------------------------------------
(* _ensureLanRelay: a task that needs the listener waits for the attempt that *)
(* is under way, or begins one, and looks again when it has ended.             *)

At(kind, pc) == chain # <<>> /\ Head(chain).kind = kind /\ Head(chain).pc = pc
NeedLan == hosting /\ server = None
JoinLan == lan' = IF lan.pc = "idle" THEN [pc |-> "bind", gen |-> gen] ELSE lan
Woken(pc) == pc = "wait" /\ lan.pc = "idle"

\* _startLanRelay: HttpServer.bind has returned.
LanBound ==
  /\ lan.pc = "bind"
  /\ sockets' = sockets + 1
  /\ IF Current(lan.gen)
     THEN server' = lan.gen /\ lan' = [lan EXCEPT !.pc = "lookup"]
     ELSE lan' = [lan EXCEPT !.pc = "close"] /\ UNCHANGED server
  /\ UNCHANGED <<way, hosting, gen, chain, running, token, disc, maint, reg, open, srv, late, losses>>

\* No port could be bound: the callers get the error.  It ends a disconnect; the
\* others go on to register.
LanFails ==
  /\ lan.pc = "bind" /\ losses < MaxLosses[way]
  /\ lan' = Idle /\ losses' = losses + 1
  /\ disc' = [d \in Disconnects |-> IF disc[d].pc = "wait" THEN DiscOver ELSE disc[d]]
  /\ maint' = Idle /\ chain' = IF At("start", "wait") THEN Tail(chain) ELSE chain
  /\ IF \/ At("start", "wait") /\ Current(Head(chain).gen)
        \/ maint.pc = "wait" /\ Current(maint.gen) /\ token = None
     THEN BeginRegistration ELSE UNCHANGED reg
  /\ UNCHANGED <<way, hosting, gen, running, token, server, sockets, open, srv, late>>

\* The local address is known.
LanLookedUp ==
  /\ lan.pc = "lookup"
  /\ IF Current(lan.gen) THEN lan' = Idle /\ UNCHANGED server
     ELSE /\ lan' = IF server = None THEN Idle ELSE [lan EXCEPT !.pc = "close"]
          /\ server' = None
  /\ UNCHANGED <<way, hosting, gen, chain, running, token, sockets, disc, maint, reg, open, srv, late, losses>>

LanClosed ==
  /\ lan.pc = "close"
  /\ lan' = Idle /\ sockets' = sockets - 1
  /\ UNCHANGED <<way, hosting, gen, chain, running, token, server, disc, maint, reg, open, srv, late, losses>>

-----------------------------------------------------------------------------
(* startHosting and stopHosting *)

StartHosting ==
  /\ ~hosting /\ gen < MaxGen
  /\ hosting' = TRUE /\ gen' = gen + 1
  /\ chain' = Append(chain, Transition("start"))
  /\ UNCHANGED <<way, running, token, server, lan, sockets, disc, maint, reg, open, srv, late, losses>>

\* Bound: what was never switched on is not switched off.
StopHosting ==
  /\ 0 < gen /\ gen < MaxGen
  /\ hosting' = FALSE /\ gen' = gen + 1
  /\ chain' = Append(chain, Transition("stop"))
  /\ UNCHANGED <<way, running, token, server, lan, sockets, disc, maint, reg, open, srv, late, losses>>

Goto(pc) == chain' = [chain EXCEPT ![1].pc = pc]

StartBegins ==
  /\ At("start", "queued")
  /\ IF Current(Head(chain).gen) THEN running' = TRUE /\ Goto("service")
     ELSE chain' = Tail(chain) /\ UNCHANGED running
  /\ UNCHANGED <<way, hosting, gen, token, server, lan, sockets, disc, maint, reg, open, srv, late, losses>>

\* The task of startHosting is over: it registers, if hosting is still its own.
StartEnds ==
  /\ chain' = Tail(chain)
  /\ IF Current(Head(chain).gen) THEN BeginRegistration ELSE UNCHANGED reg

StartServed ==
  /\ At("start", "service")
  /\ IF Current(Head(chain).gen) /\ NeedLan
     THEN Goto("wait") /\ JoinLan /\ UNCHANGED reg
     ELSE StartEnds /\ UNCHANGED lan
  /\ UNCHANGED <<way, hosting, gen, running, token, server, sockets, disc, maint, open, srv, late, losses>>

StartLan ==
  /\ At("start", "wait") /\ Woken("wait")
  /\ IF NeedLan THEN JoinLan /\ UNCHANGED <<chain, reg>> ELSE StartEnds /\ UNCHANGED lan
  /\ UNCHANGED <<way, hosting, gen, running, token, server, sockets, disc, maint, open, srv, late, losses>>

StopBegins ==
  /\ At("stop", "queued")
  /\ running' = FALSE /\ Goto("service")
  /\ UNCHANGED <<way, hosting, gen, token, server, lan, sockets, disc, maint, reg, open, srv, late, losses>>

\* Mutant: the listener is kept when hosting is on again.
StopServedKeeps ==
  /\ At("stop", "service")
  /\ chain' = [chain EXCEPT ![1].pc = "closing", ![1].token = token,
                            ![1].sock = IF server = None \/ hosting THEN 0 ELSE 1]
  /\ token' = None /\ server' = IF hosting THEN server ELSE None
  /\ UNCHANGED <<way, hosting, gen, running, lan, sockets, disc, maint, reg, open, srv, late, losses>>

\* The token is taken and the listener; its socket closes a little later.
StopServed ==
  /\ At("stop", "service")
  /\ chain' = [chain EXCEPT ![1].pc = "closing", ![1].token = token,
                            ![1].sock = IF server = None THEN 0 ELSE 1]
  /\ token' = None /\ server' = None
  /\ UNCHANGED <<way, hosting, gen, running, lan, sockets, disc, maint, reg, open, srv, late, losses>>

StopClosed ==
  /\ At("stop", "closing")
  /\ sockets' = sockets - Head(chain).sock
  /\ IF Head(chain).token = None THEN chain' = Tail(chain) ELSE Goto("unregister")
  /\ UNCHANGED <<way, hosting, gen, running, token, server, lan, disc, maint, reg, open, srv, late, losses>>

StopUnregisters ==
  /\ At("stop", "unregister")
  /\ Unregister(Head(chain).token)
  /\ chain' = Tail(chain)
  /\ UNCHANGED <<way, hosting, gen, running, token, server, lan, sockets, disc, maint, reg, open>>

-----------------------------------------------------------------------------
(* revokeAccessAndDisconnect *)

\* clearTrustedIncomingViewers.
Revoke(d) ==
  /\ disc[d].pc = "idle"
  /\ open' = (open /\ way # "trust")
  /\ disc' = [disc EXCEPT ![d].pc = "clearing"]
  /\ UNCHANGED <<way, hosting, gen, chain, running, token, server, lan, sockets, maint, reg, srv, late, losses>>

\* Later the password is replaced, unless it is a permanent one.
RevokePassword(d) ==
  /\ disc[d].pc = "clearing"
  /\ open' \in {open, open /\ way # "password"}
  /\ disc' = [disc EXCEPT ![d].pc = "revoked"]
  /\ UNCHANGED <<way, hosting, gen, chain, running, token, server, lan, sockets, maint, reg, srv, late, losses>>

\* trustIncomingViewer: /session/trust with a password that was right when it was
\* looked at, or the relay's command, puts the viewer on the list, whatever was
\* revoked or switched meanwhile.  Its _registerPreviewHost is a Heartbeat.
Trust ==
  /\ 0 < gen /\ way = "trust" /\ ~open
  /\ open' = TRUE
  /\ UNCHANGED <<way, hosting, gen, chain, running, token, server, lan, sockets, disc, maint, reg, srv, late, losses>>

DiscCloses(d, g) ==
  /\ disc' = [disc EXCEPT ![d] = [pc |-> "closing", gen |-> g, token |-> None,
                                  sock |-> IF server = None THEN 0 ELSE 1]]
  /\ server' = None

\* disconnectCurrentViewer.  With no token to unregister it goes straight on to
\* close the listener, whose socket closes a little later.
Disconnect(d) ==
  /\ disc[d].pc = "revoked"
  /\ IF hosting
     THEN /\ gen < MaxGen /\ gen' = gen + 1
          /\ IF token = None THEN DiscCloses(d, gen')
             ELSE /\ disc' = [disc EXCEPT ![d] =
                       [pc |-> "unregister", gen |-> gen', token |-> token, sock |-> 0]]
                  /\ UNCHANGED server
     ELSE disc' = [disc EXCEPT ![d] = DiscOver] /\ UNCHANGED <<gen, server>>
  /\ UNCHANGED <<way, hosting, chain, running, token, lan, sockets, maint, reg, open, srv, late, losses>>

DiscUnregisters(d) ==
  /\ disc[d].pc = "unregister"
  /\ Unregister(disc[d].token)
  /\ DiscCloses(d, disc[d].gen)
  /\ UNCHANGED <<way, hosting, gen, chain, running, token, lan, sockets, maint, reg, open>>

\* Only now the token is forgotten, whichever it is by then.
DiscClosed(d) ==
  /\ disc[d].pc = "closing"
  /\ sockets' = sockets - disc[d].sock /\ token' = None
  /\ IF Current(disc[d].gen) /\ NeedLan
     THEN disc' = [disc EXCEPT ![d].pc = "wait", ![d].sock = 0] /\ JoinLan /\ UNCHANGED reg
     ELSE /\ disc' = [disc EXCEPT ![d] = DiscOver] /\ UNCHANGED lan
          /\ IF Current(disc[d].gen)
             THEN BeginRegistration ELSE UNCHANGED reg
  /\ UNCHANGED <<way, hosting, gen, chain, running, server, maint, open, srv, late, losses>>

DiscLan(d) ==
  /\ Woken(disc[d].pc)
  /\ IF NeedLan THEN JoinLan /\ UNCHANGED <<disc, reg>>
     ELSE disc' = [disc EXCEPT ![d] = DiscOver] /\ BeginRegistration /\ UNCHANGED lan
  /\ UNCHANGED <<way, hosting, gen, chain, running, token, server, sockets, maint, open, srv, late, losses>>

-----------------------------------------------------------------------------
(* _maintainHostAvailability.  _busy does not hold it back: refresh, which the *)
(* interface calls at any time, clears it.                                     *)

\* With a listener it only registers if there is no token: a Heartbeat.
Maintain ==
  /\ NeedLan /\ maint.pc = "idle"
  /\ maint' = [pc |-> "wait", gen |-> gen] /\ JoinLan
  /\ UNCHANGED <<way, hosting, gen, chain, running, token, server, sockets, disc, reg, open, srv, late, losses>>

MaintainLan ==
  /\ Woken(maint.pc)
  /\ IF NeedLan THEN JoinLan /\ UNCHANGED <<maint, reg>>
     ELSE /\ maint' = Idle /\ UNCHANGED lan
          /\ IF Current(maint.gen) /\ token = None THEN BeginRegistration ELSE UNCHANGED reg
  /\ UNCHANGED <<way, hosting, gen, chain, running, token, server, sockets, disc, open, srv, late, losses>>

-----------------------------------------------------------------------------
Registering == RegisterRead \/ RegisterSend \/ RegisterServe \/ RegisterAnswered \/ RegisterUndo
Listening == LanBound \/ LanFails \/ LanLookedUp \/ LanClosed
Switching ==
  \/ StartBegins \/ StartServed \/ StartLan
  \/ StopBegins \/ StopServed \/ StopClosed \/ StopUnregisters
Disconnecting(d) ==
  \/ RevokePassword(d) \/ Disconnect(d) \/ DiscUnregisters(d) \/ DiscClosed(d) \/ DiscLan(d)
Maintaining == Maintain \/ MaintainLan
Relay == LateArrives \/ Expire \/ Restart

HostNext ==
  \/ StartHosting \/ StopHosting \/ Heartbeat \/ Trust
  \/ Registering \/ Listening \/ Switching \/ Maintaining \/ Relay
  \/ \E d \in Disconnects : Revoke(d) \/ Disconnecting(d)

HostSpec == Init /\ [][HostNext]_hostVars

\* Tasks go on, timers fire, and a registration nobody renews is removed.
\* Nothing is asked of the user or the network.
FairHostSpec ==
  /\ HostSpec
  /\ WF_hostVars(Heartbeat) /\ WF_hostVars(Registering) /\ WF_hostVars(Listening)
  /\ WF_hostVars(Switching) /\ WF_hostVars(Maintaining) /\ WF_hostVars(Expire)
  /\ \A d \in Disconnects : WF_hostVars(Disconnecting(d))

-----------------------------------------------------------------------------
TokenOrNone == Tokens \cup {None}
Transitions == [kind : {"start", "stop"},
                pc : {"queued", "service", "wait", "closing", "unregister"},
                gen : Nat, token : TokenOrNone, sock : {0, 1}]
Discs == [pc : {"idle", "clearing", "revoked", "unregister", "closing", "wait", "over"},
          gen : Nat, token : TokenOrNone, sock : {0, 1}]
Regs == [pc : {"idle", "local", "read", "sent", "answered", "undo"},
         gen : Nat, token : TokenOrNone, open : BOOLEAN]
Requests == [op : {"register", "unregister"}, token : TokenOrNone, open : BOOLEAN]

TypeOK ==
  /\ hosting \in BOOLEAN /\ running \in BOOLEAN /\ gen \in Nat
  /\ way \in Ways /\ open \in BOOLEAN
  /\ chain \in Seq(Transitions) /\ disc \in [Disconnects -> Discs] /\ reg \in Regs
  /\ token \in TokenOrNone /\ server \in Nat \cup {None} /\ sockets \in Int
  /\ lan \in [pc : {"idle", "bind", "lookup", "close"}, gen : Nat]
  /\ maint \in [pc : {"idle", "wait"}, gen : Nat]
  /\ srv \in [token : Tokens, open : BOOLEAN] \cup {None}
  /\ late \subseteq Requests /\ losses \in Nat

\* No call of the host is under way.
Quiet ==
  /\ chain = <<>> /\ lan.pc = "idle" /\ reg.pc = "idle" /\ maint.pc = "idle"
  /\ \A d \in Disconnects : disc[d].pc \in {"idle", "over"}

\* Hosting that is off has left nothing behind, however the calls overlapped: no
\* listening socket, no token, no running service (_ensureLanRelay: a second server
\* would replace the first and the first would stay open after hosting is off).
StoppedIsStopped ==
  ~hosting /\ Quiet => sockets = 0 /\ server = None /\ token = None /\ ~running

\* A listener that stays answers the hosting of today: one left from an earlier
\* generation would refuse every request while _maintainHostAvailability takes it
\* for a working one.
ListenerCurrent ==
  hosting /\ Quiet => server \in {None, gen} /\ sockets = IF server = None THEN 0 ELSE 1

\* The registration in use lets nobody in whom the host has shut out: no password
\* that was replaced and no viewer who was taken off the list, though a registration
\* with them was under way (revokeAccessAndDisconnect).  Who is trusted again while
\* the revocation is in progress is on the host's list again: this the code does not
\* prevent.
RevokedStays ==
  losses = 0 /\ Quiet /\ srv # None /\ token = srv.token => (srv.open => open)

\* Hosting that stays on is reachable in the end, over the LAN and by the relay, and
\* hosting that stays off is gone from the relay, whatever was lost and whichever
\* calls overlapped (_maintainHostAvailability, the heartbeat, the relay's cleanup).
HostingSettles ==
  /\ <>[]hosting => <>[](server = gen /\ srv # None /\ token = srv.token)
  /\ <>[]~hosting => <>[](sockets = 0 /\ token = None /\ srv = None)

\* With all its calls in progress the host does what HostSession says: nothing of an
\* earlier hosting, and no late answer, gives it a token or starts its service while
\* hosting is off.
Session == INSTANCE HostSession WITH srv <- IF srv = None THEN None ELSE srv.token
ImplementsSession == Session!Spec
=============================================================================
