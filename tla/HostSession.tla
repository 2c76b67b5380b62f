---------------------------- MODULE HostSession ----------------------------
(***************************************************************************)
(* What the rest of the desktop host may rely on, and no more: hosting is  *)
(* on or off as the user said last; the service begins, and a token is     *)
(* learned, only while it is on; a token may be forgotten, and the relay   *)
(* may lose the registration, at any time.                                 *)
(* HostSwitch, with all its calls in progress, implements this; the        *)
(* capture of the screen (CaptureHost) is built on it.                     *)
(***************************************************************************)
CONSTANTS
  Tokens,        \* host tokens
  None

VARIABLES
  hosting,       \* _hostingEnabled
  running,       \* DesktopHostService._isRunning
  token,         \* _relayHostToken
  srv            \* the token of the relay's registration of this device

sessionVars == <<hosting, running, token, srv>>

Init ==
  /\ hosting = FALSE /\ running = FALSE /\ token = None /\ srv = None

\* Hosting is switched on or off, or goes on for new viewers.
Switch(on) ==
  /\ hosting' = on
  /\ UNCHANGED <<running, token, srv>>

\* The service follows the intent, and begins only for hosting that is on.
Serve ==
  /\ ~running /\ hosting
  /\ running' = TRUE
  /\ UNCHANGED <<hosting, token, srv>>
Rest ==
  /\ running' = FALSE
  /\ UNCHANGED <<hosting, token, srv>>

LearnToken(t) ==
  /\ hosting /\ token' = t
  /\ UNCHANGED <<hosting, running, srv>>
ForgetToken ==
  /\ token' = None
  /\ UNCHANGED <<hosting, running, srv>>

\* The relay makes tokens that were not used before.
Register(t) ==
  /\ srv = None /\ t # token /\ srv' = t
  /\ UNCHANGED <<hosting, running, token>>
Unregister ==
  /\ srv' = None
  /\ UNCHANGED <<hosting, running, token>>

Next ==
  \/ \E on \in BOOLEAN : Switch(on)
  \/ Serve \/ Rest \/ ForgetToken \/ Unregister
  \/ \E t \in Tokens : LearnToken(t) \/ Register(t)

Spec == Init /\ [][Next]_sessionVars
=============================================================================
