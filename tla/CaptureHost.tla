---------------------------- MODULE CaptureHost ----------------------------
(***************************************************************************)
(* The screen of the desktop host (DesktopHostProvider and                 *)
(* DesktopHostService): the polls of the relay's demand, the leases of     *)
(* viewers on the relay and on the LAN, the capture they switch on, the    *)
(* pictures and their upload.  Hosting comes and goes as HostSession says; *)
(* the relay's side is that of ScreenRelay, one step for each request.     *)
(*                                                                         *)
(* A counter that is only compared with a remembered value appears as a    *)
(* flag of what remembers it, which falls when the counter moves: "now" or *)
(* "old" for the generation of a call and, as a ghost, for the audience    *)
(* that a picture was taken for.                                           *)
(***************************************************************************)
EXTENDS HostSession, Naturals

CONSTANTS
  Lease,         \* SCREEN_LEASE_MS and screenLeaseMs, in ticks
  MaxEpoch       \* bound of the model: audiences, and one after a restart

ASSUME CaptureParameters ==
  /\ Lease \in Nat \ {0} /\ MaxEpoch \in Nat
  /\ None \notin Tokens \cup {"now", "old"}

VARIABLES
  \* the relay
  epoch,         \* ScreenDemand.epoch
  viewing,       \* what is left of the longest lease of ScreenDemand.viewers
  shown,         \* frames[device]: its audience
  restarted,     \* ghost: the relay has begun its epochs anew
  \* demand
  poll,          \* _pollScreenDemand in progress (_relayDemandBusy)
  known,         \* _relayCaptureEpoch
  told,          \* ghost: the audience of the last answer that was taken
  until,         \* what is left of _relayLeaseUntil; 0 with no viewers
  granted,       \* ghost: what the relay told this hosting of, less the time since
  lanLease,      \* what is left of the longest of _lanScreenLeases
  lanSession,    \* _lanSessionTokens, if any: the hosting they were issued for
  trust,         \* /session/trust in progress, if any: its hosting
  \* capture
  cap,           \* _previewTimer, _captureEnabled of the service, whether there
                 \* are a _previewFrame and a _frameUpload, its cached picture
  shot           \* _pollPreviewFrame in progress (_captureInFlight)

relayVars == <<epoch, viewing, shown, restarted>>
demandVars == <<poll, known, told, until, granted>>
lanVars == <<lanLease, lanSession, trust>>
captureVars == <<cap, shot>>
vars == <<sessionVars, relayVars, demandVars, lanVars, captureVars>>

-----------------------------------------------------------------------------
Age == {"now", "old"}
Aged(x) == IF x = "now" THEN "old" ELSE x

NoPoll == [pc |-> "idle", host |-> "old", token |-> None, age |-> 0,
           epoch |-> 0, left |-> 0, audience |-> "old"]
\* live and valid: both capture generations are those of the picture being taken;
\* going: the upload was not cancelled.
NoShot == [pc |-> "idle", live |-> FALSE, valid |-> FALSE, going |-> FALSE,
           audience |-> "old", token |-> None, epoch |-> 0]
Dark == [timer |-> FALSE, on |-> FALSE, frame |-> FALSE, upload |-> FALSE, cache |-> None]

CaptureInit ==
  /\ Init
  /\ epoch = 0 /\ viewing = 0 /\ shown = None /\ restarted = FALSE
  /\ poll = NoPoll /\ known = 0 /\ told = "old" /\ until = 0 /\ granted = 0
  /\ lanLease = 0 /\ lanSession = None /\ trust = None
  /\ cap = Dark /\ shot = NoShot

-----------------------------------------------------------------------------
(* _stopCapture and _syncCaptureDemand, on the capture state s. *)

State == [cap |-> cap, shot |-> shot]
Becomes(s) == cap' = s.cap /\ shot' = s.shot

\* DesktopHostService.stopCapture.
ServiceStopped(s) ==
  [s EXCEPT !.shot.valid = FALSE, !.cap.on = FALSE, !.cap.cache = None]

Cancelled(s) == [s EXCEPT !.shot.going = FALSE]

StopCapture(s) ==
  [Cancelled(ServiceStopped(s)) EXCEPT !.shot.live = FALSE, !.cap = Dark]

\* A RelayFrameUpload exists as long as a relay viewer is left.
UploadSynced(s, relay) ==
  IF relay THEN [s EXCEPT !.cap.upload = TRUE]
  ELSE [Cancelled(s) EXCEPT !.cap.upload = FALSE]

\* _ensurePreviewPolling: the service starts unless it rests or runs already.
EnsurePreviewPolling(s, relay) ==
  [Cancelled(s) EXCEPT !.shot.live = FALSE, !.cap.timer = TRUE,
                       !.cap.upload = relay, !.cap.on = @ \/ running]

\* With lanLease l and a relay lease u.
SyncCaptureDemand(s, l, u) ==
  LET r == UploadSynced(s, u > 0)
      c == r.cap
  IN  IF l = 0 /\ u = 0
      THEN IF c.timer \/ c.on \/ c.frame THEN StopCapture(r) ELSE r
      ELSE IF ~c.timer \/ ~c.on THEN EnsurePreviewPolling(r, u > 0) ELSE r

NeedsCapture == hosting /\ (lanLease > 0 \/ until > 0)

-----------------------------------------------------------------------------
(* Hosting *)

\* Mutant: the upload stops, and the capture goes on.
StopDemandPollingRelay ==
  /\ until' = 0 /\ lanLease' = 0 /\ lanSession' = None
  /\ Becomes(UploadSynced(State, FALSE))

StopDemandPolling ==
  /\ until' = 0 /\ lanLease' = 0 /\ lanSession' = None
  /\ Becomes(StopCapture(State))

\* startHosting, stopHosting, disconnectCurrentViewer: the generation moves on.
SwitchHosting(on) ==
  /\ Switch(on)
  /\ poll' = [poll EXCEPT !.host = Aged(@)] /\ trust' = Aged(trust) /\ granted' = 0
  /\ IF on /\ ~hosting THEN UNCHANGED <<until, lanLease, lanSession, captureVars>>
     ELSE StopDemandPolling
  /\ UNCHANGED <<relayVars, known, told>>

ServeHosting == Serve /\ UNCHANGED <<relayVars, demandVars, lanVars, captureVars>>

\* DesktopHostService.stopHosting.
RestHosting ==
  /\ Rest /\ Becomes(ServiceStopped(State))
  /\ UNCHANGED <<relayVars, demandVars, lanVars>>

TokenChanges ==
  /\ \/ ForgetToken
     \/ \E t \in Tokens : LearnToken(t)
  /\ UNCHANGED <<relayVars, demandVars, lanVars, captureVars>>

RegisterHost ==
  /\ \E t \in Tokens \ {poll.token, shot.token} : Register(t)
  /\ UNCHANGED <<relayVars, demandVars, lanVars, captureVars>>

\* remove_preview_state.
NobodyViews == viewing' = 0 /\ shown' = None
UnregisterHost ==
  /\ srv # None /\ Unregister /\ NobodyViews
  /\ UNCHANGED <<epoch, restarted, demandVars, lanVars, captureVars>>

\* The relay forgets everything, its epochs too; bound: once.
RestartRelay ==
  /\ srv # None /\ ~restarted /\ Unregister /\ NobodyViews
  /\ epoch' = 0 /\ restarted' = TRUE
  /\ UNCHANGED <<demandVars, lanVars, captureVars>>

-----------------------------------------------------------------------------
(* Viewers on the relay *)

\* What was taken or told for the audience until now is for an old one.
NewAudience ==
  /\ told' = Aged(told) /\ poll' = [poll EXCEPT !.audience = Aged(@)]
  /\ shot' = [shot EXCEPT !.audience = Aged(@)] /\ cap' = [cap EXCEPT !.cache = Aged(@)]

\* renew_screen_lease.
Look ==
  /\ srv # None /\ viewing' = Lease
  /\ IF viewing > 0 THEN UNCHANGED <<epoch, shown, told, poll, captureVars>>
     ELSE /\ epoch < IF restarted THEN 1 ELSE MaxEpoch
          /\ epoch' = epoch + 1 /\ shown' = None /\ NewAudience
  /\ UNCHANGED <<restarted, sessionVars, known, until, granted, lanVars>>

Leave ==
  /\ viewing > 0 /\ NobodyViews
  /\ UNCHANGED <<epoch, restarted, sessionVars, demandVars, lanVars, captureVars>>

-----------------------------------------------------------------------------
(* _pollScreenDemand *)

PollDemand ==
  /\ hosting /\ poll.pc = "idle" /\ token # None
  /\ poll' = [NoPoll EXCEPT !.pc = "sent", !.host = "now", !.token = token]
  /\ UNCHANGED <<sessionVars, relayVars, known, told, until, granted, lanVars, captureVars>>

\* host_screen_demand.
PollServe ==
  /\ poll.pc = "sent" /\ srv = poll.token
  /\ poll' = [poll EXCEPT !.pc = "answered", !.epoch = epoch, !.left = viewing, !.audience = "now"]
  /\ granted' = IF poll.host = "now" /\ viewing > granted THEN viewing ELSE granted
  /\ UNCHANGED <<sessionVars, relayVars, known, told, until, lanVars, captureVars>>

\* Refused, lost, or too late: the last lease is kept until it ends.
PollFails ==
  /\ poll.pc # "idle" /\ poll' = NoPoll
  /\ IF hosting /\ poll.host = "now" THEN Becomes(SyncCaptureDemand(State, lanLease, until))
     ELSE UNCHANGED captureVars
  /\ UNCHANGED <<sessionVars, relayVars, known, told, until, granted, lanVars>>

\* Mutant: the epoch is noted, and the capture goes on.
ForAudienceAny == State

\* A new audience must never receive a frame captured for an old one.
ForAudience == IF known # poll.epoch THEN StopCapture(State) ELSE State

\* Mutant: the lease counts from the answer.
LeaseToldLate == poll.left

\* The time the answer took is deducted.
LeaseTold == IF poll.left > poll.age THEN poll.left - poll.age ELSE 0

\* Mutant: an answer is taken as long as hosting is on.
PollCurrentAny == hosting

PollCurrent == hosting /\ poll.host = "now" /\ token = poll.token

PollAnswered ==
  /\ poll.pc = "answered" /\ poll' = NoPoll
  /\ IF PollCurrent
     THEN /\ known' = poll.epoch /\ told' = poll.audience /\ until' = LeaseTold
          /\ Becomes(SyncCaptureDemand(ForAudience, lanLease, LeaseTold))
     ELSE UNCHANGED <<known, told, until, captureVars>>
  /\ UNCHANGED <<sessionVars, relayVars, granted, lanVars>>

\* Mutant: the timer does nothing while nobody watches.
SyncNeeded ==
  /\ NeedsCapture /\ Becomes(SyncCaptureDemand(State, lanLease, until))
  /\ UNCHANGED <<sessionVars, relayVars, demandVars, lanVars>>

\* The timer that looks every 250 ms for leases that ended, and refresh.
Sync ==
  /\ hosting /\ Becomes(SyncCaptureDemand(State, lanLease, until))
  /\ UNCHANGED <<sessionVars, relayVars, demandVars, lanVars>>

-----------------------------------------------------------------------------
(* Viewers on the LAN *)

\* /session/trust: the password is right, and the viewer goes on the list of trusted
\* ones, which is HostSwitch's (Trust); then a registration is awaited.
LanTrust ==
  /\ hosting /\ trust = None /\ trust' = "now"
  /\ lanSession = None       \* bound: one viewer at a time
  /\ UNCHANGED <<sessionVars, relayVars, demandVars, lanLease, lanSession, captureVars>>

\* Mutant: the viewer is let in after all.
LanTrustedAny ==
  /\ trust # None /\ trust' = None /\ lanSession' = trust
  /\ UNCHANGED <<sessionVars, relayVars, demandVars, lanLease, captureVars>>

LanTrusted ==
  /\ trust # None /\ trust' = None
  /\ lanSession' = IF hosting /\ trust = "now" THEN trust ELSE lanSession
  /\ UNCHANGED <<sessionVars, relayVars, demandVars, lanLease, captureVars>>

\* /frame.jpg, by a listener of the current generation.
LanLook ==
  /\ hosting /\ lanSession # None
  /\ lanLease' = Lease
  /\ Becomes(SyncCaptureDemand(State, Lease, until))
  /\ UNCHANGED <<sessionVars, relayVars, demandVars, lanSession, trust>>

\* /session/screen/stop, /session/close, and _closeLanRelay for all sessions.
LanLeave ==
  /\ lanSession # None
  /\ lanLease' = 0 /\ lanSession' \in {lanSession, None}
  /\ Becomes(SyncCaptureDemand(State, 0, until))
  /\ UNCHANGED <<sessionVars, relayVars, demandVars, trust>>

-----------------------------------------------------------------------------
(* _pollPreviewFrame and DesktopHostService.getLatestFrame *)

Shoot ==
  /\ cap.timer /\ NeedsCapture /\ shot.pc = "idle" /\ running /\ cap.on
  /\ shot' = [NoShot EXCEPT !.pc = "taking", !.live = TRUE, !.valid = TRUE, !.audience = told]
  /\ UNCHANGED <<sessionVars, relayVars, demandVars, lanVars, cap>>

\* _captureCurrent.
ShotCurrent == shot.live /\ NeedsCapture

\* _isCaptureCurrent of the service.
Taken == shot.pc = "taking" /\ shot.valid /\ running

\* uploadRelayPreviewFrame, if a relay viewer waits.
Upload(picture) ==
  /\ ShotCurrent /\ until > 0 /\ cap.upload /\ token # None
  /\ shot' = [NoShot EXCEPT !.pc = "sent", !.going = TRUE, !.audience = picture, !.token = token, !.epoch = known]

\* Taken now, or unchanged since the last one; and not uploaded, if it was before.
ShotTaken ==
  /\ Taken
  /\ \E picture \in {shot.audience, cap.cache} \ {None} :
       /\ cap' = [cap EXCEPT !.cache = picture, !.frame = @ \/ ShotCurrent]
       /\ shot' = NoShot \/ Upload(picture)
  /\ UNCHANGED <<sessionVars, relayVars, demandVars, lanVars>>

\* The capture was stopped meanwhile.
ShotDropped ==
  /\ shot.pc = "taking" /\ ~Taken
  /\ shot' = NoShot
  /\ UNCHANGED <<sessionVars, relayVars, demandVars, lanVars, cap>>

\* The screen is locked: what was shown before must not be served any more.
ShotHidden ==
  /\ Taken
  /\ shot' = NoShot
  /\ cap' = [cap EXCEPT !.frame = @ /\ ~ShotCurrent]
  /\ UNCHANGED <<sessionVars, relayVars, demandVars, lanVars>>

\* No answer for five seconds: the service stops, until the next Sync.
ShotTimesOut ==
  /\ Taken
  /\ shot' = NoShot /\ cap' = ServiceStopped(State).cap
  /\ UNCHANGED <<sessionVars, relayVars, demandVars, lanVars>>

\* upload_frame: a cancelled upload may have left already.
UploadServe ==
  /\ shot.pc = "sent" /\ shot' = NoShot
  /\ srv = shot.token /\ viewing > 0 /\ epoch = shot.epoch
  /\ shown' = shot.audience
  /\ UNCHANGED <<sessionVars, epoch, viewing, restarted, demandVars, lanVars, cap>>

\* 401, 409, lost, cut off or too late: the next Sync makes a new RelayFrameUpload.
UploadFails ==
  /\ shot.pc = "sent" /\ shot' = NoShot
  /\ cap' = IF shot.going THEN [cap EXCEPT !.upload = FALSE] ELSE cap
  /\ UNCHANGED <<sessionVars, relayVars, demandVars, lanVars>>

-----------------------------------------------------------------------------
\* What is left of a lease.
Less(n) == IF n = 0 THEN 0 ELSE n - 1
Tick ==
  /\ viewing > 0 \/ until > 0 \/ lanLease > 0 \/ granted > 0
  /\ poll.age < Lease
  /\ viewing' = Less(viewing) /\ shown' = IF viewing' = 0 THEN None ELSE shown
  /\ until' = Less(until) /\ lanLease' = Less(lanLease) /\ granted' = Less(granted)
  /\ poll' = IF poll.pc = "idle" THEN poll ELSE [poll EXCEPT !.age = @ + 1]
  /\ UNCHANGED <<sessionVars, epoch, restarted, known, told, lanSession, trust, captureVars>>

Hosting ==
  \/ \E on \in BOOLEAN : SwitchHosting(on)
  \/ ServeHosting \/ RestHosting \/ TokenChanges
  \/ RegisterHost \/ UnregisterHost \/ RestartRelay
Polling == PollDemand \/ PollServe \/ PollFails \/ PollAnswered
Lan == LanTrust \/ LanTrusted \/ LanLook \/ LanLeave
Shooting == Shoot \/ ShotTaken \/ ShotDropped \/ ShotHidden \/ ShotTimesOut
Uploading == UploadServe \/ UploadFails

CaptureNext == Hosting \/ Look \/ Leave \/ Polling \/ Sync \/ Lan \/ Shooting \/ Uploading \/ Tick

CaptureSpec == CaptureInit /\ [][CaptureNext]_vars

\* Time passes, timers fire, and a call is answered or given up.
FairCaptureSpec ==
  /\ CaptureSpec
  /\ WF_vars(Tick) /\ WF_vars(Sync) /\ WF_vars(PollAnswered \/ PollFails)

-----------------------------------------------------------------------------
TokenOrNone == Tokens \cup {None}
Polls == [pc : {"idle", "sent", "answered"}, host : Age, token : TokenOrNone,
          age : 0 .. Lease, epoch : Nat, left : 0 .. Lease, audience : Age]
Caps == [timer : BOOLEAN, on : BOOLEAN, frame : BOOLEAN, upload : BOOLEAN,
         cache : Age \cup {None}]
Shots == [pc : {"idle", "taking", "sent"}, live : BOOLEAN, valid : BOOLEAN,
          going : BOOLEAN, audience : Age, token : TokenOrNone, epoch : Nat]

TypeOK ==
  /\ hosting \in BOOLEAN /\ running \in BOOLEAN
  /\ token \in TokenOrNone /\ srv \in TokenOrNone
  /\ epoch \in Nat /\ viewing \in 0 .. Lease /\ shown \in Age \cup {None}
  /\ restarted \in BOOLEAN
  /\ poll \in Polls /\ known \in Nat /\ told \in Age
  /\ until \in 0 .. Lease /\ granted \in 0 .. Lease /\ lanLease \in 0 .. Lease
  /\ lanSession \in Age \cup {None} /\ trust \in Age \cup {None}
  /\ cap \in Caps /\ shot \in Shots

\* While hosting is off nothing looks at the screen or keeps a picture of it, though
\* polls, pictures, uploads and viewers of before are still under way
\* (desktop_host_demand_test: a late snapshot and a stop).
OffIsDark ==
  ~hosting => /\ cap = Dark /\ until = 0 /\ lanLease = 0 /\ lanSession = None
              /\ ~shot.live /\ ~shot.valid

\* Captured for the relay only as long as the relay has told the hosting of today of
\* viewers: no slow answer, no lost connection and no answer of before the viewers
\* were thrown out extends a lease (_pollScreenDemand).
LeaseHonest == until <= granted

\* A new audience never receives a frame captured for an old one
\* (_pollScreenDemand), unless the relay has forgotten its epochs meanwhile.
AudienceOnly == ~restarted => shown # "old"

\* Only who was let in to the hosting of today has a session on the LAN, though the
\* viewer was thrown out, or hosting switched off and on, while it was being let in.
SessionCurrent == lanSession # "old"

\* When nobody needs the screen any more, the capture ends and no picture is kept
\* (macos-demand-capture-2026-09-07.md: within the lease and one look of the timer).
CaptureEnds == <>[](~NeedsCapture) => <>[](~cap.on /\ ~cap.frame)
=============================================================================
