------------------------ MODULE CaptureHostProofs ------------------------
(***************************************************************************)
(* Proofs about CaptureHost, for any tokens, lease and number of audiences *)
(* and any order of polls, pictures and changes of hosting.                *)
(***************************************************************************)
EXTENDS CaptureHost, TLAPS

-----------------------------------------------------------------------------
(* What _stopCapture and _syncCaptureDemand do to the capture *)

States == [cap : Caps, shot : Shots]

\* Nothing is begun for an audience, and nothing that was stopped goes on.
Quieter(r, s) ==
  /\ r \in States
  /\ r.shot.pc = s.shot.pc /\ r.shot.audience = s.shot.audience
  /\ r.shot.token = s.shot.token /\ r.shot.epoch = s.shot.epoch
  /\ r.shot.valid => s.shot.valid
  /\ r.cap.cache \in {s.cap.cache, None}

LEMMA StateIn == TypeOK => State \in States /\ Quieter(State, State)
BY DEF TypeOK, State, States, Quieter, Caps, Shots

LEMMA QuieterStill ==
  ASSUME NEW r, NEW s, NEW t, Quieter(r, s), Quieter(s, t)
  PROVE  Quieter(r, t)
BY DEF Quieter

LEMMA Stopping ==
  ASSUME NEW s \in States
  PROVE  /\ Quieter(ServiceStopped(s), s) /\ ~ServiceStopped(s).shot.valid
         /\ ServiceStopped(s).cap = [s.cap EXCEPT !.on = FALSE, !.cache = None]
         /\ ServiceStopped(s).shot = [s.shot EXCEPT !.valid = FALSE]
         /\ Quieter(Cancelled(s), s) /\ Cancelled(s).cap = s.cap
         /\ Quieter(StopCapture(s), s) /\ StopCapture(s).cap = Dark
         /\ StopCapture(s).shot =
              [s.shot EXCEPT !.valid = FALSE, !.going = FALSE, !.live = FALSE]
<1>. USE DEF States, Caps, Shots, Quieter
<1>1. /\ Quieter(ServiceStopped(s), s) /\ ~ServiceStopped(s).shot.valid
      /\ ServiceStopped(s).cap = [s.cap EXCEPT !.on = FALSE, !.cache = None]
      /\ ServiceStopped(s).shot = [s.shot EXCEPT !.valid = FALSE]
  BY DEF ServiceStopped
<1>2. Quieter(Cancelled(s), s) /\ Cancelled(s).cap = s.cap
  BY DEF Cancelled
<1>3. /\ StopCapture(s).cap = Dark
      /\ StopCapture(s).shot = [s.shot EXCEPT !.valid = FALSE, !.going = FALSE, !.live = FALSE]
      /\ StopCapture(s) = [cap |-> StopCapture(s).cap, shot |-> StopCapture(s).shot]
  <2>. DEFINE r == Cancelled(ServiceStopped(s))
  <2>1. r \in States /\ r.shot = [s.shot EXCEPT !.valid = FALSE, !.going = FALSE]
    BY DEF ServiceStopped, Cancelled
  <2>2. StopCapture(s) = [r EXCEPT !.shot.live = FALSE, !.cap = Dark]
    BY DEF StopCapture
  <2>. HIDE DEF r
  <2>. QED
    BY <2>1, <2>2
<1>4. Dark \in Caps /\ Dark.cache = None
  BY DEF Dark
<1>5. Quieter(StopCapture(s), s)
  BY <1>3, <1>4
<1>. QED
  BY <1>1, <1>2, <1>3, <1>5

LEMMA Beginning ==
  ASSUME NEW s \in States, NEW relay \in BOOLEAN, running \in BOOLEAN
  PROVE  /\ Quieter(UploadSynced(s, relay), s)
         /\ Quieter(EnsurePreviewPolling(s, relay), s)
BY DEF States, Caps, Shots, Quieter, Cancelled, UploadSynced, EnsurePreviewPolling

LEMMA Syncing ==
  ASSUME NEW s \in States, NEW l \in Nat, NEW u \in Nat, running \in BOOLEAN
  PROVE  Quieter(SyncCaptureDemand(s, l, u), s)
<1>. DEFINE r == UploadSynced(s, u > 0)
<1>0. (u > 0) \in BOOLEAN
  OBVIOUS
<1>1. Quieter(r, s) /\ r \in States
  <2>1. Quieter(r, s)
    BY <1>0, Beginning
  <2>. QED BY <2>1 DEF Quieter
<1>2. Quieter(StopCapture(r), r) /\ Quieter(EnsurePreviewPolling(r, u > 0), r)
  <2>. HIDE DEF r
  <2>1. Quieter(StopCapture(r), r)
    BY <1>1, Stopping
  <2>. QED BY <1>0, <1>1, <2>1, Beginning
<1>3. SyncCaptureDemand(s, l, u) \in {r, StopCapture(r), EnsurePreviewPolling(r, u > 0)}
  BY DEF SyncCaptureDemand
<1>. HIDE DEF r
<1>. QED BY <1>1, <1>2, <1>3, QuieterStill

\* The same, as a step.
Quietly == Quieter([cap |-> cap', shot |-> shot'], State)

LEMMA SyncStep ==
  ASSUME TypeOK, NEW l \in Nat, NEW u \in Nat, NEW s, Quieter(s, State),
         Becomes(SyncCaptureDemand(s, l, u))
  PROVE  Quietly /\ Quieter([cap |-> cap', shot |-> shot'], s)
<1>. DEFINE r == SyncCaptureDemand(s, l, u)
<1>1. s \in States /\ running \in BOOLEAN
  BY DEF Quieter, TypeOK
<1>2. Quieter(r, s) /\ r \in States
  BY <1>1, Syncing DEF Quieter
<1>3. r = [cap |-> cap', shot |-> shot']
  BY <1>2 DEF Becomes, States
<1>. QED BY <1>2, <1>3, QuieterStill DEF Quietly

LEMMA StopStep ==
  ASSUME TypeOK, Becomes(StopCapture(State))
  PROVE  /\ Quietly /\ cap' = Dark
         /\ ~shot'.live /\ ~shot'.valid /\ ~shot'.going
<1>0. State \in States /\ State.shot = shot
  BY StateIn DEF State
<1>1. StopCapture(State) \in States /\ Quieter(StopCapture(State), State)
  <2>1. Quieter(StopCapture(State), State)
    BY <1>0, Stopping
  <2>. QED BY <2>1 DEF Quieter
<1>2. StopCapture(State) = [cap |-> cap', shot |-> shot']
  BY <1>1 DEF Becomes, States
<1>3. shot \in Shots
  BY DEF TypeOK
<1>4. /\ cap' = Dark
      /\ shot' = [shot EXCEPT !.valid = FALSE, !.going = FALSE, !.live = FALSE]
  BY <1>0, Stopping DEF Becomes
<1>. QED BY <1>1, <1>2, <1>3, <1>4 DEF Quietly, Shots

LEMMA QuietTypes == Quietly => cap' \in Caps /\ shot' \in Shots
BY DEF Quietly, Quieter, States

\* The steps that synchronise the capture with the demand, or stop it.
LEMMA RestStep ==
  ASSUME TypeOK, Becomes(ServiceStopped(State))
  PROVE  /\ Quietly /\ ~shot'.valid
         /\ cap' = [cap EXCEPT !.on = FALSE, !.cache = None]
         /\ shot' = [shot EXCEPT !.valid = FALSE]
<1>1. State \in States /\ State.cap = cap /\ State.shot = shot
  BY StateIn DEF State
<1>2. Quieter(ServiceStopped(State), State) /\ ~ServiceStopped(State).shot.valid
  BY <1>1, Stopping
<1>3. /\ ServiceStopped(State).cap = [cap EXCEPT !.on = FALSE, !.cache = None]
      /\ ServiceStopped(State).shot = [shot EXCEPT !.valid = FALSE]
  BY <1>1, Stopping
<1>4. ServiceStopped(State) = [cap |-> cap', shot |-> shot']
  BY <1>2 DEF Becomes, States, Quieter
<1>. QED BY <1>2, <1>3, <1>4 DEF Quietly, Becomes

LEMMA SyncedStep ==
  ASSUME TypeOK, NEW l \in Nat, NEW u \in Nat, Becomes(SyncCaptureDemand(State, l, u))
  PROVE  Quietly
BY StateIn, SyncStep

LEMMA ToldIn == TypeOK => LeaseTold \in 0 .. Lease
BY CaptureParameters DEF TypeOK, Polls, LeaseTold

LEMMA AnsweredStep ==
  ASSUME TypeOK, Becomes(SyncCaptureDemand(ForAudience, lanLease, LeaseTold))
  PROVE  /\ Quietly
         /\ known # poll.epoch => ~shot'.valid /\ cap'.cache = None
<1>1. lanLease \in Nat /\ LeaseTold \in Nat
  BY CaptureParameters, ToldIn DEF TypeOK
<1>2. State \in States /\ Quieter(State, State)
  BY StateIn
<1>3. Quieter(StopCapture(State), State)
  BY <1>2, Stopping
<1>4. Quieter(ForAudience, State)
  BY <1>2, <1>3 DEF ForAudience
<1>5. Quietly /\ Quieter([cap |-> cap', shot |-> shot'], ForAudience)
  BY <1>1, <1>4, SyncStep
<1>6. ASSUME known # poll.epoch
      PROVE  ~ForAudience.shot.valid /\ ForAudience.cap.cache = None
  <2>1. shot \in Shots
    BY DEF TypeOK
  <2>2. StopCapture(State).cap = Dark
    BY <1>2, Stopping
  <2>3. StopCapture(State).shot = [State.shot EXCEPT !.valid = FALSE, !.going = FALSE, !.live = FALSE]
    BY <1>2, Stopping
  <2>4. ForAudience = StopCapture(State) /\ State.shot = shot
    BY <1>6 DEF ForAudience, State
  <2>5. ForAudience.shot = [shot EXCEPT !.valid = FALSE, !.going = FALSE, !.live = FALSE]
    BY <2>3, <2>4
  <2>. QED BY <2>1, <2>2, <2>4, <2>5 DEF Dark, Shots
<1>. QED BY <1>5, <1>6 DEF Quieter

-----------------------------------------------------------------------------
LEMMA Nothing == NoPoll \in Polls /\ NoShot \in Shots /\ Dark \in Caps
<1>. USE CaptureParameters DEF Age, TokenOrNone
<1>1. NoPoll \in Polls
  BY DEF NoPoll, Polls
<1>2. NoShot \in Shots
  BY DEF NoShot, Shots
<1>3. Dark \in Caps
  BY DEF Dark, Caps
<1>. QED BY <1>1, <1>2, <1>3

LEMMA TypeInit == CaptureInit => TypeOK
<1>. SUFFICES ASSUME CaptureInit PROVE TypeOK
  OBVIOUS
<1>1. hosting \in BOOLEAN /\ running \in BOOLEAN /\ restarted \in BOOLEAN
  BY Zenon DEF CaptureInit, Init
<1>2. poll \in Polls /\ cap \in Caps /\ shot \in Shots
  BY Nothing DEF CaptureInit
<1>3. /\ token \in TokenOrNone /\ srv \in TokenOrNone /\ shown \in Age \cup {None}
      /\ lanSession \in Age \cup {None} /\ trust \in Age \cup {None} /\ told \in Age
  BY DEF CaptureInit, Init, TokenOrNone, Age
<1>4. /\ epoch \in Nat /\ known \in Nat /\ viewing \in 0 .. Lease
      /\ until \in 0 .. Lease /\ granted \in 0 .. Lease /\ lanLease \in 0 .. Lease
  BY CaptureParameters DEF CaptureInit
<1>. QED BY <1>1, <1>2, <1>3, <1>4 DEF TypeOK

LEMMA TypeStep == TypeOK /\ [CaptureNext]_vars => TypeOK'
<1>. SUFFICES ASSUME TypeOK, [CaptureNext]_vars PROVE TypeOK'
  OBVIOUS
<1>. USE CaptureParameters DEF Age, TokenOrNone, sessionVars, relayVars, demandVars, lanVars, captureVars
<1>0. lanLease \in Nat /\ until \in Nat /\ Lease \in Nat /\ 0 \in Nat
  BY DEF TypeOK
<1>1. CASE Hosting
  <2>1. CASE \E on \in BOOLEAN : SwitchHosting(on)
    <3>1. PICK on \in BOOLEAN : SwitchHosting(on)
      BY <2>1
    <3>2. cap' \in Caps /\ shot' \in Shots
      BY <3>1, StopStep, QuietTypes DEF SwitchHosting, StopDemandPolling, TypeOK
    <3>3. poll' \in Polls
      BY <3>1 DEF SwitchHosting, Switch, TypeOK, Polls, Aged
    <3>. QED BY <3>1, <3>2, <3>3 DEF SwitchHosting, Switch, StopDemandPolling, TypeOK, Aged
  <2>2. CASE ServeHosting
    BY <2>2 DEF ServeHosting, Serve, TypeOK
  <2>3. CASE RestHosting
    <3>1. cap' \in Caps /\ shot' \in Shots
      BY <2>3, RestStep, QuietTypes DEF RestHosting
    <3>. QED BY <2>3, <3>1 DEF RestHosting, Rest, TypeOK
  <2>4. CASE TokenChanges
    BY <2>4 DEF TokenChanges, ForgetToken, LearnToken, TypeOK
  <2>5. CASE RegisterHost
    BY <2>5 DEF RegisterHost, Register, TypeOK
  <2>6. CASE UnregisterHost
    BY <2>6 DEF UnregisterHost, Unregister, NobodyViews, TypeOK
  <2>7. CASE RestartRelay
    BY <2>7 DEF RestartRelay, Unregister, NobodyViews, TypeOK
  <2>. QED BY <1>1, <2>1, <2>2, <2>3, <2>4, <2>5, <2>6, <2>7 DEF Hosting
<1>2. CASE Look
  <2>1. CASE viewing > 0
    BY <1>2, <2>1 DEF Look, TypeOK
  <2>2. CASE ~(viewing > 0)
    <3>1. cap' \in Caps /\ shot' \in Shots /\ poll' \in Polls /\ told' \in Age
      BY <1>2, <2>2 DEF Look, NewAudience, TypeOK, Caps, Shots, Polls, Aged
    <3>. QED BY <1>2, <2>2, <3>1 DEF Look, TypeOK
  <2>. QED BY <2>1, <2>2
<1>3. CASE Leave
  BY <1>3 DEF Leave, NobodyViews, TypeOK
<1>4. CASE Polling
  <2>1. CASE PollDemand
    <3>1. token \in TokenOrNone /\ 0 \in 0 .. Lease
      BY DEF TypeOK
    <3>2. poll' = [NoPoll EXCEPT !.pc = "sent", !.host = "now", !.token = token]
      BY <2>1 DEF PollDemand
    <3>3. poll' \in Polls
      BY <3>1, <3>2, Nothing DEF Polls
    <3>. QED BY <2>1, <3>3 DEF PollDemand, TypeOK
  <2>2. CASE PollServe
    <3>1. poll \in Polls /\ epoch \in Nat /\ viewing \in 0 .. Lease /\ granted \in 0 .. Lease
      BY DEF TypeOK
    <3>2. poll' = [poll EXCEPT !.pc = "answered", !.epoch = epoch, !.left = viewing, !.audience = "now"]
      BY <2>2 DEF PollServe
    <3>3. poll' \in Polls
      BY <3>1, <3>2 DEF Polls
    <3>4. granted' \in 0 .. Lease
      BY <2>2, <3>1 DEF PollServe
    <3>. QED BY <2>2, <3>3, <3>4 DEF PollServe, TypeOK
  <2>3. CASE PollFails
    <3>1. cap' \in Caps /\ shot' \in Shots
      BY <1>0, <2>3, SyncedStep, QuietTypes DEF PollFails, TypeOK
    <3>. QED BY <2>3, <3>1 DEF PollFails, TypeOK, Polls, NoPoll
  <2>4. CASE PollAnswered
    <3>1. cap' \in Caps /\ shot' \in Shots
      BY <2>4, AnsweredStep, QuietTypes DEF PollAnswered, TypeOK
    <3>2. poll.epoch \in Nat /\ poll.audience \in Age /\ LeaseTold \in 0 .. Lease
      BY ToldIn DEF TypeOK, Polls
    <3>. QED BY <2>4, <3>1, <3>2 DEF PollAnswered, TypeOK, Polls, NoPoll
  <2>. QED BY <1>4, <2>1, <2>2, <2>3, <2>4 DEF Polling
<1>5. CASE Sync
  <2>1. cap' \in Caps /\ shot' \in Shots
    BY <1>0, <1>5, SyncedStep, QuietTypes DEF Sync
  <2>. QED BY <1>5, <2>1 DEF Sync, TypeOK
<1>6. CASE Lan
  <2>1. CASE LanTrust
    BY <2>1 DEF LanTrust, TypeOK
  <2>2. CASE LanTrusted
    BY <2>2 DEF LanTrusted, TypeOK
  <2>3. CASE LanLook
    <3>1. cap' \in Caps /\ shot' \in Shots
      BY <1>0, <2>3, SyncedStep, QuietTypes DEF LanLook
    <3>. QED BY <2>3, <3>1 DEF LanLook, TypeOK
  <2>4. CASE LanLeave
    <3>1. cap' \in Caps /\ shot' \in Shots
      BY <1>0, <2>4, SyncedStep, QuietTypes DEF LanLeave
    <3>. QED BY <2>4, <3>1 DEF LanLeave, TypeOK
  <2>. QED BY <1>6, <2>1, <2>2, <2>3, <2>4 DEF Lan
<1>7. CASE Shooting
  <2>1. CASE Shoot
    <3>1. told \in Age
      BY DEF TypeOK
    <3>2. shot' = [NoShot EXCEPT !.pc = "taking", !.live = TRUE, !.valid = TRUE, !.audience = told]
      BY <2>1 DEF Shoot
    <3>3. shot' \in Shots
      BY <3>1, <3>2, Nothing DEF Shots
    <3>. QED BY <2>1, <3>3 DEF Shoot, TypeOK
  <2>2. CASE ShotTaken
    <3>1. PICK picture \in {shot.audience, cap.cache} \ {None} :
            /\ cap' = [cap EXCEPT !.cache = picture, !.frame = @ \/ ShotCurrent]
            /\ shot' = NoShot \/ Upload(picture)
      BY <2>2 DEF ShotTaken
    <3>2. picture \in Age /\ (cap.frame \/ ShotCurrent) \in BOOLEAN
      BY DEF TypeOK, Shots, Caps
    <3>3. cap' \in Caps
      BY <3>1, <3>2 DEF TypeOK, Caps
    <3>4. shot' \in Shots
      <4>1. token \in TokenOrNone /\ known \in Nat
        BY DEF TypeOK
      <4>2. NoShot \in Shots
        BY Nothing
      <4>3. ASSUME Upload(picture)  PROVE shot' \in Shots
        <5>1. shot' = [NoShot EXCEPT !.pc = "sent", !.going = TRUE, !.audience = picture,
                                     !.token = token, !.epoch = known]
          BY <4>3 DEF Upload
        <5>. QED BY <3>2, <4>1, <4>2, <5>1 DEF Shots
      <4>. QED BY <3>1, <4>2, <4>3
    <3>. QED BY <2>2, <3>3, <3>4 DEF ShotTaken, TypeOK
  <2>3. CASE ShotDropped
    BY <2>3 DEF ShotDropped, TypeOK, Shots, NoShot
  <2>4. CASE ShotHidden
    <3>1. (cap.frame /\ ~ShotCurrent) \in BOOLEAN
      BY DEF TypeOK, Caps
    <3>2. cap' \in Caps
      BY <2>4, <3>1 DEF ShotHidden, TypeOK, Caps
    <3>. QED BY <2>4, <3>2, Nothing DEF ShotHidden, TypeOK
  <2>5. CASE ShotTimesOut
    <3>1. State \in States /\ State.cap = cap
      BY StateIn DEF State
    <3>2. ServiceStopped(State).cap \in Caps
      BY <3>1, Stopping DEF Quieter, States
    <3>. QED BY <2>5, <3>2, Nothing DEF ShotTimesOut, TypeOK
  <2>. QED BY <1>7, <2>1, <2>2, <2>3, <2>4, <2>5 DEF Shooting
<1>8. CASE Uploading
  <2>1. CASE UploadServe
    BY <2>1 DEF UploadServe, TypeOK, Shots, NoShot
  <2>2. CASE UploadFails
    <3>1. cap' \in Caps
      BY <2>2 DEF UploadFails, TypeOK, Caps
    <3>. QED BY <2>2, <3>1, Nothing DEF UploadFails, TypeOK
  <2>. QED BY <1>8, <2>1, <2>2 DEF Uploading
<1>9. CASE Tick
  <2>1. poll' \in Polls
    BY <1>9 DEF Tick, TypeOK, Polls
  <2>. QED BY <1>9, <2>1 DEF Tick, Less, TypeOK
<1>10. CASE UNCHANGED vars
  BY <1>10 DEF vars, TypeOK
<1>. QED BY <1>1, <1>2, <1>3, <1>4, <1>5, <1>6, <1>7, <1>8, <1>9, <1>10 DEF CaptureNext

\* The relay, the demand, the sessions on the LAN and the capture keep their types.
THEOREM TypeCorrect == CaptureSpec => []TypeOK
<1>1. CaptureInit => TypeOK
  BY TypeInit
<1>2. TypeOK /\ [CaptureNext]_vars => TypeOK'
  BY TypeStep
<1>. QED BY <1>1, <1>2, PTL DEF CaptureSpec

-----------------------------------------------------------------------------
(* While hosting is off *)

DarkInv == OffIsDark /\ (~hosting => ~shot.going)

LEMMA DarkInit == CaptureInit => DarkInv
BY DEF CaptureInit, Init, DarkInv, OffIsDark, NoShot

LEMMA DarkStep == TypeOK /\ DarkInv /\ [CaptureNext]_vars => DarkInv'
<1>. SUFFICES ASSUME TypeOK, DarkInv, [CaptureNext]_vars, ~hosting' PROVE DarkInv'
  BY DEF DarkInv, OffIsDark
<1>. USE DEF sessionVars, relayVars, demandVars, lanVars, captureVars
<1>1. CASE \E on \in BOOLEAN : SwitchHosting(on)
  <2>1. PICK on \in BOOLEAN : SwitchHosting(on)
    BY <1>1
  <2>2. StopDemandPolling
    BY <2>1 DEF SwitchHosting, Switch
  <2>3. cap' = Dark /\ ~shot'.live /\ ~shot'.valid /\ ~shot'.going
    BY <2>2, StopStep DEF StopDemandPolling
  <2>. QED BY <2>2, <2>3 DEF StopDemandPolling, DarkInv, OffIsDark
<1>2. CASE ~(\E on \in BOOLEAN : SwitchHosting(on))
  <2>1. ~hosting
    BY <1>2 DEF CaptureNext, Hosting, ServeHosting, Serve, RestHosting, Rest, TokenChanges,
       LearnToken, ForgetToken, RegisterHost, Register, UnregisterHost, RestartRelay, Unregister,
       Look, Leave, Polling, PollDemand, PollServe, PollFails, PollAnswered, Sync, Lan, LanTrust,
       LanTrusted, LanLook, LanLeave, Shooting, Shoot, ShotTaken, ShotDropped, ShotHidden,
       ShotTimesOut, Uploading, UploadServe, UploadFails, Tick, vars
  <2>2. /\ cap = Dark /\ until = 0 /\ lanLease = 0 /\ lanSession = None
        /\ ~shot.live /\ ~shot.valid /\ ~shot.going /\ ~NeedsCapture
    BY <2>1 DEF DarkInv, OffIsDark, NeedsCapture
  <2>. SUFFICES /\ cap' = Dark /\ until' = 0 /\ lanLease' = 0 /\ lanSession' = None
                /\ ~shot'.live /\ ~shot'.valid /\ ~shot'.going
    BY DEF DarkInv, OffIsDark
  <2>3. ~NoShot.live /\ ~NoShot.valid /\ ~NoShot.going
    BY DEF NoShot
  <2>4. Less(0) = 0
    BY DEF Less
  <2>5. CASE RestHosting
    <3>1. /\ cap' = [cap EXCEPT !.on = FALSE, !.cache = None]
          /\ shot' = [shot EXCEPT !.valid = FALSE]
      BY <2>5, RestStep DEF RestHosting
    <3>. QED BY <2>2, <2>5, <3>1 DEF RestHosting, TypeOK, Shots, Dark
  <2>6. CASE Look
    <3>1. Aged(None) = None
      BY CaptureParameters DEF Aged
    <3>. QED BY <2>2, <2>6, <3>1 DEF Look, NewAudience, TypeOK, Shots, Dark
  <2>7. CASE Shooting \/ Uploading
    BY <2>2, <2>3, <2>7 DEF Shooting, Shoot, ShotTaken, ShotDropped, ShotHidden, ShotTimesOut,
       Taken, Uploading, UploadServe, UploadFails
  <2>8. CASE Polling \/ Sync \/ Lan
    BY <2>1, <2>2, <2>8 DEF Polling, PollDemand, PollServe, PollFails, PollAnswered, PollCurrent,
       Sync, Lan, LanTrust, LanTrusted, LanLook, LanLeave
  <2>9. CASE ServeHosting \/ TokenChanges \/ RegisterHost \/ UnregisterHost \/ RestartRelay \/ Leave
    BY <2>2, <2>9 DEF ServeHosting, TokenChanges, RegisterHost, UnregisterHost, RestartRelay, Leave
  <2>10. CASE Tick
    BY <2>2, <2>4, <2>10 DEF Tick
  <2>11. CASE UNCHANGED vars
    BY <2>2, <2>11 DEF vars
  <2>. QED BY <1>2, <2>5, <2>6, <2>7, <2>8, <2>9, <2>10, <2>11 DEF CaptureNext, Hosting
<1>. QED BY <1>1, <1>2

\* While hosting is off nothing looks at the screen or keeps a picture of it, whatever
\* is still under way (_stopCapture, _captureCurrent, _hostCurrent).
THEOREM Off == CaptureSpec => []OffIsDark
<1>1. CaptureInit => TypeOK /\ DarkInv
  BY TypeInit, DarkInit
<1>2. TypeOK /\ DarkInv /\ [CaptureNext]_vars => (TypeOK /\ DarkInv)'
  BY TypeStep, DarkStep
<1>3. DarkInv => OffIsDark
  BY DEF DarkInv
<1>. QED BY <1>1, <1>2, <1>3, PTL DEF CaptureSpec

-----------------------------------------------------------------------------
(* Leases *)

LeaseInv ==
  /\ LeaseHonest
  /\ poll.pc = "answered" /\ poll.host = "now" => poll.left <= granted + poll.age

LEMMA LeaseStep == TypeOK /\ DarkInv /\ LeaseInv /\ [CaptureNext]_vars => LeaseInv'
<1>. SUFFICES ASSUME TypeOK, DarkInv, LeaseInv, [CaptureNext]_vars PROVE LeaseInv'
  OBVIOUS
<1>. USE DEF sessionVars, relayVars, demandVars, lanVars, captureVars
<1>0. /\ Lease \in Nat /\ until \in Nat /\ granted \in Nat /\ viewing \in Nat
      /\ poll \in Polls /\ poll.left \in Nat /\ poll.age \in Nat
  BY CaptureParameters DEF TypeOK, Polls
<1>1. CASE UNCHANGED <<poll, until, granted>>
  BY <1>1 DEF LeaseInv, LeaseHonest
<1>2. CASE \E on \in BOOLEAN : SwitchHosting(on)
  <2>1. PICK on \in BOOLEAN : SwitchHosting(on)
    BY <1>2
  <2>2. until' = 0 /\ granted' = 0
    BY <2>1 DEF SwitchHosting, StopDemandPolling, DarkInv, OffIsDark
  <2>3. poll'.host # "now"
    BY <1>0, <2>1 DEF SwitchHosting, Aged, Polls, Age
  <2>. QED BY <2>2, <2>3 DEF LeaseInv, LeaseHonest
<1>3. CASE Look
  <2>1. /\ UNCHANGED <<until, granted>> /\ poll'.pc = poll.pc /\ poll'.host = poll.host
        /\ poll'.left = poll.left /\ poll'.age = poll.age
    BY <1>0, <1>3 DEF Look, NewAudience, Polls
  <2>. QED BY <2>1 DEF LeaseInv, LeaseHonest
<1>4. CASE PollDemand \/ PollFails
  <2>1. poll'.pc # "answered"
    <3>1. NoPoll.pc = "idle" /\ [NoPoll EXCEPT !.pc = "sent", !.host = "now", !.token = token].pc = "sent"
      BY DEF NoPoll
    <3>. QED BY <1>4, <3>1 DEF PollDemand, PollFails
  <2>2. UNCHANGED <<until, granted>>
    BY <1>4 DEF PollDemand, PollFails
  <2>. QED BY <2>1, <2>2 DEF LeaseInv, LeaseHonest
<1>5. CASE PollServe
  <2>1. /\ poll'.host = poll.host /\ poll'.left = viewing /\ poll'.age = poll.age
        /\ granted' = (IF poll.host = "now" /\ viewing > granted THEN viewing ELSE granted)
        /\ UNCHANGED until
    BY <1>0, <1>5 DEF PollServe, Polls
  <2>. QED BY <1>0, <2>1 DEF LeaseInv, LeaseHonest
<1>6. CASE PollAnswered
  <2>1. poll'.pc = "idle" /\ UNCHANGED granted /\ poll.pc = "answered"
    BY <1>6 DEF PollAnswered, NoPoll
  <2>2. CASE PollCurrent
    BY <1>0, <1>6, <2>1, <2>2 DEF PollAnswered, PollCurrent, LeaseTold, LeaseInv, LeaseHonest
  <2>3. CASE ~PollCurrent
    BY <1>6, <2>1, <2>3 DEF PollAnswered, LeaseInv, LeaseHonest
  <2>. QED BY <2>2, <2>3
<1>7. CASE Tick
  <2>1. /\ until' = Less(until) /\ granted' = Less(granted) /\ poll'.pc = poll.pc
        /\ poll'.host = poll.host /\ poll'.left = poll.left
        /\ poll.pc # "idle" => poll'.age = poll.age + 1
    BY <1>0, <1>7 DEF Tick, Polls
  <2>. QED BY <1>0, <2>1 DEF Less, LeaseInv, LeaseHonest
<1>8. \/ UNCHANGED <<poll, until, granted>> \/ \E on \in BOOLEAN : SwitchHosting(on)
      \/ Look \/ PollDemand \/ PollFails \/ PollServe \/ PollAnswered \/ Tick
  BY DEF CaptureNext, Hosting, ServeHosting, RestHosting, TokenChanges, RegisterHost,
     UnregisterHost, RestartRelay, Leave, Polling, Sync, Lan, LanTrust, LanTrusted, LanLook,
     LanLeave, Shooting, Shoot, ShotTaken, ShotDropped, ShotHidden, ShotTimesOut, Uploading,
     UploadServe, UploadFails, vars
<1>. QED BY <1>1, <1>2, <1>3, <1>4, <1>5, <1>6, <1>7, <1>8

\* The host captures for the relay only within leases that the relay has told the
\* hosting of today of, however long an answer takes and however late it comes
\* (_pollScreenDemand).
THEOREM LeasesHonest == CaptureSpec => []LeaseHonest
<1>1. CaptureInit => TypeOK /\ DarkInv /\ LeaseInv
  BY TypeInit, DarkInit DEF CaptureInit, LeaseInv, LeaseHonest, NoPoll
<1>2. TypeOK /\ DarkInv /\ LeaseInv /\ [CaptureNext]_vars => (TypeOK /\ DarkInv /\ LeaseInv)'
  BY TypeStep, DarkStep, LeaseStep
<1>3. LeaseInv => LeaseHonest
  BY DEF LeaseInv
<1>. QED BY <1>1, <1>2, <1>3, PTL DEF CaptureSpec

-----------------------------------------------------------------------------
(* Sessions on the LAN *)

\* No viewer that was being let in when the viewers were thrown out gets a session
\* (/session/trust).
THEOREM SessionsCurrent == CaptureSpec => []SessionCurrent
<1>1. CaptureInit => SessionCurrent
  BY CaptureParameters DEF CaptureInit, SessionCurrent
<1>2. SessionCurrent /\ [CaptureNext]_vars => SessionCurrent'
  <2>. SUFFICES ASSUME SessionCurrent, [CaptureNext]_vars PROVE SessionCurrent'
    OBVIOUS
  <2>1. lanSession' \in {lanSession, None, "now"}
    BY DEF CaptureNext, Hosting, SwitchHosting, StopDemandPolling, ServeHosting, RestHosting,
       TokenChanges, RegisterHost, UnregisterHost, RestartRelay, Look, Leave, Polling, PollDemand,
       PollServe, PollFails, PollAnswered, Sync, Lan, LanTrust, LanTrusted, LanLook, LanLeave,
       Shooting, Shoot, ShotTaken, ShotDropped, ShotHidden, ShotTimesOut, Uploading, UploadServe,
       UploadFails, Tick, vars, lanVars
  <2>. QED BY <2>1, CaptureParameters DEF SessionCurrent
<1>. QED BY <1>1, <1>2, PTL DEF CaptureSpec

-----------------------------------------------------------------------------
(* Audiences *)

\* What belongs to epoch e was taken, or told, for audience a.
Fresh(e, a) == e = epoch /\ epoch > 0 => a = "now"

AudienceInv ==
  ~restarted =>
    /\ known <= epoch /\ poll.epoch <= epoch /\ shot.epoch <= epoch
    /\ viewing > 0 => epoch > 0
    /\ shown # "old"
    /\ Fresh(known, told)
    /\ poll.pc = "answered" => Fresh(poll.epoch, poll.audience)
    /\ shot.valid => Fresh(known, shot.audience)
    /\ cap.cache # None => Fresh(known, cap.cache)
    /\ shot.pc = "sent" => Fresh(shot.epoch, shot.audience)

LEMMA AudienceInit == CaptureInit => AudienceInv
BY CaptureParameters DEF CaptureInit, AudienceInv, Fresh, NoPoll, NoShot, Dark

\* A step that only stops or synchronises the capture.
LEMMA AudienceQuiet ==
  ASSUME AudienceInv, Quietly,
         UNCHANGED <<epoch, viewing, restarted, known, told>>, shown' \in {shown, None},
         poll' = poll \/ (poll'.pc = "idle" /\ poll'.epoch = 0), TypeOK
  PROVE  AudienceInv'
<1>1. /\ shot'.pc = shot.pc /\ shot'.audience = shot.audience /\ shot'.epoch = shot.epoch
      /\ shot'.valid => shot.valid
      /\ cap'.cache \in {cap.cache, None}
  BY DEF Quietly, Quieter, State
<1>2. None # "old" /\ epoch \in Nat
  BY CaptureParameters DEF TypeOK
<1>. QED BY <1>1, <1>2 DEF AudienceInv, Fresh

LEMMA StillQuiet == TypeOK /\ UNCHANGED captureVars => Quietly
BY DEF TypeOK, captureVars, Quietly, Quieter, State, States, Caps, Shots

LEMMA AudienceStep == TypeOK /\ AudienceInv /\ [CaptureNext]_vars => AudienceInv'
<1>. SUFFICES ASSUME TypeOK, AudienceInv, [CaptureNext]_vars PROVE AudienceInv'
  OBVIOUS
<1>. USE DEF sessionVars, relayVars, demandVars, lanVars
<1>0. /\ epoch \in Nat /\ known \in Nat /\ until \in Nat /\ lanLease \in Nat /\ Lease \in Nat
      /\ poll \in Polls /\ shot \in Shots /\ cap \in Caps /\ viewing \in Nat
      /\ None # "old" /\ None # "now"
  BY CaptureParameters DEF TypeOK
<1>1. CASE Hosting
  <2>1. CASE \E on \in BOOLEAN : SwitchHosting(on)
    <3>1. PICK on \in BOOLEAN : SwitchHosting(on)
      BY <2>1
    <3>2. Quietly
      BY <3>1, StopStep, StillQuiet DEF SwitchHosting, StopDemandPolling
    <3>3. /\ UNCHANGED <<epoch, viewing, restarted, shown, known, told>>
          /\ poll'.pc = poll.pc /\ poll'.epoch = poll.epoch /\ poll'.audience = poll.audience
      BY <1>0, <3>1 DEF SwitchHosting, Polls
    <3>4. /\ shot'.pc = shot.pc /\ shot'.audience = shot.audience /\ shot'.epoch = shot.epoch
          /\ shot'.valid => shot.valid
          /\ cap'.cache \in {cap.cache, None}
      BY <3>2 DEF Quietly, Quieter, State
    <3>. QED BY <3>3, <3>4 DEF AudienceInv, Fresh
  <2>2. CASE RestHosting
    BY <2>2, RestStep, AudienceQuiet DEF RestHosting
  <2>3. CASE UnregisterHost
    <3>1. viewing' = 0 /\ shown' = None /\ UNCHANGED <<epoch, restarted, known, told, poll, shot, cap>>
      BY <2>3 DEF UnregisterHost, NobodyViews, captureVars
    <3>. QED BY <1>0, <3>1 DEF AudienceInv, Fresh
  <2>4. CASE RestartRelay
    BY <2>4 DEF RestartRelay, AudienceInv
  <2>5. CASE ServeHosting \/ TokenChanges \/ RegisterHost
    <3>1. UNCHANGED <<epoch, viewing, restarted, shown, known, told, poll, shot, cap>>
      BY <2>5 DEF ServeHosting, TokenChanges, RegisterHost, captureVars
    <3>. QED BY <3>1 DEF AudienceInv, Fresh
  <2>. QED BY <1>1, <2>1, <2>2, <2>3, <2>4, <2>5 DEF Hosting
<1>2. CASE Look
  <2>1. CASE viewing > 0
    <3>1. /\ viewing' = Lease
          /\ UNCHANGED <<epoch, restarted, shown, known, told, poll, shot, cap>>
      BY <1>2, <2>1 DEF Look, captureVars
    <3>. QED BY <2>1, <3>1 DEF AudienceInv, Fresh
  <2>2. CASE ~(viewing > 0)
    <3>1. epoch' = epoch + 1 /\ shown' = None /\ UNCHANGED <<restarted, known>>
      BY <1>2, <2>2 DEF Look
    <3>2. poll'.epoch = poll.epoch /\ shot'.epoch = shot.epoch
      BY <1>0, <1>2, <2>2 DEF Look, NewAudience, Polls, Shots
    <3>3. poll.epoch \in Nat /\ shot.epoch \in Nat
      BY <1>0 DEF Polls, Shots
    <3>. QED BY <1>0, <3>1, <3>2, <3>3 DEF AudienceInv, Fresh
  <2>. QED BY <2>1, <2>2
<1>3. CASE Leave
  <2>1. viewing' = 0 /\ shown' = None /\ UNCHANGED <<epoch, restarted, known, told, poll, shot, cap>>
    BY <1>3 DEF Leave, NobodyViews, captureVars
  <2>. QED BY <1>0, <2>1 DEF AudienceInv, Fresh
<1>4. CASE Polling
  <2>1. CASE PollDemand
    <3>1. /\ poll'.pc # "answered" /\ poll'.epoch = 0
          /\ UNCHANGED <<epoch, viewing, restarted, shown, known, told, shot, cap>>
      BY <2>1 DEF PollDemand, NoPoll, captureVars
    <3>. QED BY <1>0, <3>1 DEF AudienceInv, Fresh
  <2>2. CASE PollServe
    <3>1. /\ poll'.epoch = epoch /\ poll'.audience = "now"
          /\ UNCHANGED <<epoch, viewing, restarted, shown, known, told, shot, cap>>
      BY <1>0, <2>2 DEF PollServe, Polls, captureVars
    <3>. QED BY <1>0, <3>1 DEF AudienceInv, Fresh
  <2>3. CASE PollFails
    <3>1. Quietly
      BY <1>0, <2>3, SyncedStep, StillQuiet DEF PollFails
    <3>2. poll'.pc = "idle" /\ poll'.epoch = 0
      BY <2>3 DEF PollFails, NoPoll
    <3>. QED BY <2>3, <3>1, <3>2, AudienceQuiet DEF PollFails
  <2>4. CASE PollAnswered
    <3>1. poll'.pc = "idle" /\ poll'.epoch = 0 /\ UNCHANGED <<epoch, viewing, restarted, shown>>
      BY <2>4 DEF PollAnswered, NoPoll
    <3>2. CASE PollCurrent
      <4>1. /\ Quietly
            /\ known # poll.epoch => ~shot'.valid /\ cap'.cache = None
        BY <2>4, <3>2, AnsweredStep DEF PollAnswered
      <4>2. /\ shot'.pc = shot.pc /\ shot'.audience = shot.audience /\ shot'.epoch = shot.epoch
            /\ shot'.valid => shot.valid
            /\ cap'.cache \in {cap.cache, None}
        BY <4>1 DEF Quietly, Quieter, State
      <4>3. known' = poll.epoch /\ told' = poll.audience /\ poll.pc = "answered"
        BY <2>4, <3>2 DEF PollAnswered
      <4>. QED BY <1>0, <3>1, <4>1, <4>2, <4>3 DEF AudienceInv, Fresh
    <3>3. CASE ~PollCurrent
      <4>1. UNCHANGED captureVars /\ UNCHANGED <<known, told>>
        BY <2>4, <3>3 DEF PollAnswered
      <4>. QED BY <3>1, <4>1, StillQuiet, AudienceQuiet
    <3>. QED BY <3>2, <3>3
  <2>. QED BY <1>4, <2>1, <2>2, <2>3, <2>4 DEF Polling
<1>5. CASE Sync
  BY <1>0, <1>5, SyncedStep, AudienceQuiet DEF Sync
<1>6. CASE Lan
  <2>1. CASE LanTrust \/ LanTrusted
    <3>1. UNCHANGED <<epoch, viewing, restarted, shown, known, told, poll, shot, cap>>
      BY <2>1 DEF LanTrust, LanTrusted, captureVars
    <3>. QED BY <3>1 DEF AudienceInv, Fresh
  <2>2. CASE LanLook \/ LanLeave
    <3>1. Quietly
      BY <1>0, <2>2, SyncedStep DEF LanLook, LanLeave
    <3>. QED BY <2>2, <3>1, AudienceQuiet DEF LanLook, LanLeave
  <2>. QED BY <1>6, <2>1, <2>2 DEF Lan
<1>7. CASE Shooting
  <2>0. UNCHANGED <<epoch, viewing, restarted, shown, known, told, poll>>
    BY <1>7 DEF Shooting, Shoot, ShotTaken, ShotDropped, ShotHidden, ShotTimesOut
  <2>1. CASE Shoot
    <3>1. shot'.pc = "taking" /\ shot'.audience = told /\ shot'.epoch = 0 /\ UNCHANGED cap
      BY <2>1 DEF Shoot, NoShot
    <3>. QED BY <1>0, <2>0, <3>1 DEF AudienceInv, Fresh
  <2>2. CASE ShotTaken
    <3>1. PICK picture \in {shot.audience, cap.cache} \ {None} :
            /\ cap' = [cap EXCEPT !.cache = picture, !.frame = @ \/ ShotCurrent]
            /\ shot' = NoShot \/ Upload(picture)
      BY <2>2 DEF ShotTaken
    <3>2. cap'.cache = picture /\ picture # None /\ shot.valid
      BY <1>0, <2>2, <3>1 DEF ShotTaken, Taken, Caps
    <3>3. ~restarted => Fresh(known, picture)
      BY <3>1, <3>2 DEF AudienceInv
    <3>4. /\ ~shot'.valid
          /\ \/ shot'.pc = "idle" /\ shot'.epoch = 0
             \/ shot'.pc = "sent" /\ shot'.epoch = known /\ shot'.audience = picture
      <4>1. CASE shot' = NoShot
        BY <4>1 DEF NoShot
      <4>2. CASE Upload(picture)
        <5>1. shot' = [NoShot EXCEPT !.pc = "sent", !.going = TRUE, !.audience = picture,
                                     !.token = token, !.epoch = known]
          BY <4>2 DEF Upload
        <5>. QED BY <5>1 DEF NoShot
      <4>. QED BY <3>1, <4>1, <4>2
    <3>. QED BY <1>0, <2>0, <3>2, <3>3, <3>4 DEF AudienceInv, Fresh
  <2>3. CASE ShotDropped \/ ShotHidden \/ ShotTimesOut
    <3>1. shot'.pc = "idle" /\ shot'.epoch = 0 /\ ~shot'.valid
      BY <2>3 DEF ShotDropped, ShotHidden, ShotTimesOut, NoShot
    <3>2. cap'.cache \in {cap.cache, None}
      <4>1. State \in States /\ State.cap = cap
        BY StateIn DEF State
      <4>2. ServiceStopped(State).cap.cache = None
        BY <1>0, <4>1, Stopping DEF Caps
      <4>. QED BY <1>0, <2>3, <4>2 DEF ShotDropped, ShotHidden, ShotTimesOut, Caps
    <3>. QED BY <1>0, <2>0, <3>1, <3>2 DEF AudienceInv, Fresh
  <2>. QED BY <1>7, <2>1, <2>2, <2>3 DEF Shooting
<1>8. CASE Uploading
  <2>1. /\ shot.pc = "sent" /\ shot'.pc = "idle" /\ shot'.epoch = 0 /\ ~shot'.valid
        /\ UNCHANGED <<epoch, viewing, restarted, known, told, poll>>
    BY <1>8 DEF Uploading, UploadServe, UploadFails, NoShot
  <2>2. cap'.cache = cap.cache
    BY <1>0, <1>8 DEF Uploading, UploadServe, UploadFails, Caps
  <2>3. CASE UploadServe
    <3>1. shown' = shot.audience /\ viewing > 0 /\ epoch = shot.epoch
      BY <2>3 DEF UploadServe
    <3>2. ~restarted => shown' # "old"
      BY <2>1, <3>1 DEF AudienceInv, Fresh
    <3>. QED BY <1>0, <2>1, <2>2, <3>2 DEF AudienceInv, Fresh
  <2>4. CASE UploadFails
    <3>1. UNCHANGED shown
      BY <2>4 DEF UploadFails
    <3>. QED BY <1>0, <2>1, <2>2, <3>1 DEF AudienceInv, Fresh
  <2>. QED BY <1>8, <2>3, <2>4 DEF Uploading
<1>9. CASE Tick
  <2>1. /\ UNCHANGED <<epoch, restarted, known, told, shot, cap>>
        /\ viewing' > 0 => viewing > 0
        /\ shown' \in {shown, None}
    BY <1>0, <1>9 DEF Tick, Less, captureVars
  <2>2. poll'.pc = poll.pc /\ poll'.epoch = poll.epoch /\ poll'.audience = poll.audience
    BY <1>0, <1>9 DEF Tick, Polls
  <2>. QED BY <1>0, <2>1, <2>2 DEF AudienceInv, Fresh
<1>10. CASE UNCHANGED vars
  <2>1. UNCHANGED <<epoch, viewing, restarted, shown, known, told, poll, shot, cap>>
    BY <1>10 DEF vars, captureVars
  <2>. QED BY <2>1 DEF AudienceInv, Fresh
<1>. QED BY <1>1, <1>2, <1>3, <1>4, <1>5, <1>6, <1>7, <1>8, <1>9, <1>10 DEF CaptureNext

\* As long as the relay runs, no audience receives a picture that was captured for an
\* earlier one, whatever the order of polls, pictures and uploads (_pollScreenDemand,
\* upload_frame).
THEOREM AudiencesOnly == CaptureSpec => []AudienceOnly
<1>1. CaptureInit => TypeOK /\ AudienceInv
  BY TypeInit, AudienceInit
<1>2. TypeOK /\ AudienceInv /\ [CaptureNext]_vars => (TypeOK /\ AudienceInv)'
  BY TypeStep, AudienceStep
<1>3. AudienceInv => AudienceOnly
  BY DEF AudienceInv, AudienceOnly
<1>. QED BY <1>1, <1>2, <1>3, PTL DEF CaptureSpec
=============================================================================
