---------------------------- MODULE ScreenRelay ----------------------------
(***************************************************************************)
(* The screen of one device in the relay server (rdesk_server/main.rs):    *)
(* who is watching (screen_demands), under which capture epoch, the frame  *)
(* the host uploaded last, and the viewers that fetch it by HTTP or get it *)
(* over a WebSocket.                                                       *)
(*                                                                         *)
(* The handlers are tasks on several threads.  What one does under the     *)
(* demand lock of the device is one step; what it reads before or after is *)
(* a step of its own.                                                      *)
(***************************************************************************)
EXTENDS Integers, Sequences

CONSTANTS
  Tokens,        \* viewer tokens, each minted once
  Links,         \* WebSocket connections of viewers, each made once
  None,
  Lease,         \* SCREEN_LEASE_MS, in ticks
  Buffer         \* frames a broadcast channel holds for a receiver

CONSTANTS        \* the environment, and bounds of the model
  Modes,         \* kinds of hosts that register: "demand", "legacy"
  MaxEpoch

ASSUME RelayParameters ==
  /\ Lease \in Nat \ {0} /\ Buffer \in Nat \ {0} /\ MaxEpoch \in Nat
  /\ Modes \subseteq {"demand", "legacy"}
  /\ Tokens \cap Links = {}
  /\ None \notin Tokens /\ None \notin Nat

VARIABLES
  host,          \* previews[device]: none, or whether it captures on demand
  session,       \* viewer_sessions, for each token
  epoch,         \* ScreenDemand.epoch
  leases,        \* ScreenDemand.viewers
  frame,         \* frames[device]: the epoch the frame was captured for
  fetch,         \* fetch_frame in progress, for each token
  upload,        \* upload_frame in progress
  removal,       \* remove_preview_state in progress
  link,          \* handle_ws_viewer, for each connection
  watching,      \* viewers whose program still runs
  kept           \* ghost: an on-demand host has been registered all along

vars == <<kept, host, session, epoch, leases, frame, fetch, upload, removal, link, watching>>

-----------------------------------------------------------------------------
Keys == Tokens \cup Links
NoLease == [token |-> None, left |-> 0]
LeaseRecords == [token : Tokens \cup {None}, left : 0 .. Lease]

\* validate_viewer.
Open(t) == session[t] = "open"

Held(l) == {k \in Keys : l[k] # NoLease}
LeaseAlive(k) == leases[k].left > 0 /\ Open(leases[k].token)

\* clear_demand_frames: the frame of a legacy host stays warm.
ClearDemandFrames == IF host = "demand" THEN None ELSE frame

\* Mutant: expired leases stay until their viewer closes.
PrunedClosed(s) ==
  [k \in Keys |-> IF leases[k].token \in {t \in Tokens : s[t] = "open"}
                  THEN leases[k] ELSE NoLease]

\* prune_screen_demand's retain, with sessions s.
Pruned(s) ==
  [k \in Keys |-> IF leases[k].left > 0 /\ s[leases[k].token] = "open"
                  THEN leases[k] ELSE NoLease]

\* The leases become l; the frame goes with the last of them.
Become(l) ==
  /\ leases' = l
  /\ frame' = IF Held(leases) # {} /\ Held(l) = {} THEN ClearDemandFrames ELSE frame

NoFetch == [pc |-> "idle", since |-> 0]
NoUpload == [pc |-> "idle", epoch |-> 0, demand |-> FALSE]
LinkRecords ==
  [pc : {"new", "valid", "leased", "open", "pong", "busy", "closing", "gone"},
   token : Tokens \cup {None}, since : Nat, queue : Seq(Nat)]
NoLink == [pc |-> "new", token |-> None, since |-> 0, queue |-> <<>>]

\* The connection has a receiver of the broadcast channel.
Receiving(w) == link[w].pc \in {"open", "pong", "busy"}

Init ==
  /\ host \in Modes /\ kept = (host = "demand")
  /\ session = [t \in Tokens |-> "new"]
  /\ epoch = 0 /\ leases = [k \in Keys |-> NoLease] /\ frame = None
  /\ fetch = [t \in Tokens |-> NoFetch]
  /\ upload = NoUpload /\ removal = "no"
  /\ link = [w \in Links |-> NoLink]
  /\ watching = Tokens

-----------------------------------------------------------------------------
(* Registration and viewer sessions *)

\* register_preview: anew, or a heartbeat that may change the kind.
Register(mode) ==
  /\ mode \in Modes /\ host # mode
  /\ host' = mode /\ kept' = FALSE
  /\ UNCHANGED <<session, epoch, leases, frame, fetch, upload, removal, link, watching>>

\* resolve_preview finds the registration; the session is opened later,
\* after the host was asked or with no further look at the registration.
Resolve(t) ==
  /\ t \in watching /\ session[t] = "new" /\ host # "none"
  /\ session' = [session EXCEPT ![t] = "resolving"]
  /\ UNCHANGED <<kept, host, epoch, leases, frame, fetch, upload, removal, link, watching>>
Grant(t) ==
  /\ session[t] = "resolving"
  /\ session' = [session EXCEPT ![t] = "open"]
  /\ UNCHANGED <<kept, host, epoch, leases, frame, fetch, upload, removal, link, watching>>

\* disconnect_viewers_for_device, under the demand lock.
Disconnected ==
  /\ session' = [t \in Tokens |-> IF Open(t) THEN "over" ELSE session[t]]
  /\ leases' = [k \in Keys |-> NoLease]
  /\ frame' = None

\* The host asks for it.
DisconnectViewers ==
  /\ host # "none"
  /\ Disconnected
  /\ UNCHANGED <<kept, host, epoch, fetch, upload, removal, link, watching>>

\* remove_preview_state, for a host that unregisters or whose registration is
\* stale: the viewers, the registration, the frame.
RemoveViewers ==
  /\ host # "none" /\ removal = "no"
  /\ removal' = "viewers"
  /\ Disconnected
  /\ UNCHANGED <<kept, host, epoch, fetch, upload, link, watching>>
RemovePreview ==
  /\ removal = "viewers"
  /\ removal' = "preview"
  /\ host' = "none" /\ kept' = FALSE
  /\ UNCHANGED <<session, epoch, leases, frame, fetch, upload, link, watching>>
RemoveFrame ==
  /\ removal = "preview"
  /\ removal' = "no"
  /\ frame' = None
  /\ UNCHANGED <<kept, host, session, epoch, leases, fetch, upload, link, watching>>

\* cleanup_expired drops a session that was not used for VIEWER_SESSION_TTL_MS:
\* its last lease was renewed long ago.
ExpireSession(t) ==
  /\ Open(t)
  /\ \A k \in Keys : leases[k].token = t => leases[k].left = 0
  /\ session' = [session EXCEPT ![t] = "over"]
  /\ UNCHANGED <<kept, host, epoch, leases, frame, fetch, upload, removal, link, watching>>

\* cleanup_expired and host_screen_demand prune, under the demand lock.
PruneScreenDemand ==
  /\ Become(Pruned(session))
  /\ UNCHANGED <<kept, host, session, epoch, fetch, upload, removal, link, watching>>

-----------------------------------------------------------------------------
(* Leases *)

\* Mutant: the session is not looked at again under the lock.
RenewUnchecked(t, k) ==
  LET l == Pruned(session)
      first == Held(l) = {}
  IN  /\ first => epoch < MaxEpoch
      /\ epoch' = IF first THEN epoch + 1 ELSE epoch
      /\ leases' = [l EXCEPT ![k] = [token |-> t, left |-> Lease]]
      /\ frame' = IF first THEN ClearDemandFrames ELSE frame

\* renew_screen_lease: the first viewer starts an epoch.
RenewScreenLease(t, k) ==
  LET l == Pruned(session)
      first == Held(l) = {}
  IN  /\ Open(t)
      /\ first => epoch < MaxEpoch
      /\ epoch' = IF first THEN epoch + 1 ELSE epoch
      /\ leases' = [l EXCEPT ![k] = [token |-> t, left |-> Lease]]
      /\ frame' = IF first THEN ClearDemandFrames ELSE frame

RenewRefused(t) == ~Open(t) /\ Become(Pruned(session)) /\ UNCHANGED epoch

\* /session/screen/stop: the viewer leaves the screen and keeps its session.
StopViewerScreen(t) ==
  /\ t \in watching /\ Open(t)
  /\ leases' = [k \in Keys |-> IF leases[k].token = t THEN NoLease ELSE leases[k]]
  /\ frame' = IF Held(leases') = {} THEN ClearDemandFrames ELSE frame
  /\ UNCHANGED <<kept, host, session, epoch, fetch, upload, removal, link, watching>>

\* /session/close.
CloseViewerSession(t) ==
  /\ t \in watching /\ Open(t)
  /\ session' = [session EXCEPT ![t] = "over"]
  /\ Become(Pruned(session'))
  /\ UNCHANGED <<kept, host, epoch, fetch, upload, removal, link, watching>>

\* The viewer's program ends without a call.
Crash(t) ==
  /\ t \in watching
  /\ watching' = watching \ {t}
  /\ UNCHANGED <<kept, host, session, epoch, leases, frame, fetch, upload, removal, link>>

-----------------------------------------------------------------------------
(* fetch_frame *)

FetchFrame(t) ==
  /\ t \in watching /\ Open(t) /\ fetch[t].pc = "idle"
  /\ fetch' = [fetch EXCEPT ![t].pc = "valid"]
  /\ UNCHANGED <<kept, host, session, epoch, leases, frame, upload, removal, link, watching>>

FetchRenew(t) ==
  /\ fetch[t].pc = "valid"
  /\ \/ /\ RenewScreenLease(t, t)
        /\ fetch' = [fetch EXCEPT ![t] = [pc |-> "leased", since |-> epoch']]
     \/ /\ RenewRefused(t)
        /\ fetch' = [fetch EXCEPT ![t] = NoFetch]
  /\ UNCHANGED <<kept, host, session, upload, removal, link, watching>>

\* The reply: the frame there is now, if any.
FetchRead(t) ==
  /\ fetch[t].pc = "leased"
  /\ fetch' = [fetch EXCEPT ![t] = NoFetch]
  /\ UNCHANGED <<kept, host, session, epoch, leases, frame, upload, removal, link, watching>>

-----------------------------------------------------------------------------
(* upload_frame *)

\* The host's token is valid.  It sends a frame captured for an epoch it was
\* told of, and one that does not capture on demand names none.
UploadFrame(e) ==
  /\ upload.pc = "idle" /\ host # "none"
  /\ e = 0 <=> host = "legacy"
  /\ upload' = [pc |-> "valid", epoch |-> e, demand |-> FALSE]
  /\ UNCHANGED <<kept, host, session, epoch, leases, frame, fetch, removal, link, watching>>

\* on_demand is read before the demand lock is taken.
UploadMode ==
  /\ upload.pc = "valid"
  /\ upload' = [upload EXCEPT !.pc = "mode", !.demand = (host = "demand")]
  /\ UNCHANGED <<kept, host, session, epoch, leases, frame, fetch, removal, link, watching>>

\* A receiver that lags loses the oldest frame.
Broadcast(q) == IF Len(q) < Buffer THEN Append(q, upload.epoch)
                ELSE Append(Tail(q), upload.epoch)

\* Mutant: an upload counts for whoever watches.
UploadCurrentAny(l) == upload.demand => Held(l) # {}

\* Otherwise 409.
UploadCurrent(l) == upload.demand => Held(l) # {} /\ upload.epoch = epoch

UploadCommit ==
  LET l == Pruned(session)
  IN  /\ upload.pc = "mode"
      /\ upload' = NoUpload
      /\ IF UploadCurrent(l)
         THEN /\ leases' = l /\ frame' = upload.epoch
              /\ link' = [w \in Links |-> IF Receiving(w)
                            THEN [link[w] EXCEPT !.queue = Broadcast(@)] ELSE link[w]]
         ELSE Become(l) /\ UNCHANGED link
      /\ UNCHANGED <<kept, host, session, epoch, fetch, removal, watching>>

-----------------------------------------------------------------------------
(* handle_ws_viewer *)

Connect(w, t) ==
  /\ t \in watching /\ Open(t) /\ link[w].pc = "new"
  /\ link' = [link EXCEPT ![w].pc = "valid", ![w].token = t]
  /\ UNCHANGED <<kept, host, session, epoch, leases, frame, fetch, upload, removal, watching>>

LinkRenew(w) ==
  /\ link[w].pc = "valid"
  /\ \/ /\ RenewScreenLease(link[w].token, w)
        /\ link' = [link EXCEPT ![w].pc = "leased", ![w].since = epoch']
     \/ /\ RenewRefused(link[w].token)
        /\ link' = [link EXCEPT ![w].pc = "gone"]
  /\ UNCHANGED <<kept, host, session, fetch, upload, removal, watching>>

LinkSubscribe(w) ==
  /\ link[w].pc = "leased"
  /\ link' = [link EXCEPT ![w].pc = "open"]
  /\ UNCHANGED <<kept, host, session, epoch, leases, frame, fetch, upload, removal, watching>>

\* A frame is sent, or a ping; a link with no lease ends.
LinkFrame(w) ==
  /\ link[w].pc = "open" /\ link[w].queue # <<>>
  /\ link' = [link EXCEPT ![w].pc = IF LeaseAlive(w) THEN "open" ELSE "closing",
                          ![w].queue = Tail(@)]
  /\ UNCHANGED <<kept, host, session, epoch, leases, frame, fetch, upload, removal, watching>>
LinkPing(w) ==
  /\ link[w].pc = "open" /\ ~LeaseAlive(w)
  /\ link' = [link EXCEPT ![w].pc = "closing"]
  /\ UNCHANGED <<kept, host, session, epoch, leases, frame, fetch, upload, removal, watching>>

\* A pong renews a lease that is alive: two looks at the demand.
LinkPong(w) ==
  /\ link[w].pc = "open" /\ link[w].token \in watching
  /\ link' = [link EXCEPT ![w].pc = IF LeaseAlive(w) THEN "pong" ELSE "closing"]
  /\ UNCHANGED <<kept, host, session, epoch, leases, frame, fetch, upload, removal, watching>>
PongRenew(w) ==
  /\ link[w].pc = "pong"
  /\ \/ /\ RenewScreenLease(link[w].token, w)
        /\ link' = [link EXCEPT ![w].pc = "open"]
     \/ /\ RenewRefused(link[w].token)
        /\ link' = [link EXCEPT ![w].pc = "closing"]
  /\ UNCHANGED <<kept, host, session, fetch, upload, removal, watching>>

\* A command of the viewer: until the host has answered it, or the wait for that is
\* over, the connection neither sends frames and pings nor reads pongs.
LinkCommand(w) ==
  /\ link[w].pc = "open" /\ link[w].token \in watching
  /\ link' = [link EXCEPT ![w].pc = IF Open(link[w].token) THEN "busy" ELSE "closing"]
  /\ UNCHANGED <<kept, host, session, epoch, leases, frame, fetch, upload, removal, watching>>
LinkAnswered(w) ==
  /\ link[w].pc = "busy"
  /\ link' = [link EXCEPT ![w].pc = "open"]
  /\ UNCHANGED <<kept, host, session, epoch, leases, frame, fetch, upload, removal, watching>>

\* The peer closes, or a send times out.
LinkClose(w) ==
  /\ link[w].pc = "open"
  /\ link' = [link EXCEPT ![w].pc = "closing"]
  /\ UNCHANGED <<kept, host, session, epoch, leases, frame, fetch, upload, removal, watching>>

\* release_screen_lease.
LinkRelease(w) ==
  /\ link[w].pc = "closing"
  /\ link' = [link EXCEPT ![w].pc = "gone", ![w].queue = <<>>]
  /\ leases' = [Pruned(session) EXCEPT ![w] = NoLease]
  /\ frame' = IF Held(leases') = {} THEN ClearDemandFrames ELSE frame
  /\ UNCHANGED <<kept, host, session, epoch, fetch, upload, removal, watching>>

-----------------------------------------------------------------------------
Tick ==
  /\ \E k \in Keys : leases[k].left > 0
  /\ leases' = [k \in Keys |-> IF leases[k].left > 0
                               THEN [leases[k] EXCEPT !.left = @ - 1] ELSE leases[k]]
  /\ UNCHANGED <<kept, host, session, epoch, frame, fetch, upload, removal, link, watching>>

Viewer(t) ==
  \/ Resolve(t) \/ Grant(t) \/ ExpireSession(t) \/ Crash(t)
  \/ StopViewerScreen(t) \/ CloseViewerSession(t)
  \/ FetchFrame(t) \/ FetchRenew(t) \/ FetchRead(t)

Link(w) ==
  \/ \E t \in Tokens : Connect(w, t)
  \/ LinkRenew(w) \/ LinkSubscribe(w) \/ LinkFrame(w) \/ LinkPing(w)
  \/ LinkPong(w) \/ PongRenew(w) \/ LinkCommand(w) \/ LinkAnswered(w)
  \/ LinkClose(w) \/ LinkRelease(w)

Host ==
  \/ \E mode \in Modes : Register(mode)
  \/ DisconnectViewers \/ RemoveViewers \/ RemovePreview \/ RemoveFrame
  \/ \E e \in 0 .. epoch : UploadFrame(e)
  \/ UploadMode \/ UploadCommit

Next ==
  \/ Host \/ PruneScreenDemand \/ Tick
  \/ \E t \in Tokens : Viewer(t)
  \/ \E w \in Links : Link(w)

Spec == Init /\ [][Next]_vars

\* Time passes, the cleanup task runs, and a handler that was called goes on;
\* nothing is asked of hosts and viewers.
FairSpec ==
  /\ Spec
  /\ WF_vars(Tick) /\ WF_vars(PruneScreenDemand)
  /\ \A t \in Tokens : WF_vars(FetchRenew(t))
  /\ \A w \in Links : /\ WF_vars(LinkRenew(w)) /\ WF_vars(LinkSubscribe(w))
                      /\ WF_vars(PongRenew(w))

-----------------------------------------------------------------------------
TypeOK ==
  /\ host \in {"none", "demand", "legacy"}
  /\ session \in [Tokens -> {"new", "resolving", "open", "over"}]
  /\ epoch \in Nat
  /\ leases \in [Keys -> LeaseRecords]
  /\ frame \in Nat \cup {None}
  /\ fetch \in [Tokens -> [pc : {"idle", "valid", "leased"}, since : Nat]]
  /\ upload \in [pc : {"idle", "valid", "mode"}, epoch : Nat, demand : BOOLEAN]
  /\ removal \in {"no", "viewers", "preview"}
  /\ link \in [Links -> LinkRecords]
  /\ \A w \in Links : /\ Len(link[w].queue) <= Buffer
                      /\ link[w].pc # "new" => link[w].token \in Tokens
  /\ watching \subseteq Tokens /\ kept \in BOOLEAN

\* Who can make the host capture has been let in, and not closed or thrown out
\* since, though a renewal is in progress meanwhile (renew_screen_lease checks
\* again under the lock).
LeaseHasSession ==
  \A k \in Keys : leases[k].left > 0 => leases[k].token \in Tokens /\ Open(leases[k].token)

\* While an on-demand host stays registered, the server keeps no frame but one
\* captured for the viewers it has now: none when the last has gone.
FrameOfAudience ==
  kept /\ frame # None => Held(leases) # {} /\ frame = epoch

\* A stopped or replaced audience cannot receive an upload that was in flight
\* for its predecessor (the comment in upload_frame).
NoPredecessor ==
  host = "demand" /\ frame # None /\ Held(leases) # {} => frame = epoch

\* Nor does a viewer get a frame captured before it came: neither from a fetch that
\* reads after it has let the lock go, nor from the buffer of a WebSocket.
OwnAudience ==
  kept =>
  /\ \A t \in Tokens : fetch[t].pc = "leased" /\ frame # None => frame >= fetch[t].since
  /\ \A w \in Links : \A i \in 1 .. Len(link[w].queue) : link[w].queue[i] >= link[w].since

\* Once every viewer's program has died, the host is told to stop and the
\* frame is gone, for good, with no help of the host
\* (crashed_viewer_expires_without_frames_or_host_recovery).
CrashedExpire ==
  watching = {} ~> [](Held(leases) = {} /\ (kept => frame = None))
=============================================================================
