------------------------- MODULE ScreenRelayProofs -------------------------
(***************************************************************************)
(* Proofs about ScreenRelay, for any viewers, connections and lease: who   *)
(* makes the host capture has a session; and, while an on-demand host      *)
(* stays registered, a frame reaches only the viewers it was captured for. *)
(***************************************************************************)
EXTENDS ScreenRelay, SequenceTheorems, TLAPS

-----------------------------------------------------------------------------
LEMMA Pruning ==
  ASSUME leases \in [Keys -> LeaseRecords], NEW s
  PROVE  /\ Pruned(s) \in [Keys -> LeaseRecords]
         /\ \A k \in Keys : Pruned(s)[k].left > 0 =>
              Pruned(s)[k] = leases[k] /\ s[leases[k].token] = "open"
<1>1. NoLease \in LeaseRecords /\ NoLease.left = 0
  BY RelayParameters DEF NoLease, LeaseRecords
<1>. QED BY <1>1 DEF Pruned

LEMMA Renewed ==
  ASSUME TypeOK, NEW t \in Tokens, NEW k \in Keys, RenewScreenLease(t, k)
  PROVE  /\ leases' \in [Keys -> LeaseRecords]
         /\ epoch' \in Nat /\ epoch' >= epoch
         /\ frame' \in Nat \cup {None}
         /\ Open(t)
         /\ leases'[k] = [token |-> t, left |-> Lease]
         /\ \A o \in Keys \ {k} : leases'[o] = Pruned(session)[o]
<1>1. Pruned(session) \in [Keys -> LeaseRecords]
  BY Pruning DEF TypeOK
<1>2. [token |-> t, left |-> Lease] \in LeaseRecords
  BY RelayParameters DEF LeaseRecords
<1>. QED BY <1>1, <1>2 DEF RenewScreenLease, ClearDemandFrames, TypeOK

LEMMA Became ==
  ASSUME TypeOK, NEW l \in [Keys -> LeaseRecords], Become(l)
  PROVE  leases' \in [Keys -> LeaseRecords] /\ frame' \in Nat \cup {None}
BY DEF TypeOK, Become, ClearDemandFrames

LEMMA Buffered ==
  ASSUME NEW q \in Seq(Nat), Len(q) <= Buffer, upload.epoch \in Nat
  PROVE  /\ Broadcast(q) \in Seq(Nat)
         /\ Len(Broadcast(q)) <= Buffer
         /\ \A i \in 1 .. Len(Broadcast(q)) :
              \/ Broadcast(q)[i] = upload.epoch
              \/ \E n \in 1 .. Len(q) : Broadcast(q)[i] = q[n]
<1>1. Buffer \in Nat \ {0}
  BY RelayParameters
<1>2. CASE Len(q) < Buffer
  BY <1>1, <1>2 DEF Broadcast
<1>3. CASE ~(Len(q) < Buffer)
  <2>1. q # <<>> /\ Len(q) \in Nat \ {0}
    BY <1>1, <1>3
  <2>2. /\ Tail(q) \in Seq(Nat) /\ Len(Tail(q)) = Len(q) - 1
        /\ \A i \in 1 .. Len(q) - 1 : Tail(q)[i] = q[i + 1]
    BY <2>1, HeadTailProperties
  <2>3. Broadcast(q) = Append(Tail(q), upload.epoch)
    BY <1>3 DEF Broadcast
  <2>4. /\ Broadcast(q) \in Seq(Nat) /\ Len(Broadcast(q)) = Len(q)
        /\ \A i \in 1 .. Len(q) - 1 : Broadcast(q)[i] = Tail(q)[i]
        /\ Broadcast(q)[Len(q)] = upload.epoch
    BY <2>1, <2>2, <2>3, AppendProperties
  <2>5. ASSUME NEW i \in 1 .. Len(q), i # Len(q)
        PROVE  i + 1 \in 1 .. Len(q) /\ Broadcast(q)[i] = q[i + 1]
    <3>1. i \in 1 .. Len(q) - 1 /\ i + 1 \in 1 .. Len(q)
      BY <2>1, <2>5
    <3>2. Broadcast(q)[i] = Tail(q)[i]
      BY <2>4, <3>1
    <3>3. Tail(q)[i] = q[i + 1]
      BY <2>2, <3>1
    <3>. QED BY <3>1, <3>2, <3>3
  <2>6. ASSUME NEW i \in 1 .. Len(Broadcast(q))
        PROVE  \/ Broadcast(q)[i] = upload.epoch
               \/ \E n \in 1 .. Len(q) : Broadcast(q)[i] = q[n]
    <3>1. i \in 1 .. Len(q)
      BY <2>4
    <3>2. CASE i = Len(q)
      BY <2>4, <3>2
    <3>3. CASE i # Len(q)
      BY <2>5, <3>1, <3>3
    <3>. QED BY <3>2, <3>3
  <2>. QED BY <2>4, <2>6
<1>. QED BY <1>2, <1>3

-----------------------------------------------------------------------------
Pcs == {"new", "valid", "leased", "open", "pong", "busy", "closing", "gone"}

LinksTyped(l) ==
  /\ l \in [Links -> LinkRecords]
  /\ \A w \in Links : /\ Len(l[w].queue) <= Buffer
                      /\ l[w].pc # "new" => l[w].token \in Tokens

\* A connection after an update of some of its fields.
LEMMA LinkUpdate ==
  ASSUME LinksTyped(link), NEW w \in Links, NEW r \in LinkRecords,
         r.token \in Tokens, Len(r.queue) <= Buffer, link' = [link EXCEPT ![w] = r]
  PROVE  LinksTyped(link')
BY DEF LinksTyped

LEMMA LinkFields ==
  ASSUME LinksTyped(link), NEW w \in Links
  PROVE  /\ link[w] = [pc |-> link[w].pc, token |-> link[w].token,
                       since |-> link[w].since, queue |-> link[w].queue]
         /\ link[w].pc \in Pcs /\ link[w].since \in Nat /\ link[w].queue \in Seq(Nat)
         /\ Len(link[w].queue) <= Buffer
         /\ link[w].pc # "new" => link[w].token \in Tokens
BY DEF LinksTyped, LinkRecords, Pcs

LEMMA LinkAt ==
  ASSUME LinksTyped(link), NEW w \in Links, NEW p \in Pcs, link[w].pc # "new",
         link' = [link EXCEPT ![w].pc = p]
  PROVE  LinksTyped(link')
<1>. DEFINE r == [link[w] EXCEPT !.pc = p]
<1>1. link' = [link EXCEPT ![w] = r]
  OBVIOUS
<1>2. link[w] \in LinkRecords /\ link[w].token \in Tokens /\ Len(link[w].queue) <= Buffer
  BY DEF LinksTyped
<1>3. r \in LinkRecords /\ r.token \in Tokens /\ Len(r.queue) <= Buffer
  BY <1>2 DEF LinkRecords, Pcs
<1>. HIDE DEF r
<1>. QED BY <1>1, <1>3, LinkUpdate

LEMMA TypeInit == Init => TypeOK
<1>. SUFFICES ASSUME Init PROVE TypeOK
  OBVIOUS
<1>1. NoLease \in LeaseRecords
  BY RelayParameters DEF NoLease, LeaseRecords
<1>2. NoLink \in LinkRecords /\ Len(NoLink.queue) <= Buffer
  BY RelayParameters DEF NoLink, LinkRecords
<1>3. host \in {"none", "demand", "legacy"}
  BY RelayParameters DEF Init
<1>. QED BY <1>1, <1>2, <1>3 DEF Init, TypeOK, NoFetch, NoUpload, NoLink

LEMMA TypeStep == TypeOK /\ [Next]_vars => TypeOK'
<1>. SUFFICES ASSUME TypeOK, [Next]_vars PROVE TypeOK'
  OBVIOUS
<1>0. NoLease \in LeaseRecords
  BY RelayParameters DEF NoLease, LeaseRecords
<1>t. LinksTyped(link)
  BY DEF TypeOK, LinksTyped
<1>p. Pruned(session) \in [Keys -> LeaseRecords]
  BY Pruning DEF TypeOK
<1>r. ASSUME NEW t \in Tokens, RenewRefused(t)
      PROVE  leases' \in [Keys -> LeaseRecords] /\ frame' \in Nat \cup {None} /\ epoch' = epoch
  BY <1>p, <1>r, Became DEF RenewRefused
<1>1. ASSUME NEW mode \in Modes, Register(mode) PROVE TypeOK'
  BY <1>1, RelayParameters DEF Register, TypeOK
<1>2. ASSUME NEW t \in Tokens, Resolve(t) \/ Grant(t) \/ ExpireSession(t) PROVE TypeOK'
  BY <1>2 DEF Resolve, Grant, ExpireSession, TypeOK
<1>3. CASE DisconnectViewers
  BY <1>0, <1>3 DEF DisconnectViewers, Disconnected, TypeOK
<1>4. CASE RemoveViewers
  BY <1>0, <1>4 DEF RemoveViewers, Disconnected, TypeOK
<1>5. CASE RemovePreview \/ RemoveFrame
  BY <1>5 DEF RemovePreview, RemoveFrame, TypeOK
<1>6. CASE PruneScreenDemand
  <2>1. leases' \in [Keys -> LeaseRecords] /\ frame' \in Nat \cup {None}
    BY <1>6, <1>p, Became DEF PruneScreenDemand
  <2>. QED BY <1>6, <2>1 DEF PruneScreenDemand, TypeOK
<1>7. ASSUME NEW t \in Tokens, StopViewerScreen(t) PROVE TypeOK'
  <2>1. leases' \in [Keys -> LeaseRecords] /\ frame' \in Nat \cup {None}
    BY <1>0, <1>7 DEF StopViewerScreen, ClearDemandFrames, TypeOK
  <2>. QED BY <1>7, <2>1 DEF StopViewerScreen, TypeOK
<1>8. ASSUME NEW t \in Tokens, CloseViewerSession(t) PROVE TypeOK'
  <2>1. Pruned(session') \in [Keys -> LeaseRecords]
    BY Pruning DEF TypeOK
  <2>2. leases' \in [Keys -> LeaseRecords] /\ frame' \in Nat \cup {None}
    BY <1>8, <2>1, Became DEF CloseViewerSession
  <2>. QED BY <1>8, <2>2 DEF CloseViewerSession, TypeOK
<1>9. ASSUME NEW t \in Tokens, Crash(t) \/ FetchFrame(t) \/ FetchRead(t) PROVE TypeOK'
  <2>1. CASE Crash(t)
    BY <2>1 DEF Crash, TypeOK
  <2>2. CASE FetchFrame(t)
    BY <2>2 DEF FetchFrame, TypeOK
  <2>3. CASE FetchRead(t)
    BY <2>3 DEF FetchRead, NoFetch, TypeOK
  <2>. QED BY <1>9, <2>1, <2>2, <2>3
<1>10. ASSUME NEW t \in Tokens, FetchRenew(t) PROVE TypeOK'
  <2>1. CASE RenewScreenLease(t, t) /\ fetch' = [fetch EXCEPT ![t] = [pc |-> "leased", since |-> epoch']]
    <3>1. /\ leases' \in [Keys -> LeaseRecords] /\ epoch' \in Nat
          /\ frame' \in Nat \cup {None}
      BY <2>1, Renewed DEF Keys
    <3>. QED BY <1>10, <2>1, <3>1 DEF FetchRenew, TypeOK
  <2>2. CASE RenewRefused(t) /\ fetch' = [fetch EXCEPT ![t] = NoFetch]
    BY <1>10, <1>r, <2>2 DEF FetchRenew, NoFetch, TypeOK
  <2>. QED BY <1>10, <2>1, <2>2 DEF FetchRenew
<1>11. ASSUME NEW e \in 0 .. epoch, UploadFrame(e) PROVE TypeOK'
  BY <1>11 DEF UploadFrame, TypeOK
<1>12. CASE UploadMode
  BY <1>12 DEF UploadMode, TypeOK
<1>13. CASE UploadCommit
  <2>1. upload' \in [pc : {"idle", "valid", "mode"}, epoch : Nat, demand : BOOLEAN]
    BY <1>13 DEF UploadCommit, NoUpload
  <2>2. /\ leases' \in [Keys -> LeaseRecords] /\ frame' \in Nat \cup {None}
    BY <1>13, <1>p, Became DEF UploadCommit, TypeOK
  <2>3. LinksTyped(link')
    <3>1. CASE UNCHANGED link
      BY <1>t, <3>1
    <3>2. CASE link' = [w \in Links |-> IF Receiving(w)
                          THEN [link[w] EXCEPT !.queue = Broadcast(@)] ELSE link[w]]
      <4>1. ASSUME NEW w \in Links, NEW q \in Seq(Nat), q = Broadcast(link[w].queue)
            PROVE  /\ [link[w] EXCEPT !.queue = q] \in LinkRecords
                   /\ [link[w] EXCEPT !.queue = q].queue = q
                   /\ [link[w] EXCEPT !.queue = q].token = link[w].token
                   /\ [link[w] EXCEPT !.queue = q].pc = link[w].pc
        BY <1>t DEF LinksTyped, LinkRecords
      <4>2. ASSUME NEW w \in Links
            PROVE  Broadcast(link[w].queue) \in Seq(Nat) /\ Len(Broadcast(link[w].queue)) <= Buffer
        BY Buffered DEF TypeOK, LinkRecords
      <4>. QED BY <1>t, <3>2, <4>1, <4>2 DEF LinksTyped
    <3>. QED BY <1>13, <3>1, <3>2 DEF UploadCommit
  <2>. QED BY <1>13, <2>1, <2>2, <2>3 DEF UploadCommit, TypeOK, LinksTyped
<1>14. ASSUME NEW w \in Links, NEW t \in Tokens, Connect(w, t) PROVE TypeOK'
  <2>. DEFINE r == [link[w] EXCEPT !.pc = "valid", !.token = t]
  <2>1. link' = [link EXCEPT ![w] = r]
    BY <1>14 DEF Connect
  <2>a. link[w] \in LinkRecords /\ Len(link[w].queue) <= Buffer
    BY <1>t DEF LinksTyped
  <2>b. r \in LinkRecords /\ r.token \in Tokens /\ Len(r.queue) <= Buffer
    BY <2>a DEF LinkRecords
  <2>2. LinksTyped(link')
    <3>. HIDE DEF r
    <3>. QED BY <1>t, <2>1, <2>b, LinkUpdate
  <2>. QED BY <1>14, <2>2 DEF Connect, TypeOK, LinksTyped
<1>15. ASSUME NEW w \in Links, LinkRenew(w) \/ PongRenew(w) PROVE TypeOK'
  <2>1. link[w].token \in Tokens /\ link[w].pc # "new"
    BY <1>15 DEF LinkRenew, PongRenew, TypeOK
  <2>2. /\ leases' \in [Keys -> LeaseRecords] /\ epoch' \in Nat
        /\ frame' \in Nat \cup {None}
    BY <1>15, <1>r, <2>1, Renewed DEF LinkRenew, PongRenew, Keys, TypeOK
  <2>3. LinksTyped(link')
    <3>1. CASE \E p \in Pcs : link' = [link EXCEPT ![w].pc = p]
      BY <1>t, <2>1, <3>1, LinkAt
    <3>2. CASE link' = [link EXCEPT ![w].pc = "leased", ![w].since = epoch']
      <4>. DEFINE r == [link[w] EXCEPT !.pc = "leased", !.since = epoch']
      <4>1. link' = [link EXCEPT ![w] = r]
        BY <3>2
      <4>2. link[w] \in LinkRecords /\ Len(link[w].queue) <= Buffer
        BY <1>t DEF LinksTyped
      <4>3. r \in LinkRecords /\ r.token \in Tokens /\ Len(r.queue) <= Buffer
        BY <2>1, <2>2, <4>2 DEF LinkRecords
      <4>. HIDE DEF r
      <4>. QED BY <1>t, <4>1, <4>3, LinkUpdate
    <3>. QED BY <1>15, <3>1, <3>2 DEF LinkRenew, PongRenew, Pcs
  <2>. QED BY <1>15, <2>2, <2>3 DEF LinkRenew, PongRenew, TypeOK, LinksTyped
<1>16. ASSUME NEW w \in Links, \/ LinkSubscribe(w) \/ LinkPing(w) \/ LinkPong(w) \/ LinkClose(w)
                               \/ LinkCommand(w) \/ LinkAnswered(w)
       PROVE  TypeOK'
  <2>1. link[w].pc # "new" /\ \E p \in Pcs : link' = [link EXCEPT ![w].pc = p]
    BY <1>16 DEF LinkSubscribe, LinkPing, LinkPong, LinkCommand, LinkAnswered, LinkClose, Pcs
  <2>2. LinksTyped(link')
    BY <1>t, <2>1, LinkAt
  <2>. QED BY <1>16, <2>2 DEF LinkSubscribe, LinkPing, LinkPong, LinkCommand, LinkAnswered, LinkClose, TypeOK, LinksTyped
<1>17. ASSUME NEW w \in Links, LinkFrame(w) PROVE TypeOK'
  <2>1. link[w].queue \in Seq(Nat) /\ link[w].queue # <<>> /\ link[w].pc # "new"
    BY <1>17 DEF LinkFrame, TypeOK, LinkRecords
  <2>2. Tail(link[w].queue) \in Seq(Nat) /\ Len(Tail(link[w].queue)) = Len(link[w].queue) - 1
    BY <2>1, HeadTailProperties
  <2>3. Len(Tail(link[w].queue)) <= Buffer
    BY <2>1, <2>2, RelayParameters DEF TypeOK
  <2>4. PICK p \in Pcs : link' = [link EXCEPT ![w].pc = p, ![w].queue = Tail(@)]
    BY <1>17 DEF LinkFrame, Pcs
  <2>. DEFINE r == [link[w] EXCEPT !.pc = p, !.queue = Tail(link[w].queue)]
  <2>a. link' = [link EXCEPT ![w] = r]
    BY <2>4
  <2>b. link[w] \in LinkRecords /\ link[w].token \in Tokens
    BY <1>t, <2>1 DEF LinksTyped
  <2>c. r \in LinkRecords /\ r.token \in Tokens /\ Len(r.queue) <= Buffer
    BY <2>2, <2>3, <2>b DEF LinkRecords, Pcs
  <2>5. LinksTyped(link')
    <3>. HIDE DEF r
    <3>. QED BY <1>t, <2>a, <2>c, LinkUpdate
  <2>. QED BY <1>17, <2>5 DEF LinkFrame, TypeOK, LinksTyped
<1>18. ASSUME NEW w \in Links, LinkRelease(w) PROVE TypeOK'
  <2>1. leases' \in [Keys -> LeaseRecords] /\ frame' \in Nat \cup {None}
    BY <1>0, <1>p, <1>18 DEF LinkRelease, ClearDemandFrames, TypeOK
  <2>2. <<>> \in Seq(Nat) /\ Len(<<>>) <= Buffer
    BY RelayParameters
  <2>3. link \in [Links -> LinkRecords] /\ link' = [link EXCEPT ![w].pc = "gone", ![w].queue = <<>>]
    BY <1>18 DEF LinkRelease, TypeOK
  <2>4. /\ link' = [link EXCEPT ![w] = link'[w]]
        /\ link'[w] \in LinkRecords /\ link'[w].token = link[w].token /\ link'[w].queue = <<>>
    BY <2>2, <2>3 DEF LinkRecords
  <2>. QED BY <1>18, <2>1, <2>2, <2>3, <2>4 DEF LinkRelease, TypeOK
<1>19. CASE Tick
  <2>1. ASSUME NEW k \in Keys, leases[k].left > 0
        PROVE  [leases[k] EXCEPT !.left = @ - 1] \in LeaseRecords
    <3>1. leases[k] \in LeaseRecords /\ leases[k].left - 1 \in 0 .. Lease
      BY <2>1, RelayParameters DEF TypeOK, LeaseRecords
    <3>. QED BY <3>1 DEF LeaseRecords
  <2>2. leases' \in [Keys -> LeaseRecords]
    BY <1>19, <2>1 DEF Tick, TypeOK
  <2>. QED BY <1>19, <2>2 DEF Tick, TypeOK
<1>20. CASE UNCHANGED vars
  BY <1>20 DEF vars, TypeOK
<1>. QED
  BY <1>1, <1>2, <1>3, <1>4, <1>5, <1>6, <1>7, <1>8, <1>9, <1>10, <1>11, <1>12, <1>13, <1>14,
     <1>15, <1>16, <1>17, <1>18, <1>19, <1>20
  DEF Next, Host, Viewer, Link

\* Every variable has its type.
THEOREM TypeCorrect == Spec => []TypeOK
BY TypeInit, TypeStep, PTL DEF Spec

-----------------------------------------------------------------------------
(***************************************************************************)
(* A live lease has a session.                                             *)
(***************************************************************************)

LEMMA SessionInit == Init => LeaseHasSession
BY DEF Init, LeaseHasSession, NoLease

LEMMA SessionStep == TypeOK /\ LeaseHasSession /\ [Next]_vars => LeaseHasSession'
<1>. SUFFICES ASSUME TypeOK, LeaseHasSession, [Next]_vars PROVE LeaseHasSession'
  OBVIOUS
<1>0. /\ leases \in [Keys -> LeaseRecords] /\ NoLease.left = 0
      /\ session \in [Tokens -> {"new", "resolving", "open", "over"}]
  BY DEF TypeOK, NoLease
<1>1. ASSUME \A k \in Keys : leases'[k].left > 0 =>
               \/ leases'[k] = leases[k]
               \/ leases'[k].token = leases[k].token /\ leases[k].left > 0,
             UNCHANGED session
      PROVE  LeaseHasSession'
  BY <1>1 DEF LeaseHasSession, Open
<1>2. ASSUME Become(Pruned(session)), UNCHANGED session PROVE LeaseHasSession'
  BY <1>0, <1>1, <1>2, Pruning DEF Become
<1>3. ASSUME NEW t \in Tokens, NEW k \in Keys, RenewScreenLease(t, k), UNCHANGED session
      PROVE  LeaseHasSession'
  <2>a. Open(t) /\ leases'[k] = [token |-> t, left |-> Lease]
    BY <1>3, Renewed
  <2>1. Open(t) /\ leases'[k].token = t
    BY <2>a
  <2>2. \A o \in Keys \ {k} : leases'[o].left > 0 => leases'[o] = leases[o]
    BY <1>0, <1>3, Renewed, Pruning
  <2>. QED BY <1>3, <2>1, <2>2 DEF LeaseHasSession, Open
<1>4. ASSUME UNCHANGED <<session, leases>> PROVE LeaseHasSession'
  BY <1>4 DEF LeaseHasSession, Open
<1>5. ASSUME Disconnected PROVE LeaseHasSession'
  BY <1>0, <1>5 DEF Disconnected, LeaseHasSession
<1>6. CASE \E mode \in Modes : Register(mode)
  BY <1>4, <1>6 DEF Register
<1>7. ASSUME NEW t \in Tokens, Resolve(t) \/ Grant(t) PROVE LeaseHasSession'
  BY <1>0, <1>7 DEF Resolve, Grant, LeaseHasSession, Open
<1>8. ASSUME NEW t \in Tokens, ExpireSession(t) PROVE LeaseHasSession'
  BY <1>0, <1>8 DEF ExpireSession, LeaseHasSession, Open
<1>9. CASE DisconnectViewers \/ RemoveViewers
  BY <1>5, <1>9 DEF DisconnectViewers, RemoveViewers
<1>10. CASE RemovePreview \/ RemoveFrame
  BY <1>4, <1>10 DEF RemovePreview, RemoveFrame
<1>11. CASE PruneScreenDemand
  BY <1>2, <1>11 DEF PruneScreenDemand
<1>12. ASSUME NEW t \in Tokens, StopViewerScreen(t) PROVE LeaseHasSession'
  BY <1>0, <1>1, <1>12 DEF StopViewerScreen
<1>13. ASSUME NEW t \in Tokens, CloseViewerSession(t) PROVE LeaseHasSession'
  <2>1. leases' = Pruned(session')
    BY <1>13 DEF CloseViewerSession, Become
  <2>2. \A k \in Keys : leases'[k].left > 0 =>
          leases'[k] = leases[k] /\ session'[leases[k].token] = "open"
    BY <1>0, <2>1, Pruning
  <2>. QED BY <2>2 DEF LeaseHasSession, Open
<1>14. ASSUME NEW t \in Tokens, Crash(t) \/ FetchFrame(t) \/ FetchRead(t) PROVE LeaseHasSession'
  BY <1>4, <1>14 DEF Crash, FetchFrame, FetchRead
<1>15. ASSUME NEW t \in Tokens, FetchRenew(t) PROVE LeaseHasSession'
  BY <1>2, <1>3, <1>15 DEF FetchRenew, RenewRefused, Keys
<1>16. CASE UploadMode \/ \E e \in 0 .. epoch : UploadFrame(e)
  BY <1>4, <1>16 DEF UploadMode, UploadFrame
<1>17. CASE UploadCommit
  <2>1. leases' = Pruned(session) /\ UNCHANGED session
    BY <1>17 DEF UploadCommit, Become
  <2>. QED BY <1>0, <1>1, <2>1, Pruning
<1>18. ASSUME NEW w \in Links, LinkRenew(w) \/ PongRenew(w) PROVE LeaseHasSession'
  <2>1. link[w].token \in Tokens /\ w \in Keys
    BY <1>18 DEF LinkRenew, PongRenew, TypeOK, Keys
  <2>. QED BY <1>2, <1>3, <1>18, <2>1 DEF LinkRenew, PongRenew, RenewRefused
<1>19. ASSUME NEW w \in Links, \/ \E t \in Tokens : Connect(w, t)
                               \/ LinkSubscribe(w) \/ LinkPing(w) \/ LinkPong(w)
                               \/ LinkCommand(w) \/ LinkAnswered(w)
                               \/ LinkClose(w) \/ LinkFrame(w)
       PROVE  LeaseHasSession'
  BY <1>4, <1>19 DEF Connect, LinkSubscribe, LinkPing, LinkPong, LinkCommand, LinkAnswered, LinkClose, LinkFrame
<1>20. ASSUME NEW w \in Links, LinkRelease(w) PROVE LeaseHasSession'
  <2>1. leases' = [Pruned(session) EXCEPT ![w] = NoLease] /\ UNCHANGED session
    BY <1>20 DEF LinkRelease
  <2>. QED BY <1>0, <1>1, <2>1, Pruning
<1>21. CASE Tick
  <2>1. \A k \in Keys : leases'[k].left > 0 =>
          \/ leases'[k] = leases[k]
          \/ leases'[k].token = leases[k].token /\ leases[k].left > 0
    BY <1>0, <1>21 DEF Tick, LeaseRecords
  <2>. QED BY <1>1, <1>21, <2>1 DEF Tick
<1>22. CASE UNCHANGED vars
  BY <1>4, <1>22 DEF vars
<1>. QED
  BY <1>6, <1>7, <1>8, <1>9, <1>10, <1>11, <1>12, <1>13, <1>14, <1>15, <1>16, <1>17, <1>18,
     <1>19, <1>20, <1>21, <1>22
  DEF Next, Host, Viewer, Link

\* Nobody whose session is closed, expired or thrown out makes the host
\* capture, however its renewal is interleaved with that.
THEOREM LeasesAuthorized == Spec => []LeaseHasSession
<1>1. TypeOK /\ LeaseHasSession /\ [Next]_vars => TypeOK' /\ LeaseHasSession'
  BY TypeStep, SessionStep
<1>. QED BY TypeInit, SessionInit, <1>1, PTL DEF Spec

-----------------------------------------------------------------------------
(***************************************************************************)
(* While an on-demand host stays registered.                               *)
(***************************************************************************)
CurrentFrame == frame # None => Held(leases) # {} /\ frame = epoch

\* The upload in progress knows that the host captures on demand, and whoever
\* watches came in this epoch or before it.
SteadyInv ==
  /\ host = "demand"
  /\ upload.pc = "mode" => upload.demand
  /\ CurrentFrame
  /\ \A t \in Tokens : fetch[t].since <= epoch
  /\ \A w \in Links :
       /\ link[w].since <= epoch
       /\ link[w].pc \in {"new", "valid", "leased"} => link[w].queue = <<>>
       /\ \A i \in 1 .. Len(link[w].queue) : link[w].queue[i] >= link[w].since

LEMMA SteadyStart == Init /\ kept => SteadyInv
<1>. SUFFICES ASSUME Init, kept PROVE SteadyInv
  OBVIOUS
<1>1. Len(NoLink.queue) = 0 /\ NoLink.since = 0
  BY DEF NoLink
<1>2. host = "demand"
  BY DEF Init
<1>. QED BY <1>1, <1>2 DEF Init, SteadyInv, CurrentFrame, NoFetch, NoUpload, NoLink

\* A host that has left or changed its kind never counts as kept again.
LEMMA NotKeptAgain == [Next]_vars => (kept' => kept)
<1>. SUFFICES ASSUME [Next]_vars PROVE kept' => kept
  OBVIOUS
<1>1. CASE Host
  BY <1>1 DEF Host, Register, DisconnectViewers, RemoveViewers, RemovePreview, RemoveFrame,
              UploadFrame, UploadMode, UploadCommit
<1>2. CASE \E t \in Tokens : Viewer(t)
  BY <1>2 DEF Viewer, Resolve, Grant, ExpireSession, Crash, StopViewerScreen, CloseViewerSession,
              FetchFrame, FetchRenew, FetchRead
<1>3. CASE \E w \in Links : Link(w)
  BY <1>3 DEF Link, Connect, LinkRenew, LinkSubscribe, LinkFrame, LinkPing, LinkPong, PongRenew,
              LinkCommand, LinkAnswered, LinkClose, LinkRelease
<1>. QED BY <1>1, <1>2, <1>3 DEF Next, PruneScreenDemand, Tick, vars

LEMMA SteadyStep ==
  /\ TypeOK /\ TypeOK' /\ LeaseHasSession
  /\ kept => SteadyInv
  /\ [Next]_vars
  => (kept' => SteadyInv')
<1>. SUFFICES ASSUME TypeOK, TypeOK', LeaseHasSession, kept => SteadyInv, [Next]_vars, kept'
              PROVE  SteadyInv'
  OBVIOUS
<1>. SUFFICES ASSUME SteadyInv PROVE SteadyInv'
  BY NotKeptAgain
<1>0. /\ host = "demand" /\ ClearDemandFrames = None
      /\ epoch \in Nat /\ leases \in [Keys -> LeaseRecords]
      /\ LinksTyped(link)
  BY DEF SteadyInv, TypeOK, ClearDemandFrames, LinksTyped
<1>f. frame # None => Held(leases) # {} /\ frame = epoch
  BY DEF SteadyInv, CurrentFrame
<1>a. ASSUME UNCHANGED <<host, upload, link>>,
             epoch' >= epoch, frame' # None => Held(leases') # {} /\ frame' = epoch',
             \A t \in Tokens : fetch'[t].since <= epoch'
      PROVE  SteadyInv'
  BY <1>0, <1>a DEF SteadyInv, CurrentFrame, TypeOK, LinksTyped, LinkRecords
<1>b. ASSUME UNCHANGED <<host, epoch, leases, frame>>,
             \A t \in Tokens : fetch'[t].since <= epoch,
             upload'.pc = "mode" => upload'.demand,
             UNCHANGED link
      PROVE  SteadyInv'
  BY <1>0, <1>b, <1>f DEF SteadyInv, CurrentFrame, Held
<1>c. ASSUME NEW w \in Links, UNCHANGED <<host, upload, fetch>>,
             epoch' >= epoch, frame' # None => Held(leases') # {} /\ frame' = epoch',
             \A o \in Links \ {w} : link'[o] = link[o],
             link'[w].since <= epoch',
             link'[w].pc \in {"new", "valid", "leased"} => link'[w].queue = <<>>,
             \A i \in 1 .. Len(link'[w].queue) : link'[w].queue[i] >= link'[w].since
      PROVE  SteadyInv'
  <2>1. \A o \in Links \ {w} : link'[o].since <= epoch'
    BY <1>0, <1>c DEF SteadyInv, TypeOK, LinksTyped, LinkRecords
  <2>2. \A t \in Tokens : fetch'[t].since <= epoch'
    BY <1>0, <1>c DEF SteadyInv, TypeOK
  <2>. QED BY <1>0, <1>c, <2>1, <2>2 DEF SteadyInv, CurrentFrame
<1>d. ASSUME NEW l, Become(l)
      PROVE  frame' # None => Held(leases') # {} /\ frame' = epoch
  BY <1>0, <1>d, <1>f DEF Become
<1>e. ASSUME NEW t \in Tokens, NEW k \in Keys, RenewScreenLease(t, k)
      PROVE  /\ epoch' >= epoch /\ epoch' \in Nat
             /\ frame' # None => Held(leases') # {} /\ frame' = epoch'
  <2>1. leases'[k] = [token |-> t, left |-> Lease] /\ epoch' >= epoch /\ epoch' \in Nat
    BY <1>e, Renewed
  <2>2. Held(leases') # {}
    BY <2>1, RelayParameters DEF Held, NoLease
  <2>3. CASE Held(Pruned(session)) = {}
    BY <1>0, <1>e, <2>3, <2>1 DEF RenewScreenLease
  <2>4. CASE Held(Pruned(session)) # {}
    BY <1>0, <1>e, <1>f, <2>1, <2>2, <2>4 DEF RenewScreenLease
  <2>. QED BY <2>3, <2>4
<1>g. ASSUME NEW t, RenewRefused(t)
      PROVE  epoch' = epoch /\ (frame' # None => Held(leases') # {} /\ frame' = epoch)
  BY <1>d, <1>g DEF RenewRefused
<1>1. CASE \E mode \in Modes : Register(mode)
  BY <1>1 DEF Register
<1>2. ASSUME NEW t \in Tokens, Resolve(t) \/ Grant(t) \/ ExpireSession(t) \/ Crash(t)
      PROVE  SteadyInv'
  BY <1>0, <1>2, <1>b DEF Resolve, Grant, ExpireSession, Crash, SteadyInv
<1>3. CASE DisconnectViewers
  BY <1>0, <1>3, <1>a DEF DisconnectViewers, Disconnected, SteadyInv
<1>4. CASE RemoveViewers \/ RemovePreview \/ RemoveFrame
  <2>1. UNCHANGED <<host, upload, link, fetch, epoch>> /\ frame' = None
    BY <1>4 DEF RemoveViewers, RemovePreview, RemoveFrame, Disconnected
  <2>2. \A t \in Tokens : fetch'[t].since <= epoch'
    BY <2>1 DEF SteadyInv
  <2>. QED BY <1>0, <1>a, <2>1, <2>2
<1>5. CASE PruneScreenDemand
  BY <1>0, <1>5, <1>a, <1>d DEF PruneScreenDemand, SteadyInv
<1>6. ASSUME NEW t \in Tokens, StopViewerScreen(t) PROVE SteadyInv'
  <2>1. frame' # None => Held(leases') # {} /\ frame' = epoch
    BY <1>0, <1>6, <1>f DEF StopViewerScreen
  <2>2. UNCHANGED <<host, upload, link, fetch, epoch>>
    BY <1>6 DEF StopViewerScreen
  <2>3. \A o \in Tokens : fetch'[o].since <= epoch'
    BY <2>2 DEF SteadyInv
  <2>. QED BY <1>0, <1>a, <2>1, <2>2, <2>3
<1>7. ASSUME NEW t \in Tokens, CloseViewerSession(t) PROVE SteadyInv'
  BY <1>0, <1>7, <1>a, <1>d DEF CloseViewerSession, SteadyInv
<1>8. ASSUME NEW t \in Tokens, FetchFrame(t) \/ FetchRead(t) PROVE SteadyInv'
  <2>1. \A o \in Tokens : fetch'[o].since <= epoch
    <3>1. \A o \in Tokens : fetch[o].since <= epoch
      BY DEF SteadyInv
    <3>2. CASE FetchFrame(t)
      BY <3>1, <3>2 DEF FetchFrame, TypeOK
    <3>3. CASE FetchRead(t)
      BY <1>0, <3>1, <3>3 DEF FetchRead, NoFetch, TypeOK
    <3>. QED BY <1>8, <3>2, <3>3
  <2>. QED BY <1>8, <1>b, <2>1 DEF FetchFrame, FetchRead, SteadyInv
<1>9. ASSUME NEW t \in Tokens, FetchRenew(t) PROVE SteadyInv'
  <2>1. CASE RenewScreenLease(t, t) /\ fetch' = [fetch EXCEPT ![t] = [pc |-> "leased", since |-> epoch']]
    <3>1. /\ epoch' >= epoch /\ epoch' \in Nat
          /\ frame' # None => Held(leases') # {} /\ frame' = epoch'
      BY <1>e, <2>1 DEF Keys
    <3>2. \A o \in Tokens : fetch'[o].since <= epoch'
      BY <1>0, <2>1, <3>1 DEF SteadyInv, TypeOK
    <3>. QED BY <1>9, <1>a, <3>1, <3>2 DEF FetchRenew
  <2>2. CASE RenewRefused(t) /\ fetch' = [fetch EXCEPT ![t] = NoFetch]
    <3>1. \A o \in Tokens : fetch'[o].since <= epoch
      BY <1>0, <2>2 DEF SteadyInv, TypeOK, NoFetch
    <3>. QED BY <1>0, <1>9, <1>a, <1>g, <2>2, <3>1 DEF FetchRenew
  <2>. QED BY <1>9, <2>1, <2>2 DEF FetchRenew
<1>10. ASSUME NEW e \in 0 .. epoch, UploadFrame(e) PROVE SteadyInv'
  BY <1>10, <1>b DEF UploadFrame, SteadyInv
<1>11. CASE UploadMode
  BY <1>0, <1>11, <1>b DEF UploadMode, SteadyInv, TypeOK
<1>12. CASE UploadCommit
  <2>. DEFINE l == Pruned(session)
  <2>1. /\ UNCHANGED <<host, epoch, fetch>> /\ upload'.pc = "idle" /\ upload.demand
    BY <1>12 DEF UploadCommit, NoUpload, SteadyInv
  <2>2. CASE ~UploadCurrent(l)
    <3>1. Become(l) /\ UNCHANGED link
      BY <1>12, <2>2 DEF UploadCommit
    <3>. QED BY <1>0, <1>d, <2>1, <3>1 DEF SteadyInv, CurrentFrame
  <2>3. CASE UploadCurrent(l)
    <3>1. /\ leases' = l /\ frame' = upload.epoch
          /\ link' = [w \in Links |-> IF Receiving(w)
               THEN [link[w] EXCEPT !.queue = Broadcast(@)] ELSE link[w]]
      BY <1>12, <2>3 DEF UploadCommit
    <3>2. Held(l) # {} /\ upload.epoch = epoch
      BY <2>1, <2>3 DEF UploadCurrent
    <3>3. ASSUME NEW w \in Links
          PROVE  /\ link'[w].since <= epoch
                 /\ link'[w].pc \in {"new", "valid", "leased"} => link'[w].queue = <<>>
                 /\ \A i \in 1 .. Len(link'[w].queue) : link'[w].queue[i] >= link'[w].since
      <4>1. CASE Receiving(w)
        <5>. DEFINE q == Broadcast(link[w].queue)
        <5>1. /\ link[w].queue \in Seq(Nat) /\ Len(link[w].queue) <= Buffer
              /\ link[w] \in LinkRecords /\ link[w].since <= epoch /\ link[w].since \in Nat
              /\ \A n \in 1 .. Len(link[w].queue) : link[w].queue[n] >= link[w].since
          BY <1>0 DEF LinksTyped, LinkRecords, SteadyInv
        <5>2. \A i \in 1 .. Len(q) : \/ q[i] = upload.epoch
                                     \/ \E n \in 1 .. Len(link[w].queue) : q[i] = link[w].queue[n]
          BY <1>0, <3>2, <5>1, Buffered
        <5>. HIDE DEF q
        <5>3. link'[w] = [link[w] EXCEPT !.queue = q]
          BY <3>1, <4>1 DEF q
        <5>4. link'[w].since = link[w].since /\ link'[w].pc = link[w].pc /\ link'[w].queue = q
          BY <5>1, <5>3 DEF LinkRecords
        <5>5. \A i \in 1 .. Len(q) : q[i] >= link[w].since
          BY <1>0, <3>2, <5>1, <5>2
        <5>. QED BY <4>1, <5>1, <5>4, <5>5 DEF Receiving
      <4>2. CASE ~Receiving(w)
        BY <3>1, <4>2 DEF SteadyInv
      <4>. QED BY <4>1, <4>2
    <3>. QED BY <2>1, <3>1, <3>2, <3>3 DEF SteadyInv, CurrentFrame
  <2>. QED BY <2>2, <2>3
<1>13. ASSUME NEW w \in Links, NEW t \in Tokens, Connect(w, t) PROVE SteadyInv'
  <2>1. /\ link'[w].queue = link[w].queue /\ link'[w].since = link[w].since /\ link[w].pc = "new"
        /\ \A o \in Links \ {w} : link'[o] = link[o]
    BY <1>0, <1>13 DEF Connect, LinksTyped, LinkRecords
  <2>2. /\ UNCHANGED <<host, upload, fetch, epoch, leases, frame>>
    BY <1>13 DEF Connect
  <2>3. frame' # None => Held(leases') # {} /\ frame' = epoch'
    BY <1>f, <2>2 DEF Held
  <2>4. link'[w].queue = <<>> /\ link'[w].since <= epoch'
    BY <2>1, <2>2 DEF SteadyInv
  <2>. QED BY <1>0, <1>c, <2>1, <2>2, <2>3, <2>4
<1>14. ASSUME NEW w \in Links, LinkRenew(w) \/ PongRenew(w) PROVE SteadyInv'
  <2>1. link[w].token \in Tokens /\ w \in Keys
    BY <1>14 DEF LinkRenew, PongRenew, TypeOK, Keys
  <2>2. /\ epoch' >= epoch /\ epoch' \in Nat
        /\ frame' # None => Held(leases') # {} /\ frame' = epoch'
    <3>1. CASE RenewScreenLease(link[w].token, w)
      BY <1>e, <2>1, <3>1
    <3>2. CASE RenewRefused(link[w].token)
      BY <1>0, <1>g, <3>2
    <3>. QED BY <1>14, <3>1, <3>2 DEF LinkRenew, PongRenew
  <2>3. UNCHANGED <<host, upload, fetch>>
    BY <1>14 DEF LinkRenew, PongRenew
  <2>4. /\ \A o \in Links \ {w} : link'[o] = link[o]
        /\ link'[w].queue = link[w].queue
        /\ link'[w].since = link[w].since \/ (link[w].pc = "valid" /\ link'[w].since = epoch')
        /\ link'[w].pc \in {"new", "valid", "leased"} => link[w].pc = "valid"
    <3>1. link \in [Links -> LinkRecords]
      BY <1>0 DEF LinksTyped
    <3>2. CASE LinkRenew(w)
      BY <3>1, <3>2 DEF LinkRenew, LinkRecords
    <3>3. CASE PongRenew(w)
      BY <3>1, <3>3 DEF PongRenew, LinkRecords
    <3>. QED BY <1>14, <3>2, <3>3
  <2>5. /\ link[w].since <= epoch /\ link[w].since \in Nat
        /\ link[w].pc = "valid" => link[w].queue = <<>>
        /\ \A i \in 1 .. Len(link[w].queue) : link[w].queue[i] >= link[w].since
    BY <1>0 DEF SteadyInv, LinksTyped, LinkRecords
  <2>. HIDE DEF SteadyInv
  <2>6. link'[w].since <= epoch'
    BY <1>0, <2>2, <2>4, <2>5
  <2>7. \A i \in 1 .. Len(link'[w].queue) : link'[w].queue[i] >= link'[w].since
    BY <2>4, <2>5
  <2>. QED BY <1>c, <2>2, <2>3, <2>4, <2>5, <2>6, <2>7
<1>15. ASSUME NEW w \in Links, \/ LinkSubscribe(w) \/ LinkPing(w) \/ LinkPong(w) \/ LinkClose(w)
                               \/ LinkCommand(w) \/ LinkAnswered(w)
       PROVE  SteadyInv'
  <2>1. /\ UNCHANGED <<host, upload, fetch, epoch, leases, frame>>
        /\ \E p \in {"open", "pong", "busy", "closing"} : link' = [link EXCEPT ![w].pc = p]
    BY <1>15 DEF LinkSubscribe, LinkPing, LinkPong, LinkCommand, LinkAnswered, LinkClose
  <2>2. /\ link'[w].queue = link[w].queue /\ link'[w].since = link[w].since
        /\ link'[w].pc \in {"open", "pong", "busy", "closing"}
        /\ \A o \in Links \ {w} : link'[o] = link[o]
    BY <1>0, <2>1 DEF LinksTyped, LinkRecords
  <2>3. frame' # None => Held(leases') # {} /\ frame' = epoch'
    BY <1>f, <2>1 DEF Held
  <2>4. /\ link'[w].since <= epoch'
        /\ \A i \in 1 .. Len(link'[w].queue) : link'[w].queue[i] >= link'[w].since
    BY <2>1, <2>2 DEF SteadyInv
  <2>. QED BY <1>0, <1>c, <2>1, <2>2, <2>3, <2>4
<1>16. ASSUME NEW w \in Links, LinkFrame(w) PROVE SteadyInv'
  <2>1. /\ UNCHANGED <<host, upload, fetch, epoch, leases, frame>>
        /\ link[w].queue # <<>>
        /\ \E p \in {"open", "closing"} : link' = [link EXCEPT ![w].pc = p, ![w].queue = Tail(@)]
    BY <1>16 DEF LinkFrame
  <2>2. /\ link'[w].queue = Tail(link[w].queue) /\ link'[w].since = link[w].since
        /\ link'[w].pc \in {"open", "closing"}
        /\ \A o \in Links \ {w} : link'[o] = link[o]
    BY <1>0, <2>1 DEF LinksTyped, LinkRecords
  <2>3. frame' # None => Held(leases') # {} /\ frame' = epoch'
    BY <1>f, <2>1 DEF Held
  <2>4. /\ link[w].queue \in Seq(Nat) /\ link[w].since <= epoch
        /\ \A i \in 1 .. Len(link[w].queue) : link[w].queue[i] >= link[w].since
    BY <1>0 DEF SteadyInv, LinksTyped, LinkRecords
  <2>5. /\ Len(Tail(link[w].queue)) = Len(link[w].queue) - 1
        /\ \A i \in 1 .. Len(link[w].queue) - 1 : Tail(link[w].queue)[i] = link[w].queue[i + 1]
    BY <2>1, <2>4, HeadTailProperties
  <2>6. ASSUME NEW i \in 1 .. Len(link'[w].queue) PROVE link'[w].queue[i] >= link'[w].since
    <3>1. i \in 1 .. Len(link[w].queue) - 1 /\ i + 1 \in 1 .. Len(link[w].queue)
      BY <2>2, <2>4, <2>5
    <3>. QED BY <2>2, <2>4, <2>5, <3>1
  <2>7. link'[w].since <= epoch' /\ epoch' >= epoch
    BY <1>0, <2>1, <2>2, <2>4
  <2>8. link'[w].pc \notin {"new", "valid", "leased"}
    BY <2>2
  <2>. QED BY <1>c, <2>1, <2>2, <2>3, <2>6, <2>7, <2>8
<1>17. ASSUME NEW w \in Links, LinkRelease(w) PROVE SteadyInv'
  <2>1. /\ UNCHANGED <<host, upload, fetch, epoch>>
        /\ frame' = IF Held(leases') = {} THEN None ELSE frame
        /\ link' = [link EXCEPT ![w].pc = "gone", ![w].queue = <<>>]
    BY <1>0, <1>17 DEF LinkRelease
  <2>2. /\ link'[w].queue = <<>> /\ link'[w].since = link[w].since
        /\ \A o \in Links \ {w} : link'[o] = link[o]
    BY <1>0, <2>1 DEF LinksTyped, LinkRecords
  <2>3. frame' # None => Held(leases') # {} /\ frame' = epoch'
    BY <1>f, <2>1
  <2>4. link'[w].since <= epoch' /\ epoch' >= epoch
    BY <1>0, <2>1, <2>2 DEF SteadyInv
  <2>5. \A i \in 1 .. Len(link'[w].queue) : link'[w].queue[i] >= link'[w].since
    BY <2>2
  <2>. QED BY <1>c, <2>1, <2>2, <2>3, <2>4, <2>5
<1>18. CASE Tick
  <2>1. Held(leases) \subseteq Held(leases')
    <3>1. ASSUME NEW k \in Held(leases) PROVE leases'[k] # NoLease
      <4>1. CASE leases[k].left > 0
        <5>1. leases'[k].token = leases[k].token
          BY <1>0, <1>18 DEF Tick, LeaseRecords, Held
        <5>2. leases[k].token # None
          BY <4>1, RelayParameters DEF LeaseHasSession, Held
        <5>. QED BY <5>1, <5>2 DEF NoLease
      <4>2. CASE ~(leases[k].left > 0)
        BY <1>18, <4>2 DEF Tick, Held
      <4>. QED BY <4>1, <4>2
    <3>. QED BY <3>1 DEF Held
  <2>2. UNCHANGED <<host, upload, link, fetch, epoch, frame>>
    BY <1>18 DEF Tick
  <2>3. \A o \in Tokens : fetch'[o].since <= epoch'
    BY <2>2 DEF SteadyInv
  <2>4. frame' # None => Held(leases') # {} /\ frame' = epoch'
    BY <1>f, <2>1, <2>2
  <2>. QED BY <1>0, <1>a, <2>2, <2>3, <2>4
<1>19. CASE UNCHANGED vars
  BY <1>19, <1>b DEF vars, SteadyInv
<1>. QED
  BY <1>1, <1>2, <1>3, <1>4, <1>5, <1>6, <1>7, <1>8, <1>9, <1>10, <1>11, <1>12, <1>13, <1>14,
     <1>15, <1>16, <1>17, <1>18, <1>19
  DEF Next, Host, Viewer, Link

LEMMA SteadyAlways == Spec => [](kept => SteadyInv)
<1>. DEFINE Inv == TypeOK /\ LeaseHasSession /\ (kept => SteadyInv)
<1>1. Inv /\ [Next]_vars => Inv'
  BY TypeStep, SessionStep, SteadyStep
<1>2. Init => Inv
  BY TypeInit, SessionInit, SteadyStart
<1>. QED BY <1>1, <1>2, PTL DEF Spec

\* As long as an on-demand host stays registered, the server holds a frame only
\* while somebody watches, and one captured for those who do.
THEOREM FrameForAudience == Spec => []FrameOfAudience
<1>1. (kept => SteadyInv) => FrameOfAudience
  BY DEF SteadyInv, CurrentFrame, FrameOfAudience
<1>. QED BY <1>1, SteadyAlways, PTL

\* As long as an on-demand host stays registered, neither a late read nor the
\* buffer of a WebSocket shows a viewer what was captured before it came.
THEOREM FramesForViewers == Spec => []OwnAudience
<1>1. TypeOK /\ (kept => SteadyInv) => OwnAudience
  BY DEF TypeOK, SteadyInv, CurrentFrame, OwnAudience
<1>. QED BY <1>1, SteadyAlways, TypeCorrect, PTL

=============================================================================
