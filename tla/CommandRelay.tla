---------------------------- MODULE CommandRelay ----------------------------
(***************************************************************************)
(* How a viewer's commands and files reach the host of one device.  The    *)
(* relay server (rdesk_server/main.rs) keeps a queue of commands, a waiter *)
(* for each call that waits for the host's answer, and the files that are  *)
(* in transit.  The desktop host (desktop_host_provider.dart) polls one    *)
(* command at a time, performs it and reports how it went; a file is       *)
(* fetched and saved beside the other commands.                            *)
(*                                                                         *)
(* The server's handlers are tasks on several threads: a step of one reads *)
(* or writes one of the shared maps.  The host is a single isolate whose   *)
(* steps lie between two awaits.  Requests and replies may be lost.        *)
(***************************************************************************)
EXTENDS Integers, Sequences, FiniteSets

CONSTANTS
  Calls,         \* the viewers' calls
  None,
  Sizes,         \* sizes of files
  StoreMax       \* FILE_STORE_MAX_BYTES

CONSTANT MaxReg  \* bound of the model: registrations

Kinds == {"input", "file", "ask"}

ASSUME CommandParameters ==
  /\ None \notin Calls
  /\ Sizes \subseteq Nat \ {0} /\ StoreMax \in Nat /\ MaxReg \in Nat

VARIABLES
  reg,           \* previews[device]: the host token, 0 when there is none
  minted,        \* host tokens made so far
  removal,       \* remove_preview_state in progress
  admitted,      \* the viewer has a session
  call,          \* the handler of each call
  waiters,       \* command_waiters
  queue,         \* command_queues[device]
  answer,        \* what was sent to the waiter of a call
  stored,        \* file_store
  bytes,         \* file_bytes
  host,          \* the host's command loop
  transfer,      \* the host's _receiveRelayedFile, for each call
  performed,     \* ghost: the commands the host performed, in order, each
                 \* with how it went
  pushed,        \* ghost: the commands in the order they were queued
  letIn          \* ghost: <<call, token>> for viewers let in by asking and for
                 \* the hosts that accepted them

server == <<reg, minted, removal, admitted, call, waiters, queue, answer, stored, bytes>>
vars == <<reg, minted, removal, admitted, call, waiters, queue, answer,
          stored, bytes, host, transfer, performed, pushed, letIn>>

-----------------------------------------------------------------------------
Phases == {"new", "reading", "stored", "checked", "waiting", "accepted", "done"}
NoCall == [pc |-> "new", kind |-> "input", size |-> 0, asked |-> 0]

\* current: no other hosting has begun since (_hostGeneration).
Idle == [pc |-> "idle", cmd |-> None, token |-> 0, ok |-> FALSE, current |-> TRUE]
NoTransfer == [pc |-> "none", token |-> 0, current |-> TRUE]

Init ==
  /\ reg = 1 /\ minted = 1 /\ removal = "no" /\ admitted = TRUE
  /\ call = [c \in Calls |-> NoCall]
  /\ waiters = {} /\ queue = <<>>
  /\ answer = [c \in Calls |-> "none"]
  /\ stored = {} /\ bytes = 0
  /\ host = [token |-> 1, loop |-> Idle]
  /\ transfer = [c \in Calls |-> NoTransfer]
  /\ performed = <<>> /\ pushed = <<>> /\ letIn = [grants |-> {}, accepts |-> {}]

-----------------------------------------------------------------------------
(* The registration *)

\* register_preview: a new token, unless there is a registration.  The host of the
\* same account gets the token of that.
IssueToken == reg' = minted + 1 /\ minted' = minted + 1
Register ==
  /\ \/ reg = 0 /\ minted < MaxReg /\ IssueToken
     \/ reg # 0 /\ host.token # reg /\ UNCHANGED <<reg, minted>>
  /\ host' = [host EXCEPT !.token = reg']
  /\ UNCHANGED <<removal, admitted, call, waiters, queue, answer, stored,
                 bytes, transfer, performed, pushed, letIn>>

\* Hosting ends or begins anew (stopHosting, disconnectCurrentViewer): what the
\* host has under way is not of the current generation any more, and later it
\* forgets its token.
NextGeneration ==
  /\ host' = [host EXCEPT !.loop.current = FALSE]
  /\ transfer' = [c \in Calls |-> [transfer[c] EXCEPT !.current = FALSE]]
  /\ UNCHANGED <<server, performed, pushed, letIn>>
ForgetToken ==
  /\ host.token # 0
  /\ host' = [host EXCEPT !.token = 0]
  /\ UNCHANGED <<server, transfer, performed, pushed, letIn>>

\* remove_preview_state, for a host that unregisters or whose registration is
\* stale: the sessions, the registration, the queue, one map after the other.
RemoveViewers ==
  /\ reg # 0 /\ removal = "no"
  /\ removal' = "viewers" /\ admitted' = FALSE
  /\ UNCHANGED <<reg, minted, call, waiters, queue, answer, stored, bytes,
                 host, transfer, performed, pushed, letIn>>
RemovePreview ==
  /\ removal = "viewers"
  /\ removal' = "preview" /\ reg' = 0
  /\ UNCHANGED <<minted, admitted, call, waiters, queue, answer, stored,
                 bytes, host, transfer, performed, pushed, letIn>>
RemoveQueue ==
  /\ removal = "preview"
  /\ removal' = "no" /\ queue' = <<>>
  /\ UNCHANGED <<reg, minted, admitted, call, waiters, answer, stored, bytes,
                 host, transfer, performed, pushed, letIn>>

\* disconnect_viewers: the sessions go, the queue stays.
DisconnectViewers ==
  /\ admitted /\ reg # 0
  /\ admitted' = FALSE
  /\ UNCHANGED <<reg, minted, removal, call, waiters, queue, answer, stored,
                 bytes, host, transfer, performed, pushed, letIn>>

\* resolve_preview lets a viewer in at once.
ResolvePreview ==
  /\ ~admitted /\ reg # 0
  /\ admitted' = TRUE
  /\ UNCHANGED <<reg, minted, removal, call, waiters, queue, answer, stored,
                 bytes, host, transfer, performed, pushed, letIn>>

-----------------------------------------------------------------------------
(* The handler of a call *)

\* Mutant: the blob stays until the host collects it.
EndedHeld(c) ==
  /\ call' = [call EXCEPT ![c] = [NoCall EXCEPT !.pc = "done", !.kind = call[c].kind]]
  /\ stored' = stored
  /\ bytes' = bytes - call[c].size

\* A handler ends; what it holds is dropped (HeldFile, FileReservation).
Ended(c) ==
  /\ call' = [call EXCEPT ![c] = [NoCall EXCEPT !.pc = "done", !.kind = call[c].kind]]
  /\ stored' = stored \ {c}
  /\ bytes' = bytes - call[c].size

\* FileReservation::try_new.
Reserve(size) == bytes + size <= StoreMax /\ bytes' = bytes + size

\* admit_file.
AdmitFile(c, size) ==
  /\ call[c].pc = "new" /\ admitted
  /\ Reserve(size)
  /\ call' = [call EXCEPT ![c] = [NoCall EXCEPT !.pc = "reading", !.kind = "file", !.size = size]]
  /\ UNCHANGED <<reg, minted, removal, admitted, waiters, queue, answer, stored,
                 host, transfer, performed, pushed, letIn>>

\* file_upload has read the body, and relay_file stores it.
Store(c) ==
  /\ call[c].pc = "reading"
  /\ call' = [call EXCEPT ![c].pc = "stored"]
  /\ stored' = stored \cup {c}
  /\ UNCHANGED <<reg, minted, removal, admitted, waiters, queue, answer, bytes,
                 host, transfer, performed, pushed, letIn>>

\* forward_command_within looks for the session and the registration.
Checked(c, kind) ==
  \/ /\ admitted /\ reg # 0
     /\ call' = [call EXCEPT ![c].pc = "checked", ![c].kind = kind]
     /\ UNCHANGED <<stored, bytes>>
  \/ (~admitted \/ reg = 0) /\ Ended(c)
\* A tap, a drag, a text, trust, the clipboard, a list of displays or of files...
\* Which of them it is matters only for what the viewer is told (Replies).
Input(c) == call[c].pc = "new" /\ Checked(c, "input")
\* relay_file, when the file is stored.
RelayFile(c) == call[c].pc = "stored" /\ Checked(c, "file")
Command(c) ==
  /\ Input(c) \/ RelayFile(c)
  /\ UNCHANGED <<reg, minted, removal, admitted, waiters, queue, answer,
                 host, transfer, performed, pushed, letIn>>

\* resolve_preview of a viewer without a password, for the host there is.
Ask(c) ==
  /\ call[c].pc = "new" /\ reg # 0
  /\ call' = [call EXCEPT ![c].pc = "checked", ![c].kind = "ask", ![c].asked = reg]
  /\ UNCHANGED <<reg, minted, removal, admitted, waiters, queue, answer, stored,
                 bytes, host, transfer, performed, pushed, letIn>>

\* Mutant: the last command is the first.
QueuedFirst(c) == <<c>> \o queue

\* The waiter and the queued command; the handler waits.
Queued(c) == Append(queue, c)
Push(c) ==
  /\ call[c].pc = "checked"
  /\ call' = [call EXCEPT ![c].pc = "waiting"]
  /\ waiters' = waiters \cup {c}
  /\ queue' = Queued(c) /\ pushed' = Append(pushed, c)
  /\ UNCHANGED <<reg, minted, removal, admitted, answer, stored, bytes,
                 host, transfer, performed, letIn>>

\* Mutant: any registration will do.
LetInAny(c) == reg # 0

\* The answer is there, and the handler makes its reply of it (Replies).  A viewer
\* that was accepted gets a session if the host it asked is still registered.
LetIn(c) == reg = call[c].asked

Answered(c) ==
  /\ call[c].pc = "waiting" /\ answer[c] # "none"
  /\ IF call[c].kind = "ask" /\ answer[c] = "yes"
     THEN call' = [call EXCEPT ![c].pc = "accepted"] /\ UNCHANGED <<stored, bytes>>
     ELSE Ended(c)
  /\ UNCHANGED <<reg, minted, removal, admitted, waiters, queue, answer,
                 host, transfer, performed, pushed, letIn>>
Grant(c) ==
  /\ call[c].pc = "accepted"
  /\ Ended(c)
  /\ IF LetIn(c)
     THEN /\ admitted' = TRUE
          /\ letIn' = [letIn EXCEPT !.grants = @ \cup {<<c, reg>>}]
     ELSE UNCHANGED <<admitted, letIn>>
  /\ UNCHANGED <<reg, minted, removal, waiters, queue, answer,
                 host, transfer, performed, pushed>>

\* What the viewer of a call of this kind may be told, when a is the answer.  Most
\* handlers pass ok on (relay_bool_command, session_trust, input_tap, relay_file).
\* clipboard_get and list_displays give the text that comes with a success, and
\* nothing or an empty list without one: ok they drop.  file_list_request says that
\* it is a list, whatever the answer is.  resolve_preview says whether there is a
\* session now.
Replies(kind, a) ==
  {reply \in {"yes", "no", "text", "empty", "listed", "refused"} :
     /\ a # "none"
     /\ reply = "yes" => a = "yes"
     /\ reply = "no" => a = "no" /\ kind # "ask"
     /\ reply = "text" => a = "yes" /\ kind = "input"
     /\ reply \in {"empty", "listed"} => kind = "input"
     /\ reply = "refused" => kind = "ask"}

\* The wait is over (COMMAND_RESULT_TIMEOUT, FILE_RECEIVE_TIMEOUT, 60 s); the
\* command stays queued.
TimeOut(c) ==
  /\ call[c].pc = "waiting" /\ answer[c] = "none"
  /\ Ended(c)
  /\ waiters' = waiters \ {c}
  /\ UNCHANGED <<reg, minted, removal, admitted, queue, answer,
                 host, transfer, performed, pushed, letIn>>

\* The caller goes away: the handler is dropped at its await, its waiter not.
Drop(c) ==
  /\ call[c].pc \in {"reading", "waiting"}
  /\ Ended(c)
  /\ UNCHANGED <<reg, minted, removal, admitted, waiters, queue, answer,
                 host, transfer, performed, pushed, letIn>>

-----------------------------------------------------------------------------
(* The queue *)

\* The answer of the waiter of c.
Told(c, a) ==
  /\ answer' = IF c \in waiters /\ call[c].pc = "waiting" THEN [answer EXCEPT ![c] = a] ELSE answer
  /\ waiters' = waiters \ {c}

\* expire_stale_device_commands, of cleanup_expired or a poll: the command at the
\* head is older than COMMAND_TTL_MS.
Expire ==
  /\ queue # <<>>
  /\ queue' = Tail(queue)
  /\ Told(Head(queue), "no")
  /\ UNCHANGED <<reg, minted, removal, admitted, call, stored, bytes,
                 host, transfer, performed, pushed, letIn>>

-----------------------------------------------------------------------------
(* poll_host_command and _pollRelayCommand *)

Loop(r) == host' = [host EXCEPT !.loop = r]

\* _relayCommandBusy: one command at a time.
Poll ==
  /\ host.loop.pc = "idle" /\ host.token # 0
  /\ Loop([Idle EXCEPT !.pc = "sent", !.token = host.token])
  /\ UNCHANGED <<server, transfer, performed, pushed, letIn>>

\* The server checks the token once, before it waits for a command.
PollValid ==
  /\ host.loop.pc = "sent"
  /\ Loop(IF host.loop.token = reg THEN [host.loop EXCEPT !.pc = "polling"] ELSE Idle)
  /\ UNCHANGED <<server, transfer, performed, pushed, letIn>>

\* Mutant: the command stays queued until it is stale.
TakeCopy == queue' = queue

\* A turn of its loop that finds a command.
Take == queue' = Tail(queue)
PollTake ==
  /\ host.loop.pc = "polling" /\ queue # <<>>
  /\ Take
  /\ Loop([host.loop EXCEPT !.pc = "carried", !.cmd = Head(queue)])
  /\ UNCHANGED <<reg, minted, removal, admitted, call, waiters, answer, stored, bytes,
                 transfer, performed, pushed, letIn>>

\* A poll whose host has given up waiting for it takes a command no one gets.
PollAstray ==
  /\ queue # <<>>
  /\ Take
  /\ UNCHANGED <<reg, minted, removal, admitted, call, waiters, answer, stored, bytes,
                 host, transfer, performed, pushed, letIn>>

\* Nothing came in time; or the request, the reply or the wait for it failed,
\* and with it the command it carried.
PollEnd ==
  /\ host.loop.pc \in {"sent", "polling", "carried"}
  /\ Loop(Idle)
  /\ UNCHANGED <<server, transfer, performed, pushed, letIn>>

\* The command arrives.  One of an older hosting is dropped, and a file is
\* fetched beside the loop.
Arrive ==
  LET c == host.loop.cmd
  IN  /\ host.loop.pc = "carried"
      /\ IF ~host.loop.current \/ host.loop.token # host.token
         THEN Loop(Idle) /\ UNCHANGED transfer
         ELSE IF call[c].kind = "file"
         THEN /\ Loop(Idle)
              /\ transfer' = [transfer EXCEPT ![c] =
                   [pc |-> "opening", token |-> host.token, current |-> TRUE]]
         ELSE Loop([host.loop EXCEPT !.pc = "performing"]) /\ UNCHANGED transfer
      /\ UNCHANGED <<server, performed, pushed, letIn>>

\* The input is performed, or the user asked, with or without success.
Perform(ok) ==
  LET c == host.loop.cmd
  IN  /\ host.loop.pc = "performing"
      /\ performed' = Append(performed, [cmd |-> c, ok |-> ok])
      /\ letIn' = IF ok /\ call[c].kind = "ask"
                  THEN [letIn EXCEPT !.accepts = @ \cup {<<c, host.loop.token>>}] ELSE letIn
      /\ Loop(IF host.loop.current THEN [host.loop EXCEPT !.pc = "submitted", !.ok = ok] ELSE Idle)
      /\ UNCHANGED <<server, transfer, pushed>>

\* complete_host_command.
Complete(c, ok) == Told(c, IF ok THEN "yes" ELSE "no")

Submit ==
  /\ host.loop.pc = "submitted"
  /\ Loop(Idle)
  /\ IF host.loop.token = reg THEN Complete(host.loop.cmd, host.loop.ok)
                              ELSE UNCHANGED <<answer, waiters>>
  /\ UNCHANGED <<reg, minted, removal, admitted, call, queue, stored, bytes,
                 transfer, performed, pushed, letIn>>
SubmitLost ==
  /\ host.loop.pc = "submitted"
  /\ Loop(Idle)
  /\ UNCHANGED <<server, transfer, performed, pushed, letIn>>

-----------------------------------------------------------------------------
(* _receiveRelayedFile and file_host_download *)

Turn(c, pc) == transfer' = [transfer EXCEPT ![c].pc = pc]
TurnOver(c) == transfer' = [transfer EXCEPT ![c] = [NoTransfer EXCEPT !.pc = "over"]]

\* The server hands the file out once, and keeps no copy.
Open(c) ==
  /\ transfer[c].pc = "opening"
  /\ IF transfer[c].token = reg /\ c \in stored
     THEN Turn(c, "saving") /\ stored' = stored \ {c}
     ELSE Turn(c, "failed") /\ UNCHANGED stored
  /\ UNCHANGED <<reg, minted, removal, admitted, call, waiters, queue, answer,
                 bytes, host, performed, pushed, letIn>>

\* The last chunk came within _relayFileWindow, and the file gets its name.
Save(c) ==
  /\ transfer[c].pc = "saving"
  /\ Turn(c, "saved")
  /\ performed' = Append(performed, [cmd |-> c, ok |-> TRUE])
  /\ UNCHANGED <<server, host, pushed, letIn>>

\* A chunk after the window, an idle or broken transfer, a full disk.
Fail(c) ==
  /\ transfer[c].pc \in {"opening", "saving"}
  /\ Turn(c, "failed")
  /\ UNCHANGED <<server, host, performed, pushed, letIn>>

\* Mutant: the relay is told before the file is there.
ReportEarly(c) ==
  /\ transfer[c].pc \in {"saving", "saved", "failed"}
  /\ TurnOver(c)
  /\ IF transfer[c].current /\ transfer[c].token = reg
     THEN Complete(c, transfer[c].pc # "failed") ELSE UNCHANGED <<answer, waiters>>

\* The relay is told how it went, unless hosting has ended since.
Report(c) ==
  /\ transfer[c].pc \in {"saved", "failed"}
  /\ TurnOver(c)
  /\ IF transfer[c].current /\ transfer[c].token = reg
     THEN Complete(c, transfer[c].pc = "saved") ELSE UNCHANGED <<answer, waiters>>
FileReport(c) ==
  /\ Report(c)
  /\ UNCHANGED <<reg, minted, removal, admitted, call, queue, stored, bytes,
                 host, performed, pushed, letIn>>
ReportLost(c) ==
  /\ transfer[c].pc \in {"saved", "failed"}
  /\ TurnOver(c)
  /\ UNCHANGED <<server, host, performed, pushed, letIn>>

-----------------------------------------------------------------------------
Device ==
  \/ Register \/ NextGeneration \/ ForgetToken \/ RemoveViewers \/ RemovePreview \/ RemoveQueue
  \/ DisconnectViewers \/ ResolvePreview

Handler(c) ==
  \/ \E size \in Sizes : AdmitFile(c, size)
  \/ Store(c) \/ Command(c) \/ Ask(c) \/ Push(c)
  \/ Answered(c) \/ Grant(c) \/ TimeOut(c) \/ Drop(c)

HostLoop ==
  \/ Poll \/ PollValid \/ PollTake \/ PollAstray \/ PollEnd \/ Arrive
  \/ \E ok \in BOOLEAN : Perform(ok)
  \/ Submit \/ SubmitLost

HostFile(c) == Open(c) \/ Save(c) \/ Fail(c) \/ FileReport(c) \/ ReportLost(c)

Next ==
  \/ Device \/ Expire \/ HostLoop
  \/ \E c \in Calls : Handler(c) \/ HostFile(c)

Spec == Init /\ [][Next]_vars

-----------------------------------------------------------------------------
CallRecords == [pc : Phases, kind : Kinds, size : Nat, asked : Nat]
LoopRecords ==
  [pc : {"idle", "sent", "polling"}, cmd : Calls \cup {None}, token : Nat,
   ok : BOOLEAN, current : BOOLEAN]
  \cup
  [pc : {"carried", "performing", "submitted"}, cmd : Calls, token : Nat,
   ok : BOOLEAN, current : BOOLEAN]
TransferRecords ==
  [pc : {"none", "opening", "saving", "saved", "failed", "over"},
   token : Nat, current : BOOLEAN]
Performances == [cmd : Calls, ok : BOOLEAN]

TypeOK ==
  /\ reg \in 0 .. minted /\ minted \in Nat
  /\ removal \in {"no", "viewers", "preview"} /\ admitted \in BOOLEAN
  /\ call \in [Calls -> CallRecords]
  /\ waiters \subseteq Calls /\ queue \in Seq(Calls)
  /\ answer \in [Calls -> {"none", "yes", "no"}]
  /\ stored \subseteq Calls /\ bytes \in Int
  /\ host \in [token : Nat, loop : LoopRecords] /\ host.token <= minted
  /\ transfer \in [Calls -> TransferRecords]
  /\ performed \in Seq(Performances) /\ pushed \in Seq(Calls)
  /\ letIn \in [grants : SUBSET (Calls \X Nat), accepts : SUBSET (Calls \X Nat)]

\* What a viewer is told of its command is what happened: yes, or the text it asked
\* for, only for what the host performed with success, no (stale, or failed) only for
\* what it did not and never will.  An empty clipboard or list of displays says
\* nothing of that, nor does a list of files, whose "ok" is always true.
AnswersTrue ==
  \A c \in Calls : \A reply \in Replies(call[c].kind, answer[c]) :
    LET succeeded == \E i \in 1 .. Len(performed) : performed[i] = [cmd |-> c, ok |-> TRUE]
    IN  /\ reply \in {"yes", "text"} => succeeded
        /\ reply = "no" => ~succeeded

\* A click is not performed twice, nor a file saved twice, though polls, answers
\* and reports are lost and hosts come and go.
PerformedOnce ==
  \A i, j \in 1 .. Len(performed) : performed[i].cmd = performed[j].cmd => i = j

\* Clicks and keys are performed in the order in which they were queued, when
\* some are lost and files are fetched meanwhile.
QueuedBefore(c, d) ==
  \E i, j \in 1 .. Len(pushed) : i < j /\ pushed[i] = c /\ pushed[j] = d

InOrder ==
  \A i, j \in 1 .. Len(performed) :
    /\ i < j
    /\ call[performed[i].cmd].kind # "file" /\ call[performed[j].cmd].kind # "file"
    => QueuedBefore(performed[i].cmd, performed[j].cmd)

\* The room that is taken is that of the uploads that have not ended, byte for
\* byte, and the relay holds no file of one that has.
Uploads == {c \in Calls : call[c].kind = "file" /\ call[c].pc \notin {"new", "done"}}
Bytes(c) == {c} \X (1 .. call[c].size)
HeldByUploads ==
  /\ bytes = Cardinality(UNION {Bytes(c) : c \in Uploads}) /\ bytes <= StoreMax
  /\ stored \subseteq Uploads

\* A viewer without a password gets in only when the user of the very hosting
\* it asked has accepted, though hosting ends and begins while the user decides.
LetInByUser == letIn.grants \subseteq letIn.accepts
=============================================================================
