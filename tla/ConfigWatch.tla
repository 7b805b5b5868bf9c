---------------------------- MODULE ConfigWatch ----------------------------
(***************************************************************************)
(* Programs that keep a copy of a part of the configuration (a topic) and  *)
(* reload it when is_mgmtd notifies them: the console manager and dying    *)
(* gasp, each with the client library under it.  A client has two          *)
(* connections: one for its requests, whose answers carry the number of    *)
(* the request (curr_sequence), and one on which it first registers and    *)
(* then gets the notices.  At is_mgmtd, workers change topics and format   *)
(* and send their notices through one shared buffer.                       *)
(*                                                                         *)
(* A version stands for the contents of a topic: what matters is which of  *)
(* two reads is newer.                                                     *)
(***************************************************************************)
EXTENDS Naturals, Sequences

CONSTANTS Clients,
          LoadsFirst,   \* clients that load before they register
          Running,      \* the sets of clients that may run together
          Topics,
          Lists,        \* topics that have entries to delete
          Watches,      \* the topic of each client
          Workers,      \* threads of is_mgmtd that change the configuration
          SeqMod,       \* 2^16: curr_sequence is a uint16_t
          MaxChanges,   \* bound on the changes and losses of a behaviour
          Nothing       \* no topic

\* What the notice connection of a client brings besides the topics of notices:
\* the answer to its registration.
Registered == "registered"
Refusal == "refusal"

ASSUME WatchAssumption ==
  /\ LoadsFirst \subseteq Clients /\ Running \subseteq SUBSET Clients
  /\ Topics \cap {Nothing, Registered, Refusal} = {} /\ Lists \subseteq Topics
  /\ Watches \in [Clients -> Topics]
  /\ SeqMod \in Nat \ {0} /\ MaxChanges \in Nat

VARIABLES
  version,    \* is_mgmtd: the version of each topic
  worker,     \* is_mgmtd: what each worker does to which topic
  changes,    \* how many changes were begun, and how many connections lost
  sendBuff,   \* is_mgmtd: the notice in the shared send_buff
  registration, \* is_mgmtd: the notify path of each client's connection
  asked,      \* requests of each client that is_mgmtd has not answered
  inbox,      \* msg_recv_list of each client's request connection
  notices,    \* msg_recv_list of each client's notice connection
  sequence,   \* curr_sequence of each client, before it wraps
  outBuff,    \* send_buff of each client's request connection
  doing,      \* what the main thread of each client is at
  thread,     \* the request each thread of a client makes
  hooked,     \* clients with a handler in their notify list
  have,       \* the version each client works with
  missed      \* history: what went wrong for each client

server == <<version, worker, changes, sendBuff>>
wires == <<asked, inbox, notices>>
client == <<sequence, outBuff, doing, thread, hooked, have>>
vars == <<server, registration, wires, client, missed>>

Threads == {"main", "note"}
Places == {"off", "idle", "take", "format", "send", "wait", "install",
           "register", "registering"}
Jobs == {"ask", "load", "register", "done"}

\* early        changed after the load and before the registration
\* swallowed    the notice was taken for the answer to the registration
\* overwritten  another worker put its notice into the shared buffer
\* deleted      the notice of a deletion is sent before the deletion
\* unsent       the notice could not be sent
\* deaf         the connection that had registered was lost: the library connects
\*              again, but nobody registers again
\* astray       another path was registered for the client
\* emptied      the new list is empty, and dying gasp keeps the one it has
\* failed       a call or the registration of the client failed or was refused
\* crossed      two threads of the client called at once
Mishaps == {"early", "swallowed", "overwritten", "deleted", "unsent", "deaf", "astray",
            "emptied", "failed", "crossed"}

\* An answer, as far as the client tells: whose request, and what was read.
Answers == [n : Nat, ver : Nat]
Requests == [n : Nat, by : Threads, read : BOOLEAN, ver : Nat]

Rest == [at |-> "idle", topic |-> Nothing, deletes |-> FALSE]
Idle == [at |-> "idle", n |-> 0, ver |-> 0]

TypeOK ==
  /\ version \in [Topics -> Nat]
  /\ worker \in [Workers -> [at : {"idle", "format", "send", "commit"},
                             topic : Topics \cup {Nothing}, deletes : BOOLEAN]]
  /\ changes \in 0..MaxChanges
  /\ sendBuff \in Topics \cup {Nothing}
  /\ registration \in [Clients -> {"none", "asked", "set", "answered", "missed"}]
  /\ asked \in [Clients -> SUBSET Requests]
  /\ inbox \in [Clients -> Seq(Answers)]
  /\ notices \in [Clients -> Seq(Topics \cup {Registered, Refusal})]
  /\ sequence \in [Clients -> Nat] /\ outBuff \in [Clients -> Nat]
  /\ doing \in [Clients -> Jobs]
  /\ thread \in [Clients -> [Threads -> [at : Places, n : Nat, ver : Nat]]]
  /\ hooked \subseteq Clients
  /\ have \in [Clients -> Nat]
  /\ missed \in [Clients -> SUBSET Mishaps]

Init ==
  /\ version = [t \in Topics |-> 0]
  /\ worker = [w \in Workers |-> Rest]
  /\ changes = 0 /\ sendBuff = Nothing
  /\ registration = [c \in Clients |-> "none"] /\ hooked = {}
  /\ asked = [c \in Clients |-> {}]
  /\ inbox = [c \in Clients |-> <<>>]
  /\ notices = [c \in Clients |-> <<>>]
  /\ sequence = [c \in Clients |-> 0] /\ outBuff = [c \in Clients |-> 0]
  /\ \E on \in Running :
       /\ doing = [c \in Clients |-> IF c \in on THEN "ask" ELSE "done"]
       /\ thread = [c \in Clients |-> [th \in Threads |->
            [Idle EXCEPT !.at = IF c \in on /\ th = "main" THEN "take" ELSE "off"]]]
  /\ have = [c \in Clients |-> 0]
  /\ missed = [c \in Clients |-> {}]

At(c, th, place) == thread[c][th].at = place
Goto(c, th, place) == thread' = [thread EXCEPT ![c][th].at = place]
Miss(cs, what) ==
  missed' = [c \in Clients |-> IF c \in cs THEN missed[c] \cup {what} ELSE missed[c]]
Of(t) == {c \in Clients : Watches[c] = t}

Listeners == {c \in Clients : registration[c] \in {"set", "answered"}}

-----------------------------------------------------------------------------
(* is_mgmtd: workers that change the configuration                         *)

Begin(w, t, deletes) ==
  /\ worker[w].at = "idle" /\ changes < MaxChanges
  /\ changes' = changes + 1
  /\ worker' = [worker EXCEPT ![w] = [at |-> "format", topic |-> t, deletes |-> deletes]]

\* An add or a modify writes the value, then its callback notifies.
Modify(w, t) ==
  /\ Begin(w, t, FALSE)
  /\ version' = [version EXCEPT ![t] = @ + 1]
  /\ UNCHANGED <<sendBuff, registration, wires, client, missed>>

\* The callback of a delete notifies; the node is removed after it.
Delete(w, t) ==
  /\ t \in Lists /\ Begin(w, t, TRUE)
  /\ UNCHANGED <<version, sendBuff, registration, wires, client, missed>>

\* silc_mgmtd_if_server_send_notify writes the shared buffer ...
FormatNotice(w) ==
  /\ worker[w].at = "format"
  /\ sendBuff' = worker[w].topic
  /\ worker' = [worker EXCEPT ![w].at = "send"]
  /\ UNCHANGED <<version, changes, registration, wires, client, missed>>

\* ... and sends what is in it to the connections that listen to its path.  A send
\* that fails is noted nowhere.
SendNotice(w, failing) ==
  LET t == worker[w].topic
      to == Of(t) \cap Listeners
  IN /\ worker[w].at = "send" /\ failing \subseteq to
     /\ notices' = [c \in Clients |-> IF c \in to \ failing
                                        THEN Append(notices[c], sendBuff)
                                        ELSE notices[c]]
     /\ missed' = [c \in Clients |-> missed[c]
          \cup (IF c \in failing THEN {"unsent"} ELSE {})
          \cup (IF c \in to /\ sendBuff # t THEN {"overwritten"} ELSE {})
          \cup (IF c \in (Of(t) \cap LoadsFirst) \ to THEN {"early"} ELSE {})]
     /\ worker' = [worker EXCEPT ![w] = IF @.deletes THEN [@ EXCEPT !.at = "commit"] ELSE Rest]
     /\ UNCHANGED <<version, changes, sendBuff, registration, asked, inbox, client>>

CommitDelete(w) ==
  /\ worker[w].at = "commit"
  /\ version' = [version EXCEPT ![worker[w].topic] = @ + 1]
  /\ worker' = [worker EXCEPT ![w] = Rest]
  /\ Miss(Of(worker[w].topic), "deleted")
  /\ UNCHANGED <<changes, sendBuff, registration, wires, client>>

-----------------------------------------------------------------------------
(* is_mgmtd: requests.  A worker reads the topic some time before its       *)
(* request is answered, and requests are answered in any order, some never *)
(* (see MgmtdServer).                                                      *)

Read(c, r) ==
  /\ r \in asked[c] /\ ~r.read
  /\ asked' = [asked EXCEPT ![c] = (@ \ {r}) \cup
                 {[r EXCEPT !.read = TRUE, !.ver = version[Watches[c]]]}]
  /\ UNCHANGED <<server, registration, inbox, notices, client, missed>>

Answer(c, r) ==
  /\ r \in asked[c] /\ r.read
  /\ asked' = [asked EXCEPT ![c] = @ \ {r}]
  /\ inbox' = [inbox EXCEPT ![c] = Append(@, [n |-> r.n, ver |-> r.ver])]
  /\ UNCHANGED <<server, registration, notices, client, missed>>

\* The action set-notify-path, in its worker, ...
SetNotifyPath(c) ==
  /\ registration[c] = "asked"
  /\ registration' = [registration EXCEPT ![c] = "set"]
  /\ UNCHANGED <<server, wires, client, missed>>

\* ... and its answer, which the request loop sends later.
AnswerRegistration(c) ==
  /\ registration[c] = "set"
  /\ registration' = [registration EXCEPT ![c] = "answered"]
  /\ notices' = [notices EXCEPT ![c] = Append(@, Registered)]
  /\ UNCHANGED <<server, asked, inbox, client, missed>>

\* The action fails and the answer is an error; or it works on the path that another
\* registration has meanwhile put into tmp_value, the parameter that all requests of
\* an action share, and the answer is as ever.
MissRegistration(c) ==
  /\ registration[c] = "asked"
  /\ registration' = [registration EXCEPT ![c] = "missed"]
  /\ \E answer \in {Refusal, Registered} :
       /\ notices' = [notices EXCEPT ![c] = Append(@, answer)]
       /\ Miss({c}, IF answer = Refusal THEN "failed" ELSE "astray")
  /\ UNCHANGED <<server, asked, inbox, client>>

-----------------------------------------------------------------------------
(* Connections are lost, and made again by the library.  What is under way *)
(* on either side goes with them, and so does the notify path.             *)

Lose == changes < MaxChanges /\ changes' = changes + 1

LoseRequests(c) ==
  /\ Lose /\ (asked[c] # {} \/ inbox[c] # <<>>)
  /\ asked' = [asked EXCEPT ![c] = {}] /\ inbox' = [inbox EXCEPT ![c] = <<>>]
  /\ UNCHANGED <<version, worker, sendBuff, registration, notices, client, missed>>

LoseNotices(c) ==
  /\ Lose /\ registration[c] # "none"
  /\ registration' = [registration EXCEPT ![c] = "none"]
  /\ notices' = [notices EXCEPT ![c] = <<>>]
  /\ Miss({c} \cap Listeners, "deaf")
  /\ UNCHANGED <<version, worker, sendBuff, asked, inbox, client>>

\* is_mgmtd ends and is started again: all connections are lost, and what it has
\* loaded counts as a new version of every topic.
Restart ==
  /\ Lose
  /\ version' = [t \in Topics |-> version[t] + 1]
  /\ worker' = [w \in Workers |-> Rest] /\ sendBuff' = Nothing
  /\ registration' = [c \in Clients |-> "none"]
  /\ asked' = [c \in Clients |-> {}]
  /\ inbox' = [c \in Clients |-> <<>>] /\ notices' = [c \in Clients |-> <<>>]
  /\ missed' = [c \in Clients |-> missed[c]
       \cup (CASE c \in Listeners -> {"deaf"}
               [] c \in LoadsFirst \ Listeners -> {"early"}
               [] OTHER -> {})]
  /\ UNCHANGED client

-----------------------------------------------------------------------------
(* The client library: silc_mgmtd_if_req_send_sync_inner                   *)

Seq16(n) == n % SeqMod

InCall(c, th) == thread[c][th].at \in {"format", "send", "wait", "install"}
Pending(c) == {r.n : r \in asked[c]} \cup {inbox[c][i].n : i \in DOMAIN inbox[c]}

\* seq_num = curr_sequence.  Bound: an answer is not 2^16 requests late.
TakeSequence(c, th) ==
  /\ At(c, th, "take")
  /\ \A n \in Pending(c) : n < sequence[c] => Seq16(n) # Seq16(sequence[c])
  /\ thread' = [thread EXCEPT ![c][th] = [at |-> "format", n |-> sequence[c], ver |-> 0]]
  /\ IF \E other \in Threads \ {th} : InCall(c, other)
       THEN Miss({c}, "crossed")
       ELSE UNCHANGED missed
  /\ UNCHANGED <<server, registration, wires, sequence, outBuff, doing, hooked, have>>

Format(c, th) ==
  /\ At(c, th, "format")
  /\ sequence' = [sequence EXCEPT ![c] = @ + 1]
  /\ outBuff' = [outBuff EXCEPT ![c] = thread[c][th].n]
  /\ Goto(c, th, "send")
  /\ UNCHANGED <<server, registration, wires, doing, hooked, have, missed>>

Send(c, th) ==
  /\ At(c, th, "send")
  /\ asked' = [asked EXCEPT ![c] = @ \cup 
                 {[n |-> outBuff[c], by |-> th, read |-> FALSE, ver |-> 0]}]
  /\ Goto(c, th, "wait")
  /\ UNCHANGED <<server, registration, inbox, notices, sequence, outBuff, doing,
                 hooked, have, missed>>

\* Mutant: dying gasp loads before it registers, too.
ThenLoadsFirst(c, ok) ==
  CASE doing[c] = "ask" -> IF ok THEN "load" ELSE "done"
    [] doing[c] = "load" -> "register"
    [] OTHER -> "done"

\* What the main thread does next: the console manager logs in, loads and then
\* registers; dying gasp checks, registers and then loads.
Then(c, ok) ==
  IF c \in LoadsFirst
    THEN CASE doing[c] = "ask" -> IF ok THEN "load" ELSE "done"
           [] doing[c] = "load" -> "register"
           [] OTHER -> "done"
    ELSE CASE doing[c] = "ask" -> IF ok THEN "register" ELSE "load"
           [] doing[c] = "register" -> "load"
           [] OTHER -> "done"

\* The thread goes on; `daemon' starts the notify thread.
GoOn(c, th, ok, daemon) ==
  LET next == Then(c, ok)
      place == CASE th = "note" -> "idle"
                 [] th = "main" /\ next = "register" -> "register"
                 [] th = "main" /\ next = "done" -> "off"
                 [] OTHER -> "take"
  IN /\ doing' = IF th = "main" THEN [doing EXCEPT ![c] = next] ELSE doing
     /\ thread' = [thread EXCEPT ![c] = [other \in Threads |->
          CASE other = th -> [at |-> place, n |-> 0, ver |-> 0]
            [] other # th /\ daemon -> Idle
            [] OTHER -> thread[c][other]]]

\* Mutant: whatever comes first is taken for the answer.
ReceiveAny(c, th) ==
  /\ At(c, th, "wait") /\ inbox[c] # <<>>
  /\ inbox' = [inbox EXCEPT ![c] = Tail(@)]
  /\ thread' = [thread EXCEPT ![c][th] =
       [at |-> "install", n |-> @.n, ver |-> Head(inbox[c]).ver]]
  /\ UNCHANGED <<server, registration, asked, notices, sequence, outBuff, doing,
                 hooked, have, missed>>

\* The first message of the queue is the answer.
Receive(c, th) ==
  /\ At(c, th, "wait") /\ inbox[c] # <<>>
  /\ Seq16(Head(inbox[c]).n) = Seq16(thread[c][th].n)
  /\ inbox' = [inbox EXCEPT ![c] = Tail(@)]
  /\ thread' = [thread EXCEPT ![c][th] =
       [at |-> "install", n |-> @.n, ver |-> Head(inbox[c]).ver]]
  /\ UNCHANGED <<server, registration, asked, notices, sequence, outBuff, doing,
                 hooked, have, missed>>

\* A call that fails.
Fail(c, th) == GoOn(c, th, FALSE, FALSE) /\ Miss({c}, "failed")

\* There is no connection, or it cannot be written to.
SendFails(c, th) ==
  /\ At(c, th, "send")
  /\ Fail(c, th)
  /\ UNCHANGED <<server, registration, wires, sequence, outBuff, hooked, have>>

\* It is an error: is_mgmtd did not do what it was asked for.
Refused(c, th) ==
  /\ At(c, th, "wait") /\ inbox[c] # <<>>
  /\ Seq16(Head(inbox[c]).n) = Seq16(thread[c][th].n)
  /\ inbox' = [inbox EXCEPT ![c] = Tail(@)]
  /\ Fail(c, th)
  /\ UNCHANGED <<server, registration, asked, notices, sequence, outBuff, hooked, have>>

\* It has another number: the message is lost and the call has failed.
WrongSequence(c, th) ==
  /\ At(c, th, "wait") /\ inbox[c] # <<>>
  /\ Seq16(Head(inbox[c]).n) # Seq16(thread[c][th].n)
  /\ inbox' = [inbox EXCEPT ![c] = Tail(@)]
  /\ Fail(c, th)
  /\ UNCHANGED <<server, registration, asked, notices, sequence, outBuff, hooked, have>>

\* Mutant: the client waits for as long as it takes.
TimeOutNever(c, th) == FALSE /\ UNCHANGED vars

\* Nothing came for 10 seconds.
TimeOut(c, th) ==
  /\ At(c, th, "wait") /\ inbox[c] = <<>>
  /\ Fail(c, th)
  /\ UNCHANGED <<server, registration, wires, sequence, outBuff, hooked, have>>

\* The caller uses the answer: the contents of a load replace the copy.
Install(c, th) ==
  /\ At(c, th, "install")
  /\ have' = IF th = "main" /\ doing[c] = "ask" THEN have
             ELSE [have EXCEPT ![c] = thread[c][th].ver]
  /\ GoOn(c, th, TRUE, FALSE)
  /\ UNCHANGED <<server, registration, wires, sequence, outBuff, hooked, missed>>

\* update_trap_table writes an entry for each host of the answer and their number
\* with the last of them: where there is none, the old table stays.
InstallNothing(c, th) ==
  /\ At(c, th, "install") /\ (th = "main" => doing[c] # "ask")
  /\ c \notin LoadsFirst /\ Watches[c] \in Lists
  /\ GoOn(c, th, TRUE, FALSE)
  /\ Miss({c}, "emptied")
  /\ UNCHANGED <<server, registration, wires, sequence, outBuff, hooked, have>>

-----------------------------------------------------------------------------
(* The client library: notices                                             *)

\* silc_mgmtd_if_client_set_recv_notify: the first request of its connection,
\* so its number is 0 - and 0 is the number of every notice.
Register(c) ==
  /\ At(c, "main", "register")
  /\ registration' = [registration EXCEPT ![c] = "asked"]
  /\ Goto(c, "main", "registering")
  /\ UNCHANGED <<server, wires, sequence, outBuff, doing, hooked, have, missed>>

\* The first message is taken for the answer, whatever it is, and the handler is
\* kept even if it is an error.  Then the console manager starts no notify thread,
\* but dying gasp does.
RegisterDone(c) ==
  LET ok == Head(notices[c]) # Refusal
  IN /\ At(c, "main", "registering") /\ notices[c] # <<>>
     /\ notices' = [notices EXCEPT ![c] = Tail(@)]
     /\ hooked' = hooked \cup {c}
     /\ GoOn(c, "main", ok, ok \/ c \notin LoadsFirst)
     /\ IF Head(notices[c]) \in {Registered, Refusal} THEN UNCHANGED missed
        ELSE Miss({c}, "swallowed")
     /\ UNCHANGED <<server, registration, asked, inbox, sequence, outBuff, have>>

\* After 100 seconds, or at once without a connection: as after an error, but
\* without a handler.
RegisterTimesOut(c) ==
  /\ At(c, "main", "registering") /\ notices[c] = <<>>
  /\ GoOn(c, "main", FALSE, c \notin LoadsFirst)
  /\ Miss({c}, "failed")
  /\ UNCHANGED <<server, registration, wires, sequence, outBuff, hooked, have>>

\* silc_mgmtd_if_client_notify_thread: the handler reloads the topic.
HandleNotice(c) ==
  /\ At(c, "note", "idle") /\ notices[c] # <<>>
  /\ notices' = [notices EXCEPT ![c] = Tail(@)]
  /\ Goto(c, "note", IF c \in hooked /\ Head(notices[c]) = Watches[c] THEN "take" ELSE "idle")
  /\ UNCHANGED <<server, registration, asked, inbox, sequence, outBuff, doing, hooked,
                 have, missed>>

-----------------------------------------------------------------------------
ServerNext ==
  \/ \E w \in Workers :
       \/ \E t \in Topics : Modify(w, t) \/ Delete(w, t)
       \/ FormatNotice(w) \/ CommitDelete(w)
       \/ \E failing \in SUBSET Clients : SendNotice(w, failing)
  \/ \E c \in Clients :
       \/ \E r \in asked[c] : Read(c, r) \/ Answer(c, r)
       \/ SetNotifyPath(c) \/ AnswerRegistration(c) \/ MissRegistration(c)

Losses == Restart \/ \E c \in Clients : LoseRequests(c) \/ LoseNotices(c)

ThreadNext(c, th) ==
  \/ TakeSequence(c, th) \/ Format(c, th) \/ Send(c, th) \/ SendFails(c, th)
  \/ Receive(c, th) \/ Refused(c, th) \/ WrongSequence(c, th) \/ TimeOut(c, th)
  \/ Install(c, th) \/ InstallNothing(c, th)

NotifyNext(c) ==
  \/ Register(c) \/ RegisterDone(c) \/ RegisterTimesOut(c) \/ HandleNotice(c)

Next ==
  \/ ServerNext \/ Losses
  \/ \E c \in Clients : NotifyNext(c) \/ \E th \in Threads : ThreadNext(c, th)

Spec == Init /\ [][Next]_vars

\* The threads of a client run on, and a wait ends with its time-out; of
\* is_mgmtd nothing is assumed, as it may be killed or busy for ever.
FairSpec ==
  /\ Spec
  /\ \A c \in Clients :
       /\ WF_vars(NotifyNext(c))
       /\ \A th \in Threads : WF_vars(ThreadNext(c, th))

-----------------------------------------------------------------------------
(* Properties                                                              *)

\* A late or reordered answer never puts an older version of the configuration
\* in the place of a newer one, as long as one thread calls at a time: an answer
\* is used only by the call it belongs to (silc_mgmtd_if_req_send_sync_inner).
NeverOlder ==
  [][\A c \in Clients : "crossed" \notin missed'[c] => have'[c] >= have[c]]_vars

\* Between notices a client works with the configuration is_mgmtd has, unless
\* one of the mishaps befell it (silc_mgmtd_if_client_set_recv_notify and the
\* notify thread on one side, silc_mgmtd_net_server_notify on the other).
Quiet(c) ==
  /\ doing[c] = "done" /\ At(c, "main", "off") /\ At(c, "note", "idle")
  /\ notices[c] = <<>>
  /\ \A w \in Workers : worker[w].at # "idle" => worker[w].topic # Watches[c]

QuietIsCurrent ==
  \A c \in Clients :
    Quiet(c) /\ missed[c] = {} => have[c] = version[Watches[c]]

\* Every call of a client comes to an end, whatever is_mgmtd does.
CallsEnd ==
  \A c \in Clients : \A th \in Threads : []<>~At(c, th, "wait")
=============================================================================
