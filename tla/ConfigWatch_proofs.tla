------------------------- MODULE ConfigWatch_proofs -------------------------
(***************************************************************************)
(* Proofs about ConfigWatch, for every set of clients, topics and workers, *)
(* every number of changes and every width of the sequence numbers.        *)
(***************************************************************************)
EXTENDS ConfigWatch, SequenceTheorems, TLAPS

ThreadStates == [at : Places, n : Nat, ver : Nat]
ThreadTables == [Clients -> [Threads -> ThreadStates]]
WorkerStates == [at : {"idle", "format", "send", "commit"},
                 topic : Topics \cup {Nothing}, deletes : BOOLEAN]
Notes == Topics \cup {Registered, Refusal}
Registrations == {"none", "asked", "set", "answered", "missed"}

-----------------------------------------------------------------------------
(* The types                                                               *)

LEMMA Names ==
  /\ Threads = {"main", "note"} /\ "main" \in Threads /\ "note" \in Threads
  /\ \A place \in {"off", "idle", "take", "format", "send", "wait", "install",
                    "register", "registering"} : place \in Places
  BY DEF Threads, Places

LEMMA MishapNames ==
  \A what \in {"early", "swallowed", "overwritten", "deleted", "unsent", "deaf",
                "astray", "emptied", "failed", "crossed"} : what \in Mishaps
  BY DEF Mishaps

\* TypeOK in terms of the sets above.
Typing ==
  /\ version \in [Topics -> Nat]
  /\ worker \in [Workers -> WorkerStates]
  /\ changes \in 0..MaxChanges
  /\ sendBuff \in Topics \cup {Nothing}
  /\ registration \in [Clients -> Registrations]
  /\ asked \in [Clients -> SUBSET Requests]
  /\ inbox \in [Clients -> Seq(Answers)]
  /\ notices \in [Clients -> Seq(Notes)]
  /\ sequence \in [Clients -> Nat] /\ outBuff \in [Clients -> Nat]
  /\ doing \in [Clients -> Jobs]
  /\ thread \in ThreadTables
  /\ hooked \subseteq Clients
  /\ have \in [Clients -> Nat]
  /\ missed \in [Clients -> SUBSET Mishaps]

LEMMA Types == (TypeOK <=> Typing) /\ (TypeOK' <=> Typing')
  BY DEF TypeOK, Typing, WorkerStates, Notes, Registrations, ThreadTables, ThreadStates

\* What GoOn makes of one thread and of the main thread's work.
LEMMA GoOnTypes ==
  ASSUME TypeOK, NEW c \in Clients, NEW th \in Threads,
         NEW ok \in BOOLEAN, NEW daemon \in BOOLEAN, GoOn(c, th, ok, daemon)
  PROVE  doing' \in [Clients -> Jobs] /\ thread' \in ThreadTables
<1> DEFINE next == Then(c, ok)
           place == CASE th = "note" -> "idle"
                      [] th = "main" /\ next = "register" -> "register"
                      [] th = "main" /\ next = "done" -> "off"
                      [] OTHER -> "take"
           row == [other \in Threads |->
                     CASE other = th -> [at |-> place, n |-> 0, ver |-> 0]
                       [] other # th /\ daemon -> Idle
                       [] OTHER -> thread[c][other]]
<1>1. next \in Jobs
  BY DEF Then, Jobs
<1>2. place \in Places
  BY DEF Places
<1>3. doing' = IF th = "main" THEN [doing EXCEPT ![c] = next] ELSE doing
  BY DEF GoOn
<1>4. thread' = [thread EXCEPT ![c] = row]
  BY DEF GoOn
<1> HIDE DEF next, place
<1>5. doing' \in [Clients -> Jobs]
  BY <1>1, <1>3 DEF TypeOK
<1>6. thread \in ThreadTables
  BY Types DEF Typing
<1>7. row \in [Threads -> ThreadStates]
  BY <1>2, <1>6, Names DEF ThreadTables, ThreadStates, Idle
<1> HIDE DEF row
<1>8. thread' \in ThreadTables
  BY <1>4, <1>6, <1>7 DEF ThreadTables
<1> QED
  BY <1>5, <1>8

LEMMA GotoTypes ==
  ASSUME TypeOK, NEW c \in Clients, NEW th \in Threads, NEW place \in Places,
         Goto(c, th, place)
  PROVE  thread' \in ThreadTables
<1>1. thread \in ThreadTables
  BY Types DEF Typing
<1> QED
  BY <1>1 DEF Goto, ThreadTables, ThreadStates

\* Mishaps are noted as what they are.
LEMMA MissTypes ==
  ASSUME TypeOK, NEW cs, NEW what \in Mishaps, Miss(cs, what)
  PROVE  missed' \in [Clients -> SUBSET Mishaps]
  BY DEF TypeOK, Miss

\* What a call that fails leaves alone, and what else it does.
LEMMA FailIs ==
  ASSUME TypeOK, NEW c \in Clients, NEW th \in Threads,
         \/ SendFails(c, th) \/ Refused(c, th) \/ WrongSequence(c, th) \/ TimeOut(c, th)
  PROVE  /\ GoOn(c, th, FALSE, FALSE) /\ Miss({c}, "failed")
         /\ thread[c][th].at \in {"send", "wait"}
         /\ \/ inbox' = inbox
            \/ inbox[c] # <<>> /\ inbox' = [inbox EXCEPT ![c] = Tail(@)]
         /\ UNCHANGED <<server, registration, asked, notices, sequence, outBuff, hooked, have>>
<1> USE DEF server, wires, client, Fail
<1>1. CASE SendFails(c, th) \/ TimeOut(c, th)
  BY <1>1 DEF SendFails, TimeOut, At
<1>2. CASE Refused(c, th) \/ WrongSequence(c, th)
  BY <1>2 DEF Refused, WrongSequence, At
<1>3. QED
  BY <1>1, <1>2

\* What is in the buffer of the notices is a topic when it is sent.
Buffered ==
  \A w \in Workers :
    /\ worker[w].at # "idle" => worker[w].topic \in Topics
    /\ worker[w].at = "send" => sendBuff \in Topics

LEMMA WorkerAt ==
  ASSUME worker \in [Workers -> WorkerStates], NEW w \in Workers,
         NEW place \in {"idle", "format", "send", "commit"}
  PROVE  [worker EXCEPT ![w].at = place] \in [Workers -> WorkerStates]
  BY DEF WorkerStates

LEMMA TypeStep == TypeOK /\ Buffered /\ [Next]_vars => TypeOK'
<1> SUFFICES ASSUME TypeOK, Buffered, [Next]_vars PROVE TypeOK'
  OBVIOUS
<1> USE WatchAssumption DEF server, wires, client
<1>t. Typing
  BY Types
<1> USE <1>t DEF Typing
<1>1. ASSUME NEW w \in Workers, NEW t \in Topics, Modify(w, t) PROVE TypeOK'
  <2>1. worker' \in [Workers -> WorkerStates] /\ changes' \in 0..MaxChanges
    BY <1>1 DEF Modify, Begin, WorkerStates
  <2>2. version' \in [Topics -> Nat]
    BY <1>1 DEF Modify
  <2>3. UNCHANGED <<sendBuff, registration, wires, client, missed>>
    BY <1>1 DEF Modify
  <2>4. QED
    BY <2>1, <2>2, <2>3, Types
<1>2. ASSUME NEW w \in Workers, NEW t \in Topics, Delete(w, t) PROVE TypeOK'
  <2>1. worker' \in [Workers -> WorkerStates] /\ changes' \in 0..MaxChanges
    BY <1>2 DEF Delete, Begin, WorkerStates
  <2>2. UNCHANGED <<version, sendBuff, registration, wires, client, missed>>
    BY <1>2 DEF Delete
  <2>3. QED
    BY <2>1, <2>2, Types
<1>3. ASSUME NEW w \in Workers, FormatNotice(w) PROVE TypeOK'
  <2>1. worker' \in [Workers -> WorkerStates]
    BY <1>3, WorkerAt DEF FormatNotice
  <2>2. sendBuff' \in Topics \cup {Nothing}
    BY <1>3 DEF FormatNotice, WorkerStates
  <2>3. UNCHANGED <<version, changes, registration, wires, client, missed>>
    BY <1>3 DEF FormatNotice
  <2>4. QED
    BY <2>1, <2>2, <2>3, Types
<1>4. ASSUME NEW w \in Workers, NEW failing, SendNotice(w, failing) PROVE TypeOK'
  <2> DEFINE to == Of(worker[w].topic) \cap Listeners
             after == IF worker[w].deletes THEN [worker[w] EXCEPT !.at = "commit"] ELSE Rest
  <2>1. after \in WorkerStates
    <3>1. worker[w] \in WorkerStates
      OBVIOUS
    <3>2. QED
      BY <3>1 DEF WorkerStates, Rest
  <2>2. worker' = [worker EXCEPT ![w] = after]
    BY <1>4 DEF SendNotice
  <2>3. worker' \in [Workers -> WorkerStates]
    <3> HIDE DEF after
    <3> QED BY <2>1, <2>2
  <2>4. missed' \in [Clients -> SUBSET Mishaps]
    BY <1>4, MishapNames DEF SendNotice
  <2>5. notices' = [c \in Clients |-> IF c \in to \ failing THEN Append(notices[c], sendBuff)
                                                              ELSE notices[c]]
        /\ UNCHANGED <<version, changes, sendBuff, registration, asked, inbox, client>>
    BY <1>4 DEF SendNotice
  <2>6. sendBuff \in Notes
    BY <1>4 DEF SendNotice, Buffered, Notes
  <2>7. notices' \in [Clients -> Seq(Notes)]
    BY <2>5, <2>6
  <2>8. QED
    BY <2>3, <2>4, <2>5, <2>7, Types
<1>5. ASSUME NEW w \in Workers, CommitDelete(w) PROVE TypeOK'
  <2>1. worker' \in [Workers -> WorkerStates]
    BY <1>5 DEF CommitDelete, Rest, WorkerStates
  <2>2. version' \in [Topics -> Nat]
    <3>1. worker[w].topic \in Topics
      BY <1>5 DEF CommitDelete, Buffered
    <3>2. QED
      BY <1>5, <3>1 DEF CommitDelete
  <2>3. missed' \in [Clients -> SUBSET Mishaps]
    BY <1>5, MissTypes, MishapNames DEF CommitDelete
  <2>4. UNCHANGED <<changes, sendBuff, registration, wires, client>>
    BY <1>5 DEF CommitDelete
  <2>5. QED
    BY <2>1, <2>2, <2>3, <2>4, Types
<1>6. ASSUME NEW c \in Clients, NEW r \in asked[c], Read(c, r) PROVE TypeOK'
  <2>1. r \in Requests /\ version[Watches[c]] \in Nat
    OBVIOUS
  <2>2. [r EXCEPT !.read = TRUE, !.ver = version[Watches[c]]] \in Requests
    BY <2>1 DEF Requests
  <2>3. asked' = [asked EXCEPT ![c] = (@ \ {r}) \cup
                   {[r EXCEPT !.read = TRUE, !.ver = version[Watches[c]]]}]
        /\ UNCHANGED <<server, registration, inbox, notices, client, missed>>
    BY <1>6 DEF Read
  <2>4. asked' \in [Clients -> SUBSET Requests]
    BY <2>2, <2>3
  <2>5. QED
    BY <2>3, <2>4, Types
<1>7. ASSUME NEW c \in Clients, NEW r \in asked[c], Answer(c, r) PROVE TypeOK'
  <2>1. [n |-> r.n, ver |-> r.ver] \in Answers
    BY DEF Requests, Answers
  <2>2. inbox' \in [Clients -> Seq(Answers)]
    BY <1>7, <2>1 DEF Answer
  <2>3. asked' \in [Clients -> SUBSET Requests]
    BY <1>7 DEF Answer
  <2>4. UNCHANGED <<server, registration, notices, client, missed>>
    BY <1>7 DEF Answer
  <2>5. QED
    BY <2>2, <2>3, <2>4, Types
<1>8. ASSUME NEW c \in Clients, SetNotifyPath(c) PROVE TypeOK'
  BY <1>8, Types DEF SetNotifyPath, Registrations
<1>9. ASSUME NEW c \in Clients, AnswerRegistration(c) \/ MissRegistration(c) PROVE TypeOK'
  <2>1. PICK note \in Notes : notices' = [notices EXCEPT ![c] = Append(@, note)]
    BY <1>9 DEF AnswerRegistration, MissRegistration, Notes
  <2>2. notices' \in [Clients -> Seq(Notes)]
    BY <2>1
  <2>3. registration' \in [Clients -> Registrations]
    BY <1>9 DEF AnswerRegistration, MissRegistration, Registrations
  <2>4. missed' \in [Clients -> SUBSET Mishaps]
    BY <1>9, MissTypes, MishapNames DEF AnswerRegistration, MissRegistration
  <2>5. UNCHANGED <<server, asked, inbox, client>>
    BY <1>9 DEF AnswerRegistration, MissRegistration
  <2>6. QED
    BY <2>2, <2>3, <2>4, <2>5, Types
<1>10. ASSUME NEW c \in Clients, NEW th \in Threads, TakeSequence(c, th) PROVE TypeOK'
  <2>1. sequence[c] \in Nat
    OBVIOUS
  <2>2. thread' \in ThreadTables
    BY <1>10, <2>1, Names DEF TakeSequence, ThreadTables, ThreadStates
  <2>3. missed' \in [Clients -> SUBSET Mishaps]
    BY <1>10, MissTypes, MishapNames DEF TakeSequence
  <2>4. UNCHANGED <<server, registration, wires, sequence, outBuff, doing, hooked, have>>
    BY <1>10 DEF TakeSequence
  <2>5. QED
    BY <2>2, <2>3, <2>4, Types
<1>11. ASSUME NEW c \in Clients, NEW th \in Threads, Format(c, th) PROVE TypeOK'
  <2>1. thread' \in ThreadTables
    BY <1>11, GotoTypes, Names DEF Format
  <2>2. sequence' \in [Clients -> Nat]
    BY <1>11 DEF Format
  <2>3. outBuff' \in [Clients -> Nat]
    BY <1>11 DEF Format, ThreadTables, ThreadStates
  <2>4. UNCHANGED <<server, registration, wires, doing, hooked, have, missed>>
    BY <1>11 DEF Format
  <2>5. QED
    BY <2>1, <2>2, <2>3, <2>4, Types
<1>12. ASSUME NEW c \in Clients, NEW th \in Threads, Send(c, th) PROVE TypeOK'
  <2>1. thread' \in ThreadTables
    BY <1>12, GotoTypes, Names DEF Send
  <2>2. [n |-> outBuff[c], by |-> th, read |-> FALSE, ver |-> 0] \in Requests
    BY DEF Requests
  <2>3. asked' \in [Clients -> SUBSET Requests]
    BY <1>12, <2>2 DEF Send
  <2>4. UNCHANGED <<server, registration, inbox, notices, sequence, outBuff, doing,
                    hooked, have, missed>>
    BY <1>12 DEF Send
  <2>5. QED
    BY <2>1, <2>3, <2>4, Types
<1>13. ASSUME NEW c \in Clients, NEW th \in Threads, Receive(c, th) PROVE TypeOK'
  <2>1. Head(inbox[c]).ver \in Nat /\ Tail(inbox[c]) \in Seq(Answers)
    <3>1. Head(inbox[c]) \in Answers /\ Tail(inbox[c]) \in Seq(Answers)
      BY <1>13, HeadTailProperties DEF Receive
    <3>2. QED
      BY <3>1 DEF Answers
  <2>2. thread' \in ThreadTables
    BY <1>13, <2>1, Names, SMTT(30) DEF Receive, ThreadTables, ThreadStates
  <2>3. inbox' \in [Clients -> Seq(Answers)]
    BY <1>13, <2>1 DEF Receive
  <2>4. UNCHANGED <<server, registration, asked, notices, sequence, outBuff, doing,
                    hooked, have, missed>>
    BY <1>13 DEF Receive
  <2>5. QED
    BY <2>2, <2>3, <2>4, Types
<1>14. ASSUME NEW c \in Clients, NEW th \in Threads,
              \/ SendFails(c, th) \/ Refused(c, th) \/ WrongSequence(c, th) \/ TimeOut(c, th)
       PROVE  TypeOK'
  <2>1. /\ GoOn(c, th, FALSE, FALSE) /\ Miss({c}, "failed")
        /\ \/ inbox' = inbox
           \/ inbox[c] # <<>> /\ inbox' = [inbox EXCEPT ![c] = Tail(@)]
        /\ UNCHANGED <<server, registration, asked, notices, sequence, outBuff, hooked, have>>
    BY <1>14, FailIs
  <2>2. doing' \in [Clients -> Jobs] /\ thread' \in ThreadTables
    BY <2>1, GoOnTypes
  <2>3. missed' \in [Clients -> SUBSET Mishaps]
    BY <2>1, MissTypes, MishapNames
  <2>4. inbox' \in [Clients -> Seq(Answers)]
    <3>1. CASE inbox[c] # <<>> /\ inbox' = [inbox EXCEPT ![c] = Tail(@)]
      <4>1. Tail(inbox[c]) \in Seq(Answers)
        BY <3>1, HeadTailProperties
      <4>2. QED
        BY <3>1, <4>1
    <3>2. QED
      BY <2>1, <3>1
  <2>5. QED
    BY <2>1, <2>2, <2>3, <2>4, Types
<1>15. ASSUME NEW c \in Clients, NEW th \in Threads, InstallNothing(c, th) PROVE TypeOK'
  <2>1. doing' \in [Clients -> Jobs] /\ thread' \in ThreadTables
    BY <1>15, GoOnTypes DEF InstallNothing
  <2>2. missed' \in [Clients -> SUBSET Mishaps]
    BY <1>15, MissTypes, MishapNames DEF InstallNothing
  <2>3. UNCHANGED <<server, registration, wires, sequence, outBuff, hooked, have>>
    BY <1>15 DEF InstallNothing
  <2>4. QED
    BY <2>1, <2>2, <2>3, Types
<1>16. ASSUME NEW c \in Clients, NEW th \in Threads, Install(c, th) PROVE TypeOK'
  <2>1. doing' \in [Clients -> Jobs] /\ thread' \in ThreadTables
    BY <1>16, GoOnTypes DEF Install
  <2>2. have' \in [Clients -> Nat]
    BY <1>16 DEF Install, ThreadTables, ThreadStates
  <2>3. UNCHANGED <<server, registration, wires, sequence, outBuff, hooked, missed>>
    BY <1>16 DEF Install
  <2>4. QED
    BY <2>1, <2>2, <2>3, Types
<1>17. ASSUME NEW c \in Clients, Register(c) PROVE TypeOK'
  <2>1. thread' \in ThreadTables
    BY <1>17, GotoTypes, Names DEF Register
  <2>2. registration' \in [Clients -> Registrations]
    BY <1>17 DEF Register, Registrations
  <2>3. UNCHANGED <<server, wires, sequence, outBuff, doing, hooked, have, missed>>
    BY <1>17 DEF Register
  <2>4. QED
    BY <2>1, <2>2, <2>3, Types
<1>18. ASSUME NEW c \in Clients, RegisterDone(c) PROVE TypeOK'
  <2>0. \E ok, daemon \in BOOLEAN : GoOn(c, "main", ok, daemon)
    BY <1>18 DEF RegisterDone
  <2>1. doing' \in [Clients -> Jobs] /\ thread' \in ThreadTables
    BY <2>0, GoOnTypes, Names
  <2>2. missed' \in [Clients -> SUBSET Mishaps]
    BY <1>18, MissTypes, MishapNames DEF RegisterDone
  <2>3. Tail(notices[c]) \in Seq(Notes)
    BY <1>18, HeadTailProperties DEF RegisterDone
  <2>4. notices' \in [Clients -> Seq(Notes)] /\ hooked' \subseteq Clients
    BY <1>18, <2>3 DEF RegisterDone
  <2>5. UNCHANGED <<server, registration, asked, inbox, sequence, outBuff, have>>
    BY <1>18 DEF RegisterDone
  <2>6. QED
    BY <2>1, <2>2, <2>4, <2>5, Types
<1>19. ASSUME NEW c \in Clients, RegisterTimesOut(c) PROVE TypeOK'
  <2>1. doing' \in [Clients -> Jobs] /\ thread' \in ThreadTables
    BY <1>19, GoOnTypes, Names DEF RegisterTimesOut
  <2>2. missed' \in [Clients -> SUBSET Mishaps]
    BY <1>19, MissTypes, MishapNames DEF RegisterTimesOut
  <2>3. UNCHANGED <<server, registration, wires, sequence, outBuff, hooked, have>>
    BY <1>19 DEF RegisterTimesOut
  <2>4. QED
    BY <2>1, <2>2, <2>3, Types
<1>20. ASSUME NEW c \in Clients, HandleNotice(c) PROVE TypeOK'
  <2>1. thread' \in ThreadTables
    BY <1>20, GotoTypes, Names DEF HandleNotice
  <2>2. Tail(notices[c]) \in Seq(Notes)
    BY <1>20, HeadTailProperties DEF HandleNotice
  <2>3. notices' \in [Clients -> Seq(Notes)]
    BY <1>20, <2>2 DEF HandleNotice
  <2>4. UNCHANGED <<server, registration, asked, inbox, sequence, outBuff, doing,
                    hooked, have, missed>>
    BY <1>20 DEF HandleNotice
  <2>5. QED
    BY <2>1, <2>3, <2>4, Types
<1>21. ASSUME NEW c \in Clients, LoseRequests(c) PROVE TypeOK'
  <2>1. changes' \in 0..MaxChanges /\ asked' \in [Clients -> SUBSET Requests]
    BY <1>21 DEF LoseRequests, Lose
  <2>2. inbox' \in [Clients -> Seq(Answers)]
    BY <1>21 DEF LoseRequests
  <2>3. UNCHANGED <<version, worker, sendBuff, registration, notices, client, missed>>
    BY <1>21 DEF LoseRequests
  <2>4. QED
    BY <2>1, <2>2, <2>3, Types
<1>22. ASSUME NEW c \in Clients, LoseNotices(c) PROVE TypeOK'
  <2>1. changes' \in 0..MaxChanges /\ registration' \in [Clients -> Registrations]
    BY <1>22 DEF LoseNotices, Lose, Registrations
  <2>2. notices' \in [Clients -> Seq(Notes)]
    BY <1>22 DEF LoseNotices
  <2>3. missed' \in [Clients -> SUBSET Mishaps]
    BY <1>22, MissTypes, MishapNames DEF LoseNotices
  <2>4. UNCHANGED <<version, worker, sendBuff, asked, inbox, client>>
    BY <1>22 DEF LoseNotices
  <2>5. QED
    BY <2>1, <2>2, <2>3, <2>4, Types
<1>23. CASE Restart
  <2>1. changes' \in 0..MaxChanges /\ registration' \in [Clients -> Registrations]
    BY <1>23 DEF Restart, Lose, Registrations
  <2>2. version' \in [Topics -> Nat] /\ worker' \in [Workers -> WorkerStates]
    BY <1>23 DEF Restart, Rest, WorkerStates
  <2>3. asked' \in [Clients -> SUBSET Requests] /\ sendBuff' \in Topics \cup {Nothing}
    BY <1>23 DEF Restart
  <2>4. inbox' \in [Clients -> Seq(Answers)] /\ notices' \in [Clients -> Seq(Notes)]
    BY <1>23 DEF Restart
  <2>5. missed' \in [Clients -> SUBSET Mishaps]
    BY <1>23, MishapNames DEF Restart
  <2>6. UNCHANGED client
    BY <1>23 DEF Restart
  <2>7. QED
    BY <2>1, <2>2, <2>3, <2>4, <2>5, <2>6, Types
<1>24. CASE UNCHANGED vars
  BY <1>24, Types DEF vars
<1>25. QED
  BY <1>1, <1>2, <1>3, <1>4, <1>5, <1>6, <1>7, <1>8, <1>9, <1>10, <1>11, <1>12,
     <1>13, <1>14, <1>15, <1>16, <1>17, <1>18, <1>19, <1>20, <1>21, <1>22, <1>23, <1>24
     DEF Next, ServerNext, Losses, NotifyNext, ThreadNext

\* A step of a worker, with any of its arguments.
Works(w) ==
  \/ FormatNotice(w) \/ CommitDelete(w)
  \/ \E failing \in SUBSET Clients : SendNotice(w, failing)
  \/ \E t \in Topics : Modify(w, t) \/ Delete(w, t)

\* The steps that are not a worker's.
LEMMA Others ==
  ASSUME TypeOK, [Next]_vars
  PROVE  \/ \E w \in Workers : Works(w)
         \/ Restart
         \/ UNCHANGED <<version, worker, sendBuff>>
<1> USE DEF server, wires, client
<1>1. ASSUME NEW c \in Clients, NEW r \in asked[c], Read(c, r) \/ Answer(c, r)
      PROVE  UNCHANGED <<version, worker, sendBuff>>
  BY <1>1 DEF Read, Answer
<1>2. ASSUME NEW c \in Clients, SetNotifyPath(c) \/ AnswerRegistration(c)
                                \/ MissRegistration(c) \/ NotifyNext(c)
      PROVE  UNCHANGED <<version, worker, sendBuff>>
  BY <1>2 DEF SetNotifyPath, AnswerRegistration, MissRegistration, NotifyNext, Register,
              RegisterDone, RegisterTimesOut, HandleNotice
<1>3. ASSUME NEW c \in Clients, NEW th \in Threads, ThreadNext(c, th)
      PROVE  UNCHANGED <<version, worker, sendBuff>>
  <2>1. CASE TakeSequence(c, th) \/ Format(c, th) \/ Send(c, th) \/ Receive(c, th)
             \/ Install(c, th) \/ InstallNothing(c, th)
    BY <2>1 DEF TakeSequence, Format, Send, Receive, Install, InstallNothing
  <2>2. QED
    BY <1>3, <2>1, FailIs DEF ThreadNext
<1>4. ASSUME NEW c \in Clients, LoseRequests(c) \/ LoseNotices(c)
      PROVE  UNCHANGED <<version, worker, sendBuff>>
  BY <1>4 DEF LoseRequests, LoseNotices
<1>5. CASE UNCHANGED vars
  BY <1>5 DEF vars
<1>6. QED
  BY <1>1, <1>2, <1>3, <1>4, <1>5 DEF Next, ServerNext, Losses, Works

LEMMA BufferedStep == TypeOK /\ Buffered /\ [Next]_vars => Buffered'
<1> SUFFICES ASSUME TypeOK, Buffered, [Next]_vars, NEW w \in Workers
             PROVE  /\ worker'[w].at # "idle" => worker'[w].topic \in Topics
                    /\ worker'[w].at = "send" => sendBuff' \in Topics
  BY DEF Buffered
<1> USE DEF server, wires, client
<1>t. worker \in [Workers -> WorkerStates]
  BY Types DEF Typing
<1>1. ASSUME NEW v \in Workers, NEW t \in Topics, Modify(v, t) \/ Delete(v, t)
      PROVE  worker'[w].at # "idle" => worker'[w].topic \in Topics
             /\ (worker'[w].at = "send" => sendBuff' \in Topics)
  BY <1>1, <1>t DEF Modify, Delete, Begin, Buffered
<1>2. ASSUME NEW v \in Workers, FormatNotice(v)
      PROVE  worker'[w].at # "idle" => worker'[w].topic \in Topics
             /\ (worker'[w].at = "send" => sendBuff' \in Topics)
  BY <1>2, <1>t DEF FormatNotice, Buffered, WorkerStates
<1>3. ASSUME NEW v \in Workers, (\E failing : SendNotice(v, failing)) \/ CommitDelete(v)
      PROVE  worker'[w].at # "idle" => worker'[w].topic \in Topics
             /\ (worker'[w].at = "send" => sendBuff' \in Topics)
  BY <1>3, <1>t DEF SendNotice, CommitDelete, Buffered, WorkerStates, Rest
<1>4. CASE Restart
  BY <1>4 DEF Restart, Rest
<1>5. CASE UNCHANGED <<worker, sendBuff>>
  BY <1>5 DEF Buffered
<1>6. QED
  BY <1>1, <1>2, <1>3, <1>4, <1>5, Others DEF Works

LEMMA InitTypes == Init => TypeOK /\ Buffered
  BY WatchAssumption DEF Init, TypeOK, Rest, Idle, Jobs, Places, Threads, Buffered

\* The type invariant.
THEOREM Typed == Spec => []TypeOK
<1>1. Spec => [](TypeOK /\ Buffered)
  BY InitTypes, TypeStep, BufferedStep, PTL DEF Spec
<1>2. QED
  BY <1>1, PTL

-----------------------------------------------------------------------------
(* NeverOlder: the calls of a client, as long as it makes one at a time     *)

Arrived(c) == {inbox[c][i] : i \in DOMAIN inbox[c]}

OneCall(c) ==
  \A th, other \in Threads : InCall(c, th) /\ InCall(c, other) => th = other

\* The numbers in use, and that no message is mistaken for the answer of the
\* call that is being made.
Numbered(c) ==
  /\ \A n \in Pending(c) : n < sequence[c]
  /\ \A th \in Threads :
       /\ At(c, th, "format") => thread[c][th].n = sequence[c]
       /\ At(c, th, "send") => thread[c][th].n + 1 = sequence[c]
                               /\ outBuff[c] = thread[c][th].n
       /\ thread[c][th].at \in {"format", "send", "wait"} =>
            \A n \in Pending(c) : Seq16(n) = Seq16(thread[c][th].n)
                                    => At(c, th, "wait") /\ n = thread[c][th].n

\* What the call will bring is not older than what the client has.
Fresh(c) ==
  \A th \in Threads :
    /\ At(c, th, "wait") =>
         /\ \A r \in asked[c] : r.read /\ r.n = thread[c][th].n => r.ver >= have[c]
         /\ \A m \in Arrived(c) : m.n = thread[c][th].n => m.ver >= have[c]
    /\ At(c, th, "install") => thread[c][th].ver >= have[c]

\* Nobody is ahead of is_mgmtd.
Behind(c) ==
  /\ have[c] <= version[Watches[c]]
  /\ \A r \in asked[c] : r.read => r.ver <= version[Watches[c]]
  /\ \A m \in Arrived(c) : m.ver <= version[Watches[c]]
  /\ \A th \in Threads : At(c, th, "install") => thread[c][th].ver <= version[Watches[c]]

Calls(c) == Behind(c) /\ ("crossed" \notin missed[c] => OneCall(c) /\ Numbered(c) /\ Fresh(c))
CallsInv == \A c \in Clients : Calls(c)

LEMMA VersionGrows ==
  TypeOK /\ Buffered /\ [Next]_vars => \A t \in Topics : version[t] <= version'[t]
<1> SUFFICES ASSUME TypeOK, Buffered, [Next]_vars, NEW t \in Topics
             PROVE  version[t] <= version'[t]
  OBVIOUS
<1>t. version \in [Topics -> Nat] /\ worker \in [Workers -> WorkerStates]
  BY Types DEF Typing
<1>1. ASSUME NEW w \in Workers, NEW u \in Topics, Modify(w, u) \/ Delete(w, u)
      PROVE  version[t] <= version'[t]
  <2>1. CASE Modify(w, u)
    BY <2>1, <1>t DEF Modify
  <2>2. CASE Delete(w, u)
    BY <2>2, <1>t DEF Delete
  <2>3. QED
    BY <1>1, <2>1, <2>2
<1>2. ASSUME NEW w \in Workers, FormatNotice(w) \/ \E failing : SendNotice(w, failing)
      PROVE  version[t] <= version'[t]
  BY <1>2, <1>t DEF FormatNotice, SendNotice
<1>3. ASSUME NEW w \in Workers, CommitDelete(w) PROVE version[t] <= version'[t]
  BY <1>3, <1>t DEF CommitDelete, Buffered
<1>4. CASE Restart
  BY <1>4, <1>t DEF Restart
<1>5. CASE UNCHANGED version
  BY <1>5, <1>t
<1>6. QED
  BY <1>1, <1>2, <1>3, <1>4, <1>5, Others DEF Works

\* A client that neither sends nor gets anything new, and of which a thread only
\* leaves a call: other clients, and most steps of the client itself.
LEMMA Calm ==
  ASSUME TypeOK, TypeOK', NEW c \in Clients, Calls(c),
         version[Watches[c]] <= version'[Watches[c]],
         asked'[c] \subseteq asked[c], Arrived(c)' \subseteq Arrived(c),
         sequence'[c] = sequence[c], outBuff'[c] = outBuff[c], have'[c] = have[c],
         \A th \in Threads : thread'[c][th] = thread[c][th] \/ ~InCall(c, th)',
         missed[c] \subseteq missed'[c]
  PROVE  Calls(c)'
<1>t. /\ asked[c] \in SUBSET Requests /\ have[c] \in Nat /\ sequence[c] \in Nat
      /\ \A m \in Arrived(c) : m \in Answers
      /\ \A th \in Threads : thread[c][th] \in ThreadStates
  BY Types DEF Typing, Arrived, ThreadTables
<1>v. version[Watches[c]] \in Nat /\ version'[Watches[c]] \in Nat
  BY Types, WatchAssumption DEF Typing
<1>p. Pending(c)' \subseteq Pending(c)
  BY DEF Pending, Arrived
<1>1. Behind(c)'
  BY <1>t, <1>v DEF Calls, Behind, At, InCall, Requests, Answers, ThreadStates
<1>2. CASE "crossed" \notin missed'[c]
  <2>1. OneCall(c) /\ Numbered(c) /\ Fresh(c)
    BY <1>2 DEF Calls
  <2>2. OneCall(c)'
    BY <2>1 DEF OneCall, InCall
  <2>3. Numbered(c)'
    BY <2>1, <1>p DEF Numbered, InCall, At
  <2>4. Fresh(c)'
    BY <2>1 DEF Fresh, InCall, At
  <2>5. QED
    BY <1>1, <2>2, <2>3, <2>4 DEF Calls
<1>3. QED
  BY <1>1, <1>2 DEF Calls

\* What has arrived after the first message is taken, and after one is added.
LEMMA TakenFirst ==
  ASSUME TypeOK, NEW c \in Clients, inbox[c] # <<>>,
         inbox' = [inbox EXCEPT ![c] = Tail(@)]
  PROVE  /\ Head(inbox[c]) \in Arrived(c) /\ Head(inbox[c]) \in Answers
         /\ \A d \in Clients : Arrived(d)' \subseteq Arrived(d)
<1>1. inbox \in [Clients -> Seq(Answers)]
  BY Types DEF Typing
<1>2. inbox[c] \in Seq(Answers)
  BY <1>1
<1>3. Head(inbox[c]) \in Arrived(c) /\ Head(inbox[c]) \in Answers
  BY <1>2 DEF Arrived
<1>4. \A i \in DOMAIN Tail(inbox[c]) : Tail(inbox[c])[i] = inbox[c][i + 1]
                                       /\ i + 1 \in DOMAIN inbox[c]
  BY <1>2
<1>5. \A d \in Clients : inbox'[d] = IF d = c THEN Tail(inbox[c]) ELSE inbox[d]
  BY <1>1
<1>6. ASSUME NEW d \in Clients PROVE Arrived(d)' \subseteq Arrived(d)
  BY <1>4, <1>5 DEF Arrived
<1>7. QED
  BY <1>3, <1>6

LEMMA Added ==
  ASSUME TypeOK, NEW c \in Clients, NEW m \in Answers,
         inbox' = [inbox EXCEPT ![c] = Append(@, m)]
  PROVE  \A d \in Clients : Arrived(d)' = IF d = c THEN Arrived(c) \cup {m} ELSE Arrived(d)
<1>1. inbox \in [Clients -> Seq(Answers)]
  BY Types DEF Typing
<1>2. inbox[c] \in Seq(Answers)
  BY <1>1
<1>3. \A d \in Clients : inbox'[d] = IF d = c THEN Append(inbox[c], m) ELSE inbox[d]
  BY <1>1
<1>4. \A i \in 1..(Len(inbox[c]) + 1) :
        Append(inbox[c], m)[i] = IF i = Len(inbox[c]) + 1 THEN m ELSE inbox[c][i]
  BY <1>2
<1>5. DOMAIN Append(inbox[c], m) = 1..(Len(inbox[c]) + 1)
      /\ DOMAIN inbox[c] = 1..Len(inbox[c]) /\ Len(inbox[c]) \in Nat
  BY <1>2
<1>6. {Append(inbox[c], m)[i] : i \in DOMAIN Append(inbox[c], m)}
        = {inbox[c][i] : i \in DOMAIN inbox[c]} \cup {m}
  <2>1. ASSUME NEW i \in DOMAIN inbox[c]
        PROVE  i \in DOMAIN Append(inbox[c], m) /\ Append(inbox[c], m)[i] = inbox[c][i]
    BY <1>4, <1>5
  <2>2. Len(inbox[c]) + 1 \in DOMAIN Append(inbox[c], m)
        /\ Append(inbox[c], m)[Len(inbox[c]) + 1] = m
    BY <1>4, <1>5
  <2>3. ASSUME NEW i \in DOMAIN Append(inbox[c], m)
        PROVE  Append(inbox[c], m)[i] = m
               \/ (i \in DOMAIN inbox[c] /\ Append(inbox[c], m)[i] = inbox[c][i])
    BY <1>4, <1>5
  <2>4. QED
    BY <2>1, <2>2, <2>3
<1>7. QED
  BY <1>3, <1>6, ZenonT(40) DEF Arrived

LEMMA MissedGrows ==
  TypeOK /\ [Next]_vars => \A c \in Clients : missed[c] \subseteq missed'[c]
<1> SUFFICES ASSUME TypeOK, [Next]_vars, NEW c \in Clients
             PROVE  missed[c] \subseteq missed'[c]
  OBVIOUS
<1> USE DEF server, wires, client, Miss
<1>1. ASSUME NEW w \in Workers, (\E failing : SendNotice(w, failing)) \/ CommitDelete(w)
      PROVE  missed[c] \subseteq missed'[c]
  BY <1>1 DEF SendNotice, CommitDelete
<1>2. ASSUME NEW d \in Clients, NEW th \in Threads, ThreadNext(d, th)
      PROVE  missed[c] \subseteq missed'[c]
  <2>1. CASE TakeSequence(d, th) \/ Format(d, th) \/ Send(d, th) \/ Receive(d, th)
             \/ Install(d, th) \/ InstallNothing(d, th)
    BY <2>1 DEF TakeSequence, Format, Send, Receive, Install, InstallNothing
  <2>2. QED
    BY <1>2, <2>1, FailIs DEF ThreadNext
<1>3. ASSUME NEW d \in Clients, NotifyNext(d) PROVE missed[c] \subseteq missed'[c]
  BY <1>3 DEF NotifyNext, Register, RegisterDone, RegisterTimesOut, HandleNotice
<1>4. ASSUME NEW w \in Workers, FormatNotice(w) \/ \E t \in Topics : Modify(w, t) \/ Delete(w, t)
      PROVE  missed[c] \subseteq missed'[c]
  BY <1>4 DEF FormatNotice, Modify, Delete
<1>5. ASSUME NEW d \in Clients,
             \/ SetNotifyPath(d) \/ AnswerRegistration(d) \/ MissRegistration(d)
             \/ LoseRequests(d) \/ LoseNotices(d)
             \/ \E r \in asked[d] : Read(d, r) \/ Answer(d, r)
      PROVE  missed[c] \subseteq missed'[c]
  BY <1>5 DEF SetNotifyPath, AnswerRegistration, MissRegistration, LoseRequests,
              LoseNotices, Read, Answer
<1>6. CASE Restart
  BY <1>6 DEF Restart
<1>7. CASE UNCHANGED vars
  BY <1>7 DEF vars
<1>8. QED
  BY <1>1, <1>2, <1>3, <1>4, <1>5, <1>6, <1>7 DEF Next, ServerNext, Losses

\* Who a step concerns: the other clients' calls are as they were.
Still(d) ==
  /\ asked'[d] = asked[d] /\ inbox'[d] = inbox[d] /\ thread'[d] = thread[d]
  /\ sequence'[d] = sequence[d] /\ outBuff'[d] = outBuff[d] /\ have'[d] = have[d]

LEMMA OthersStill ==
  ASSUME TypeOK, NEW c \in Clients, NEW d \in Clients \ {c},
         \/ NotifyNext(c) \/ \E th \in Threads : ThreadNext(c, th)
         \/ \E r \in asked[c] : Read(c, r) \/ Answer(c, r)
         \/ LoseRequests(c) \/ LoseNotices(c)
  PROVE  Still(d)
<1> USE DEF server, wires, client, Still
<1>t. /\ asked \in [Clients -> SUBSET Requests] /\ inbox \in [Clients -> Seq(Answers)]
      /\ sequence \in [Clients -> Nat] /\ outBuff \in [Clients -> Nat]
      /\ have \in [Clients -> Nat] /\ thread \in ThreadTables
  BY Types DEF Typing
<1>1. ASSUME NEW r \in asked[c], Read(c, r) \/ Answer(c, r) PROVE Still(d)
  BY <1>1, <1>t DEF Read, Answer
<1>2. CASE NotifyNext(c)
  BY <1>2, <1>t DEF NotifyNext, Register, RegisterDone, RegisterTimesOut, HandleNotice,
                    Goto, GoOn, ThreadTables
<1>3. ASSUME NEW th \in Threads, ThreadNext(c, th) PROVE Still(d)
  <2>1. CASE TakeSequence(c, th) \/ Format(c, th) \/ Send(c, th)
    BY <2>1, <1>t DEF TakeSequence, Format, Send, Goto, ThreadTables
  <2>2. CASE Receive(c, th) \/ Install(c, th) \/ InstallNothing(c, th)
    BY <2>2, <1>t DEF Receive, Install, InstallNothing, GoOn, ThreadTables
  <2>3. CASE \/ SendFails(c, th) \/ Refused(c, th) \/ WrongSequence(c, th) \/ TimeOut(c, th)
    <3>1. /\ GoOn(c, th, FALSE, FALSE)
          /\ inbox' = inbox \/ inbox' = [inbox EXCEPT ![c] = Tail(@)]
          /\ UNCHANGED <<asked, sequence, outBuff, have>>
      BY <2>3, FailIs
    <3>2. QED
      BY <1>t, <3>1 DEF GoOn, ThreadTables
  <2>4. QED
    BY <1>3, <2>1, <2>2, <2>3 DEF ThreadNext
<1>4. CASE LoseRequests(c) \/ LoseNotices(c)
  BY <1>4, <1>t DEF LoseRequests, LoseNotices
<1>5. QED
  BY <1>1, <1>2, <1>3, <1>4

LEMMA StillCalls ==
  ASSUME TypeOK, TypeOK', NEW c \in Clients, Calls(c), Still(c),
         version[Watches[c]] <= version'[Watches[c]], missed[c] \subseteq missed'[c]
  PROVE  Calls(c)'
<1>1. Arrived(c)' = Arrived(c)
  BY DEF Still, Arrived
<1>2. \A th \in Threads : thread'[c][th] = thread[c][th]
  BY DEF Still
<1>3. QED
  BY <1>1, <1>2, Calm DEF Still

\* GoOn leaves its thread, and the one it starts, out of a call.
LEMMA GoOnLeaves ==
  ASSUME TypeOK, NEW c \in Clients, NEW th \in Threads, NEW ok, NEW daemon,
         GoOn(c, th, ok, daemon)
  PROVE  /\ \A other \in Threads : thread'[c][other] = thread[c][other] \/ ~InCall(c, other)'
         /\ ~InCall(c, th)'
<1>t. thread \in ThreadTables
  BY Types DEF Typing
<1> DEFINE next == Then(c, ok)
           place == CASE th = "note" -> "idle"
                      [] th = "main" /\ next = "register" -> "register"
                      [] th = "main" /\ next = "done" -> "off"
                      [] OTHER -> "take"
<1>1. thread' = [thread EXCEPT ![c] = [other \in Threads |->
          CASE other = th -> [at |-> place, n |-> 0, ver |-> 0]
            [] other # th /\ daemon -> Idle
            [] OTHER -> thread[c][other]]]
  BY DEF GoOn
<1>2. place \notin {"format", "send", "wait", "install"}
  OBVIOUS
<1> HIDE DEF place
<1>3. QED
  BY <1>1, <1>2, <1>t DEF InCall, Idle, ThreadTables

\* What the lemmas below need to know of a client.
LEMMA OfClient ==
  ASSUME TypeOK, NEW c \in Clients
  PROVE  /\ asked[c] \in SUBSET Requests /\ inbox[c] \in Seq(Answers)
         /\ have[c] \in Nat /\ sequence[c] \in Nat /\ outBuff[c] \in Nat
         /\ \A th \in Threads : thread[c][th] \in ThreadStates
         /\ Watches[c] \in Topics /\ version[Watches[c]] \in Nat
         /\ Arrived(c) \subseteq Answers
         /\ Pending(c) = {r.n : r \in asked[c]} \cup {m.n : m \in Arrived(c)}
         /\ Pending(c) \subseteq Nat
<1>1. /\ asked[c] \in SUBSET Requests /\ inbox[c] \in Seq(Answers)
      /\ have[c] \in Nat /\ sequence[c] \in Nat /\ outBuff[c] \in Nat
      /\ \A th \in Threads : thread[c][th] \in ThreadStates
      /\ Watches[c] \in Topics /\ version[Watches[c]] \in Nat
  <2>1. Typing
    BY Types
  <2>2. asked[c] \in SUBSET Requests /\ inbox[c] \in Seq(Answers)
    BY <2>1 DEF Typing
  <2>3. have[c] \in Nat /\ sequence[c] \in Nat /\ outBuff[c] \in Nat
    BY <2>1, WatchAssumption DEF Typing
  <2>4. \A th \in Threads : thread[c][th] \in ThreadStates
    BY <2>1 DEF Typing, ThreadTables
  <2>5. Watches[c] \in Topics /\ version[Watches[c]] \in Nat
    BY <2>1, WatchAssumption DEF Typing
  <2> QED
    BY <2>2, <2>3, <2>4, <2>5
<1>2. Arrived(c) \subseteq Answers
  BY <1>1 DEF Arrived
<1>3. Pending(c) = {r.n : r \in asked[c]} \cup {m.n : m \in Arrived(c)}
  BY DEF Pending, Arrived
<1>4. Pending(c) \subseteq Nat
  BY <1>1, <1>2, <1>3 DEF Requests, Answers
<1>5. QED
  BY <1>1, <1>2, <1>3, <1>4

LEMMA PendingNext ==
  ASSUME NEW c \in Clients
  PROVE  Pending(c)' = {r.n : r \in asked'[c]} \cup {m.n : m \in Arrived(c)'}
  BY DEF Pending, Arrived

LEMMA ReadCalls ==
  ASSUME TypeOK, TypeOK', NEW c \in Clients, Calls(c), NEW r \in asked[c], Read(c, r)
  PROVE  Calls(c)'
<1> USE DEF server, wires, client
<1> DEFINE now == [r EXCEPT !.read = TRUE, !.ver = version[Watches[c]]]
<1>1. asked'[c] = (asked[c] \ {r}) \cup {now}
  BY Types DEF Read, Typing
<1>2. now.n = r.n /\ now.read /\ now.ver = version[Watches[c]]
  BY OfClient DEF Requests
<1> HIDE DEF now
<1>3. UNCHANGED <<version, inbox, sequence, outBuff, thread, have, missed>>
  BY DEF Read
<1>4. Arrived(c)' = Arrived(c)
  BY <1>3 DEF Arrived
<1>5. Pending(c)' = Pending(c)
  <2>1. now \in asked'[c] /\ \A q \in asked[c] \ {r} : q \in asked'[c]
    BY <1>1
  <2>2. \A q \in asked'[c] : q = now \/ q \in asked[c]
    BY <1>1
  <2>3. {q.n : q \in asked'[c]} = {q.n : q \in asked[c]}
    BY <1>2, <2>1, <2>2
  <2>4. QED
    BY <1>4, <2>3, OfClient, PendingNext
<1>6. Behind(c)'
  BY <1>1, <1>2, <1>3, <1>4, OfClient DEF Calls, Behind, At
<1>7. CASE "crossed" \notin missed[c]
  <2>1. OneCall(c)' /\ Numbered(c)'
    BY <1>3, <1>5, <1>7 DEF Calls, OneCall, Numbered, InCall, At
  <2>2. have[c] <= version[Watches[c]]
    BY DEF Calls, Behind
  <2>3. Fresh(c)'
    BY <1>1, <1>2, <1>3, <1>4, <1>7, <2>2, OfClient DEF Calls, Fresh, At
  <2>4. QED
    BY <1>6, <2>1, <2>3 DEF Calls
<1>8. QED
  BY <1>3, <1>6, <1>7 DEF Calls

LEMMA AnswerCalls ==
  ASSUME TypeOK, TypeOK', NEW c \in Clients, Calls(c), NEW r \in asked[c], Answer(c, r)
  PROVE  Calls(c)'
<1> USE DEF server, wires, client
<1> DEFINE m == [n |-> r.n, ver |-> r.ver]
<1>1. asked'[c] = asked[c] \ {r} /\ r.read
  BY Types DEF Answer, Typing
<1>2. m \in Answers /\ m.n = r.n /\ m.ver = r.ver
  BY OfClient DEF Requests, Answers
<1>3. inbox' = [inbox EXCEPT ![c] = Append(@, m)]
  BY DEF Answer
<1> HIDE DEF m
<1>4. Arrived(c)' = Arrived(c) \cup {m}
  BY <1>2, <1>3, Added
<1>5. UNCHANGED <<version, sequence, outBuff, thread, have, missed>>
  BY DEF Answer
<1>6. Pending(c)' \subseteq Pending(c)
  BY <1>1, <1>2, <1>4, OfClient, PendingNext
<1>7. Behind(c)'
  BY <1>1, <1>2, <1>4, <1>5, OfClient DEF Calls, Behind, At
<1>8. CASE "crossed" \notin missed[c]
  <2>1. OneCall(c)' /\ Numbered(c)'
    BY <1>5, <1>6, <1>8 DEF Calls, OneCall, Numbered, InCall, At
  <2>2. Fresh(c)'
    BY <1>1, <1>2, <1>4, <1>5, <1>8, OfClient DEF Calls, Fresh, At
  <2>3. QED
    BY <1>7, <2>1, <2>2 DEF Calls
<1>9. QED
  BY <1>5, <1>7, <1>8 DEF Calls

LEMMA TakeCalls ==
  ASSUME TypeOK, TypeOK', NEW c \in Clients, Calls(c), NEW th \in Threads,
         TakeSequence(c, th), missed[c] \subseteq missed'[c]
  PROVE  Calls(c)'
<1> USE DEF server, wires, client
<1>1. \A other \in Threads :
        thread'[c][other] = IF other = th THEN [at |-> "format", n |-> sequence[c], ver |-> 0]
                                          ELSE thread[c][other]
  BY Types DEF TakeSequence, Typing, ThreadTables
<1>2. UNCHANGED <<version, asked, inbox, sequence, outBuff, have>>
  BY DEF TakeSequence
<1>3. Arrived(c)' = Arrived(c) /\ Pending(c)' = Pending(c)
  BY <1>2 DEF Arrived, Pending
<1>4. Behind(c)'
  BY <1>1, <1>2, <1>3, OfClient DEF Calls, Behind, At
<1>5. CASE "crossed" \notin missed'[c]
  <2>1. OneCall(c) /\ Numbered(c) /\ Fresh(c)
    BY <1>5 DEF Calls
  <2>2. \A other \in Threads \ {th} : ~InCall(c, other)
    BY <1>5, Types DEF TakeSequence, Miss, Typing
  <2>3. OneCall(c)'
    BY <1>1, <2>2 DEF OneCall, InCall
  <2>4. \A n \in Pending(c) : n < sequence[c] /\ Seq16(n) # Seq16(sequence[c])
    BY <2>1 DEF Numbered, TakeSequence
  <2>5. Numbered(c)'
    BY <1>1, <1>2, <1>3, <2>2, <2>4 DEF Numbered, InCall, At
  <2>6. Fresh(c)'
    BY <1>1, <1>2, <1>3, <2>1, <2>2 DEF Fresh, InCall, At
  <2>7. QED
    BY <1>4, <2>3, <2>5, <2>6 DEF Calls
<1>6. QED
  BY <1>4, <1>5 DEF Calls

\* A thread that goes to the next place of its call.
LEMMA GoesTo ==
  ASSUME TypeOK, NEW c \in Clients, NEW th \in Threads, NEW place \in Places,
         Goto(c, th, place)
  PROVE  /\ thread'[c][th].at = place /\ thread'[c][th].n = thread[c][th].n
         /\ \A other \in Threads \ {th} : thread'[c][other] = thread[c][other]
  BY Types DEF Typing, Goto, ThreadTables, ThreadStates

LEMMA FormatCalls ==
  ASSUME TypeOK, TypeOK', NEW c \in Clients, Calls(c), NEW th \in Threads, Format(c, th)
  PROVE  Calls(c)'
<1> USE DEF server, wires, client
<1>1. /\ thread'[c][th].at = "send" /\ thread'[c][th].n = thread[c][th].n
      /\ \A other \in Threads \ {th} : thread'[c][other] = thread[c][other]
  BY GoesTo, Names DEF Format
<1>2. UNCHANGED <<version, asked, inbox, have, missed>> /\ At(c, th, "format")
      /\ sequence'[c] = sequence[c] + 1 /\ outBuff'[c] = thread[c][th].n
  BY Types DEF Format, Typing
<1>3. Arrived(c)' = Arrived(c) /\ Pending(c)' = Pending(c)
  BY <1>2 DEF Arrived, Pending
<1>4. Behind(c)'
  BY <1>1, <1>2, <1>3, OfClient DEF Calls, Behind, At
<1>5. CASE "crossed" \notin missed[c]
  <2>1. OneCall(c) /\ Numbered(c) /\ Fresh(c)
    BY <1>5 DEF Calls
  <2>2. \A other \in Threads \ {th} : ~InCall(c, other)
    BY <1>2, <2>1 DEF OneCall, InCall, At
  <2>3. OneCall(c)'
    BY <1>1, <2>2 DEF OneCall, InCall
  <2>4. thread[c][th].n = sequence[c] /\ \A n \in Pending(c) : n < sequence[c]
    BY <1>2, <2>1 DEF Numbered
  <2>5. \A n \in Pending(c) : Seq16(n) # Seq16(thread[c][th].n)
    BY <1>2, <2>1 DEF Numbered, At
  <2>6. \A n \in Pending(c) : n < sequence[c] + 1
    BY <2>4, OfClient
  <2>7. Numbered(c)'
    BY <1>1, <1>2, <1>3, <2>2, <2>4, <2>5, <2>6 DEF Numbered, InCall, At
  <2>8. Fresh(c)'
    BY <1>1, <1>2, <1>3, <2>1, <2>2 DEF Fresh, InCall, At
  <2>9. QED
    BY <1>4, <2>3, <2>7, <2>8 DEF Calls
<1>6. QED
  BY <1>2, <1>4, <1>5 DEF Calls

LEMMA SendCalls ==
  ASSUME TypeOK, TypeOK', NEW c \in Clients, Calls(c), NEW th \in Threads, Send(c, th)
  PROVE  Calls(c)'
<1> USE DEF server, wires, client
<1> DEFINE q == [n |-> outBuff[c], by |-> th, read |-> FALSE, ver |-> 0]
<1>1. /\ thread'[c][th].at = "wait" /\ thread'[c][th].n = thread[c][th].n
      /\ \A other \in Threads \ {th} : thread'[c][other] = thread[c][other]
  BY GoesTo, Names DEF Send
<1>2. UNCHANGED <<version, inbox, sequence, outBuff, have, missed>> /\ At(c, th, "send")
      /\ asked'[c] = asked[c] \cup {q}
  BY Types DEF Send, Typing
<1>3. q.n = outBuff[c] /\ ~q.read
  OBVIOUS
<1> HIDE DEF q
<1>4. Arrived(c)' = Arrived(c) /\ Pending(c)' = Pending(c) \cup {outBuff[c]}
  BY <1>2, <1>3 DEF Arrived, Pending
<1>5. Behind(c)'
  BY <1>1, <1>2, <1>3, <1>4, OfClient DEF Calls, Behind, At
<1>6. CASE "crossed" \notin missed[c]
  <2>1. OneCall(c) /\ Numbered(c) /\ Fresh(c)
    BY <1>6 DEF Calls
  <2>2. \A other \in Threads \ {th} : ~InCall(c, other)
    BY <1>2, <2>1 DEF OneCall, InCall, At
  <2>3. OneCall(c)'
    BY <1>1, <2>2 DEF OneCall, InCall
  <2>4. thread[c][th].n + 1 = sequence[c] /\ outBuff[c] = thread[c][th].n
        /\ \A n \in Pending(c) : n < sequence[c]
    BY <1>2, <2>1 DEF Numbered
  <2>5. \A n \in Pending(c) : Seq16(n) # Seq16(thread[c][th].n)
    BY <1>2, <2>1 DEF Numbered, At
  <2>6. \A n \in Pending(c)' : n < sequence[c]
    BY <1>4, <2>4, OfClient
  <2>7. Numbered(c)'
    BY <1>1, <1>2, <1>4, <2>2, <2>4, <2>5, <2>6 DEF Numbered, InCall, At
  <2>8. \A r \in asked[c] : r.n # thread[c][th].n
    BY <2>5, OfClient
  <2>9. \A m \in Arrived(c) : m.n # thread[c][th].n
    BY <2>5, OfClient
  <2>10. Fresh(c)'
    BY <1>1, <1>2, <1>3, <1>4, <2>2, <2>8, <2>9 DEF Fresh, InCall, At
  <2>11. QED
    BY <1>5, <2>3, <2>7, <2>10 DEF Calls
<1>7. QED
  BY <1>2, <1>5, <1>6 DEF Calls

LEMMA ReceiveCalls ==
  ASSUME TypeOK, TypeOK', NEW c \in Clients, Calls(c), NEW th \in Threads, Receive(c, th)
  PROVE  Calls(c)'
<1> USE DEF server, wires, client
<1> DEFINE m == Head(inbox[c])
<1>1. \A other \in Threads :
        thread'[c][other] = IF other = th
          THEN [at |-> "install", n |-> thread[c][th].n, ver |-> m.ver]
          ELSE thread[c][other]
  BY Types DEF Receive, Typing, ThreadTables
<1>2. UNCHANGED <<version, asked, sequence, outBuff, have, missed>> /\ At(c, th, "wait")
      /\ Seq16(m.n) = Seq16(thread[c][th].n)
  BY DEF Receive
<1>3. m \in Arrived(c) /\ Arrived(c)' \subseteq Arrived(c)
  BY TakenFirst DEF Receive
<1> HIDE DEF m
<1>4. Pending(c)' \subseteq Pending(c) /\ m.n \in Pending(c)
  BY <1>2, <1>3, OfClient, PendingNext
<1>5. Behind(c)'
  BY <1>1, <1>2, <1>3, OfClient DEF Calls, Behind, At
<1>6. CASE "crossed" \notin missed[c]
  <2>1. OneCall(c) /\ Numbered(c) /\ Fresh(c)
    BY <1>6 DEF Calls
  <2>2. \A other \in Threads \ {th} : ~InCall(c, other)
    BY <1>2, <2>1 DEF OneCall, InCall, At
  <2>3. OneCall(c)'
    BY <1>1, <2>2 DEF OneCall, InCall
  <2>4. m.n = thread[c][th].n
    BY <1>2, <1>4, <2>1 DEF Numbered, At
  <2>5. m.ver >= have[c]
    BY <1>2, <1>3, <2>1, <2>4 DEF Fresh
  <2>6. Numbered(c)'
    BY <1>1, <1>2, <1>4, <2>1, <2>2 DEF Numbered, InCall, At
  <2>7. Fresh(c)'
    BY <1>1, <1>2, <2>2, <2>5 DEF Fresh, InCall, At
  <2>8. QED
    BY <1>5, <2>3, <2>6, <2>7 DEF Calls
<1>7. QED
  BY <1>2, <1>5, <1>6 DEF Calls

LEMMA InstallCalls ==
  ASSUME TypeOK, TypeOK', NEW c \in Clients, Calls(c), NEW th \in Threads, Install(c, th)
  PROVE  Calls(c)'
<1> USE DEF server, wires, client
<1>1. \A other \in Threads : thread'[c][other] = thread[c][other] \/ ~InCall(c, other)'
  BY GoOnLeaves DEF Install
<1>2. UNCHANGED <<version, asked, inbox, sequence, outBuff, missed>> /\ At(c, th, "install")
      /\ (have'[c] = have[c] \/ have'[c] = thread[c][th].ver)
  BY Types DEF Install, Typing
<1>3. Arrived(c)' = Arrived(c) /\ Pending(c)' = Pending(c)
  BY <1>2 DEF Arrived, Pending
<1>4. Behind(c)'
  BY <1>1, <1>2, <1>3, OfClient DEF Calls, Behind, At, InCall
<1>5. CASE "crossed" \notin missed[c]
  <2>1. OneCall(c) /\ Numbered(c) /\ Fresh(c)
    BY <1>5 DEF Calls
  <2>2. \A other \in Threads \ {th} : ~InCall(c, other)
    BY <1>2, <2>1 DEF OneCall, InCall, At
  <2>3. ~InCall(c, th)'
    BY GoOnLeaves DEF Install
  <2>4. \A other \in Threads : ~InCall(c, other)'
    BY <1>1, <2>2, <2>3 DEF InCall
  <2>5. OneCall(c)' /\ Numbered(c)' /\ Fresh(c)'
    BY <1>2, <1>3, <2>1, <2>4 DEF OneCall, Numbered, Fresh, InCall, At
  <2>6. QED
    BY <1>4, <2>5 DEF Calls
<1>6. QED
  BY <1>2, <1>4, <1>5 DEF Calls

LEMMA CalmCalls ==
  ASSUME TypeOK, TypeOK', NEW c \in Clients, Calls(c), missed[c] \subseteq missed'[c],
         \/ NotifyNext(c)
         \/ \E th \in Threads :
              \/ SendFails(c, th) \/ Refused(c, th) \/ WrongSequence(c, th) \/ TimeOut(c, th)
              \/ InstallNothing(c, th)
  PROVE  Calls(c)'
<1> USE DEF server, wires, client
<1>1. /\ UNCHANGED <<version, asked, sequence, outBuff, have>>
      /\ Arrived(c)' \subseteq Arrived(c)
      /\ \A th \in Threads : thread'[c][th] = thread[c][th] \/ ~InCall(c, th)'
  <2>1. CASE Register(c)
    BY <2>1, GoesTo, Names DEF Register, Arrived, InCall
  <2>2. CASE HandleNotice(c)
    BY <2>2, GoesTo, Names DEF HandleNotice, Arrived, InCall
  <2>3. CASE RegisterDone(c)
    BY <2>3, GoOnLeaves, Names DEF RegisterDone, Arrived
  <2>4. CASE RegisterTimesOut(c)
    BY <2>4, GoOnLeaves, Names DEF RegisterTimesOut, Arrived
  <2>5. ASSUME NEW th \in Threads,
               \/ SendFails(c, th) \/ Refused(c, th) \/ WrongSequence(c, th) \/ TimeOut(c, th)
        PROVE  /\ UNCHANGED <<version, asked, sequence, outBuff, have>>
               /\ Arrived(c)' \subseteq Arrived(c)
               /\ \A o \in Threads : thread'[c][o] = thread[c][o] \/ ~InCall(c, o)'
    <3>1. /\ GoOn(c, th, FALSE, FALSE)
          /\ \/ inbox' = inbox
             \/ inbox[c] # <<>> /\ inbox' = [inbox EXCEPT ![c] = Tail(@)]
          /\ UNCHANGED <<version, asked, sequence, outBuff, have>>
      BY <2>5, FailIs
    <3>2. Arrived(c)' \subseteq Arrived(c)
      BY <3>1, TakenFirst DEF Arrived
    <3>3. QED
      BY <3>1, <3>2, GoOnLeaves
  <2>6. ASSUME NEW th \in Threads, InstallNothing(c, th)
        PROVE  /\ UNCHANGED <<version, asked, sequence, outBuff, have>>
               /\ Arrived(c)' \subseteq Arrived(c)
               /\ \A o \in Threads : thread'[c][o] = thread[c][o] \/ ~InCall(c, o)'
    BY <2>6, GoOnLeaves DEF InstallNothing, Arrived
  <2>7. QED
    BY <2>1, <2>2, <2>3, <2>4, <2>5, <2>6 DEF NotifyNext
<1>2. version[Watches[c]] <= version'[Watches[c]]
  BY <1>1, OfClient
<1>3. QED
  BY <1>1, <1>2, Calm

LEMMA CallsStep ==
  TypeOK /\ TypeOK' /\ Buffered /\ CallsInv /\ [Next]_vars => CallsInv'
<1> SUFFICES ASSUME TypeOK, TypeOK', Buffered, CallsInv, [Next]_vars, NEW c \in Clients
             PROVE  Calls(c)'
  BY DEF CallsInv
<1> USE DEF server, wires, client
<1>1. Calls(c) /\ missed[c] \subseteq missed'[c]
      /\ version[Watches[c]] <= version'[Watches[c]]
  BY MissedGrows, VersionGrows, OfClient DEF CallsInv
<1>2. CASE Still(c)
  BY <1>1, <1>2, StillCalls
<1>3. ASSUME NEW d \in Clients,
             \/ NotifyNext(d) \/ \E th \in Threads : ThreadNext(d, th)
             \/ \E r \in asked[d] : Read(d, r) \/ Answer(d, r)
      PROVE  Calls(c)'
  <2>1. CASE d # c
    BY <1>2, <1>3, <2>1, OthersStill
  <2>2. CASE d = c
    <3>1. ASSUME NEW r \in asked[c], Read(c, r) \/ Answer(c, r) PROVE Calls(c)'
      BY <1>1, <3>1, ReadCalls, AnswerCalls
    <3>2. ASSUME NEW th \in Threads, ThreadNext(c, th) PROVE Calls(c)'
      BY <1>1, <3>2, TakeCalls, FormatCalls, SendCalls, ReceiveCalls, InstallCalls,
         CalmCalls DEF ThreadNext
    <3>3. CASE NotifyNext(c)
      BY <1>1, <3>3, CalmCalls
    <3>4. QED
      BY <1>3, <2>2, <3>1, <3>2, <3>3
  <2>3. QED
    BY <2>1, <2>2
<1>4. CASE \E w \in Workers : Works(w)
  <2>1. Still(c)
    BY <1>4 DEF Works, FormatNotice, SendNotice, CommitDelete, Modify, Delete, Still
  <2>2. QED
    BY <1>2, <2>1
<1>5. ASSUME NEW d \in Clients, \/ SetNotifyPath(d) \/ AnswerRegistration(d)
                                \/ MissRegistration(d) \/ LoseNotices(d)
      PROVE  Calls(c)'
  BY <1>2, <1>5 DEF SetNotifyPath, AnswerRegistration, MissRegistration, LoseNotices, Still
<1>6. ASSUME Restart \/ \E d \in Clients : LoseRequests(d) PROVE Calls(c)'
  <2>1. asked'[c] \subseteq asked[c] /\ (inbox'[c] = inbox[c] \/ inbox'[c] = <<>>)
    BY <1>6, OfClient, Types DEF Restart, LoseRequests, Typing
  <2>2. Arrived(c)' \subseteq Arrived(c)
    BY <2>1 DEF Arrived
  <2>3. UNCHANGED client
    BY <1>6 DEF Restart, LoseRequests
  <2>4. QED
    BY <1>1, <2>1, <2>2, <2>3, Calm
<1>7. CASE UNCHANGED vars
  BY <1>2, <1>7 DEF vars, Still
<1>8. QED
  BY <1>3, <1>4, <1>5, <1>6, <1>7 DEF Next, ServerNext, Losses, Works

LEMMA InitCalls == Init => CallsInv
<1> SUFFICES ASSUME Init, NEW c \in Clients PROVE Calls(c)
  BY DEF CallsInv
<1>1. asked[c] = {} /\ inbox[c] = <<>> /\ have[c] = 0 /\ version[Watches[c]] = 0
  BY WatchAssumption DEF Init
<1>2. Arrived(c) = {} /\ Pending(c) = {}
  BY <1>1 DEF Arrived, Pending
<1>3. \A th \in Threads : ~InCall(c, th)
  BY DEF Init, InCall, Idle
<1>4. QED
  BY <1>1, <1>2, <1>3 DEF Calls, Behind, OneCall, Numbered, Fresh, InCall, At

LEMMA Inductive == Spec => [](TypeOK /\ Buffered /\ CallsInv)
<1>1. TypeOK /\ Buffered /\ CallsInv /\ [Next]_vars => (TypeOK /\ Buffered /\ CallsInv)'
  BY TypeStep, BufferedStep, CallsStep
<1>2. QED
  BY <1>1, InitTypes, InitCalls, PTL DEF Spec

\* The configuration of a client gets never older, as long as it makes one call
\* at a time.
LEMMA InstallsNewer ==
  TypeOK /\ CallsInv /\ [Next]_vars =>
    \A c \in Clients : "crossed" \notin missed'[c] => have'[c] >= have[c]
<1> SUFFICES ASSUME TypeOK, CallsInv, [Next]_vars, NEW c \in Clients,
                    "crossed" \notin missed'[c]
             PROVE  have'[c] >= have[c]
  OBVIOUS
<1> USE DEF server, wires, client
<1>1. have \in [Clients -> Nat]
  BY Types DEF Typing
<1>2. ASSUME NEW th \in Threads, Install(c, th) PROVE have'[c] >= have[c]
  <2>1. UNCHANGED missed /\ At(c, th, "install")
        /\ (have'[c] = have[c] \/ have'[c] = thread[c][th].ver)
    BY <1>1, <1>2 DEF Install
  <2>2. thread[c][th].ver >= have[c]
    BY <2>1 DEF CallsInv, Calls, Fresh
  <2>3. QED
    BY <1>1, <2>1, <2>2
<1>3. ASSUME NEW d \in Clients \ {c}, NEW th \in Threads, Install(d, th)
      PROVE  have'[c] >= have[c]
  BY <1>1, <1>3 DEF Install
<1>4. CASE UNCHANGED have
  BY <1>1, <1>4
<1>5. ASSUME NEW d \in Clients, NotifyNext(d) PROVE UNCHANGED have
  BY <1>5 DEF NotifyNext, Register, RegisterDone, RegisterTimesOut, HandleNotice
<1>6. ASSUME NEW d \in Clients, NEW th \in Threads, ThreadNext(d, th), ~Install(d, th)
      PROVE  UNCHANGED have
  <2>1. CASE TakeSequence(d, th) \/ Format(d, th) \/ Send(d, th) \/ Receive(d, th)
             \/ InstallNothing(d, th)
    BY <2>1 DEF TakeSequence, Format, Send, Receive, InstallNothing
  <2>2. QED
    BY <1>6, <2>1, FailIs DEF ThreadNext
<1>7. ASSUME ServerNext \/ Losses PROVE UNCHANGED have
  BY <1>7 DEF ServerNext, Modify, Delete, FormatNotice, SendNotice, CommitDelete, Read,
              Answer, SetNotifyPath, AnswerRegistration, MissRegistration, Losses,
              LoseRequests, LoseNotices, Restart
<1>8. QED
  BY <1>2, <1>3, <1>4, <1>5, <1>6, <1>7 DEF Next, vars

\* A late or reordered answer never puts an older version of the configuration in
\* the place of a newer one, as long as one thread of the client calls at a time.
THEOREM NoOlder == Spec => NeverOlder
<1>1. TypeOK /\ CallsInv /\ [Next]_vars =>
        [\A c \in Clients : "crossed" \notin missed'[c] => have'[c] >= have[c]]_vars
  BY InstallsNewer
<1>2. QED
  BY <1>1, Inductive, PTL DEF Spec, NeverOlder

-----------------------------------------------------------------------------
(* QuietIsCurrent: how a change reaches a client that met no mishap         *)

\* The main thread has not registered yet.
Before(c) ==
  doing[c] = "ask" \/ (c \in LoadsFirst /\ doing[c] = "load") \/ At(c, "main", "register")

\* The registration of a client without a mishap was not missed.
Accepted(c) ==
  missed[c] = {} => /\ registration[c] # "missed"
                    /\ \A i \in DOMAIN notices[c] : notices[c][i] # Refusal

\* The clients something may have been sent to on their notice connection.
Heard == {c \in Clients : registration[c] \in {"set", "answered", "missed"}}

\* The course of the main thread, and what cannot have happened yet.
Course(c) ==
  /\ thread[c]["main"].at \in {"register", "registering"} <=> doing[c] = "register"
  /\ Before(c) \/ doing[c] = "register" => At(c, "note", "off")
  /\ Before(c) => registration[c] = "none"
  /\ notices[c] # <<>> => c \in Heard

Runs(c) == \E th \in Threads : ~At(c, th, "off")

\* No answer to the call that thread th makes is out of date.
AllCurrent(c, th) ==
  /\ \A r \in asked[c] : r.read /\ r.n = thread[c][th].n => r.ver = version[Watches[c]]
  /\ \A m \in Arrived(c) : m.n = thread[c][th].n => m.ver = version[Watches[c]]

\* Thread th will bring the current version.
Bringing(c, th) ==
  /\ th = "note" \/ doing[c] # "ask"
  /\ \/ thread[c][th].at \in {"take", "format", "send"}
     \/ At(c, th, "wait") /\ AllCurrent(c, th)
     \/ At(c, th, "install") /\ thread[c][th].ver = version[Watches[c]]

\* A worker will send the notice of a change it made.
Announced(c) ==
  \E w \in Workers : /\ worker[w].at \in {"format", "send"} /\ ~worker[w].deletes
                     /\ worker[w].topic = Watches[c]

Noticed(c) == \E i \in DOMAIN notices[c] : notices[c][i] = Watches[c]

\* The client is yet to load for the first time, after it has registered.
WillLoad(c) == doing[c] = "ask" \/ (c \notin LoadsFirst /\ doing[c] = "register")

\* Where the newest change is on its way to the client.
OnTheWay(c) ==
  \/ have[c] = version[Watches[c]] \/ Announced(c) \/ Noticed(c) \/ WillLoad(c)
  \/ \E th \in Threads : Bringing(c, th)

Way(c) ==
  missed[c] = {} /\ Runs(c) =>
    /\ ~At(c, "note", "off") => c \in hooked
    /\ c \notin LoadsFirst /\ c \notin Listeners => WillLoad(c)
    /\ OnTheWay(c)

WayInv == \A c \in Clients : Course(c) /\ Way(c) /\ Accepted(c)

\* What GoOn does to its client ...
LEMMA GoOnIs ==
  ASSUME TypeOK, NEW c \in Clients, NEW th \in Threads, NEW ok, NEW daemon,
         GoOn(c, th, ok, daemon)
  PROVE  /\ th = "note" => thread'[c][th].at = "idle" /\ doing'[c] = doing[c]
         /\ th = "main" =>
              /\ doing'[c] = Then(c, ok)
              /\ thread'[c][th].at = CASE Then(c, ok) = "register" -> "register"
                                       [] Then(c, ok) = "done" -> "off"
                                       [] OTHER -> "take"
         /\ \A other \in Threads \ {th} :
              thread'[c][other] = IF daemon THEN Idle ELSE thread[c][other]
<1> DEFINE next == Then(c, ok)
           place == CASE th = "note" -> "idle"
                      [] th = "main" /\ next = "register" -> "register"
                      [] th = "main" /\ next = "done" -> "off"
                      [] OTHER -> "take"
<1>1. thread' = [thread EXCEPT ![c] = [other \in Threads |->
          CASE other = th -> [at |-> place, n |-> 0, ver |-> 0]
            [] other # th /\ daemon -> Idle
            [] OTHER -> thread[c][other]]]
  BY DEF GoOn
<1>2. doing' = IF th = "main" THEN [doing EXCEPT ![c] = next] ELSE doing
  BY DEF GoOn
<1> HIDE DEF next, place
<1>3. thread'[c][th].at = place
      /\ \A other \in Threads \ {th} :
           thread'[c][other] = IF daemon THEN Idle ELSE thread[c][other]
  BY <1>1, Types DEF Typing, ThreadTables
<1>4. doing'[c] = IF th = "main" THEN next ELSE doing[c]
  BY <1>2, Types DEF Typing
<1>5. th = "note" => place = "idle"
  BY DEF place
<1>6. th = "main" => place = CASE next = "register" -> "register"
                               [] next = "done" -> "off"
                               [] OTHER -> "take"
  BY DEF place
<1>7. next = Then(c, ok)
  BY DEF next
<1>8. QED
  BY <1>3, <1>4, <1>5, <1>6, <1>7

\* ... and what a step of one client leaves alone of the others.
SameCourse(d) ==
  /\ doing'[d] = doing[d] /\ registration'[d] = registration[d] /\ notices'[d] = notices[d]
  /\ d \in hooked' <=> d \in hooked
  /\ missed'[d] = missed[d]

LEMMA OthersCourse ==
  ASSUME TypeOK, NEW c \in Clients, NEW d \in Clients \ {c},
         \/ NotifyNext(c) \/ \E th \in Threads : ThreadNext(c, th)
         \/ \E r \in asked[c] : Read(c, r) \/ Answer(c, r)
         \/ SetNotifyPath(c) \/ AnswerRegistration(c) \/ MissRegistration(c)
         \/ LoseRequests(c) \/ LoseNotices(c)
  PROVE  SameCourse(d) /\ UNCHANGED <<version, worker, sendBuff>>
<1> USE DEF server, wires, client, SameCourse, Miss
<1>t. /\ registration \in [Clients -> Registrations]
      /\ notices \in [Clients -> Seq(Notes)] /\ doing \in [Clients -> Jobs]
      /\ missed \in [Clients -> SUBSET Mishaps]
  BY Types DEF Typing
<1>1. ASSUME NEW r \in asked[c], Read(c, r) \/ Answer(c, r)
      PROVE  SameCourse(d) /\ UNCHANGED <<version, worker, sendBuff>>
  BY <1>1 DEF Read, Answer
<1>2. CASE NotifyNext(c)
  <2>1. CASE Register(c) \/ HandleNotice(c)
    BY <1>t, <2>1 DEF Register, HandleNotice
  <2>2. CASE RegisterDone(c) \/ RegisterTimesOut(c)
    BY <1>t, <2>2, ZenonT(40) DEF RegisterDone, RegisterTimesOut, GoOn
  <2>3. QED
    BY <1>2, <2>1, <2>2 DEF NotifyNext
<1>3. ASSUME NEW th \in Threads, ThreadNext(c, th)
      PROVE  SameCourse(d) /\ UNCHANGED <<version, worker, sendBuff>>
  <2>1. CASE TakeSequence(c, th) \/ Format(c, th) \/ Send(c, th) \/ Receive(c, th)
    BY <1>t, <2>1 DEF TakeSequence, Format, Send, Receive
  <2>2. CASE Install(c, th) \/ InstallNothing(c, th)
    BY <1>t, <2>2 DEF Install, InstallNothing, GoOn
  <2>3. CASE \/ SendFails(c, th) \/ Refused(c, th) \/ WrongSequence(c, th) \/ TimeOut(c, th)
    <3>0. /\ GoOn(c, th, FALSE, FALSE) /\ Miss({c}, "failed")
          /\ UNCHANGED <<server, registration, notices, hooked>>
      BY <2>3, FailIs, ZenonT(40)
    <3>1. /\ GoOn(c, th, FALSE, FALSE) /\ missed'[d] = missed[d]
          /\ UNCHANGED <<server, registration, notices, hooked>>
      BY <1>t, <3>0
    <3>2. doing'[d] = doing[d]
      BY <1>t, <3>1 DEF GoOn
    <3>3. QED
      BY <3>1, <3>2
  <2>4. QED
    BY <1>3, <2>1, <2>2, <2>3 DEF ThreadNext
<1>4. CASE SetNotifyPath(c) \/ AnswerRegistration(c) \/ MissRegistration(c)
  BY <1>4, <1>t DEF SetNotifyPath, AnswerRegistration, MissRegistration
<1>5. CASE LoseRequests(c) \/ LoseNotices(c)
  BY <1>5, <1>t DEF LoseRequests, LoseNotices
<1>6. QED
  BY <1>1, <1>2, <1>3, <1>4, <1>5

LEMMA StillCourse ==
  ASSUME NEW c \in Clients, Course(c), thread'[c] = thread[c], doing'[c] = doing[c],
         registration'[c] = registration[c], notices'[c] = notices[c]
  PROVE  Course(c)'
  BY DEF Course, Before, At, Heard

\* A step within a call.
LEMMA WithinCourse ==
  ASSUME NEW c \in Clients, Course(c), NEW th \in Threads,
         thread[c][th].at \in {"take", "format", "send", "wait"},
         thread'[c][th].at \in {"format", "send", "wait", "install"},
         \A other \in Threads \ {th} : thread'[c][other] = thread[c][other],
         doing'[c] = doing[c], registration'[c] = registration[c], notices'[c] = notices[c]
  PROVE  Course(c)'
<1>1. CASE th = "main"
  BY <1>1, Names DEF Course, Before, At, Heard
<1>2. CASE th = "note"
  BY <1>2, Names DEF Course, Before, At, Heard
<1>3. QED
  BY <1>1, <1>2, Names

\* The steps that end something, whether it went well or not.
LEMMA GoOnCourse ==
  ASSUME TypeOK, NEW c \in Clients, Course(c), NEW th \in Threads, NEW ok, NEW daemon,
         GoOn(c, th, ok, daemon),
         \/ ~daemon /\ thread[c][th].at \in {"send", "wait", "install"}
         \/ th = "main" /\ At(c, th, "registering"),
         registration'[c] = registration[c],
         notices'[c] # <<>> => notices[c] # <<>>
  PROVE  Course(c)'
<1>1. notices'[c] # <<>> => c \in Heard'
  BY DEF Course, Heard
<1>2. CASE th = "note"
  <2>1. thread'[c]["note"].at = "idle" /\ thread'[c]["main"] = thread[c]["main"]
        /\ doing'[c] = doing[c] /\ ~At(c, "note", "off")
    BY <1>2, GoOnIs, Names DEF At
  <2>2. QED
    BY <1>1, <2>1 DEF Course, Before, At
<1>3. CASE th = "main"
  <2>1. /\ doing'[c] = Then(c, ok)
        /\ thread'[c]["main"].at = CASE Then(c, ok) = "register" -> "register"
                                     [] Then(c, ok) = "done" -> "off"
                                     [] OTHER -> "take"
        /\ ~daemon => thread'[c]["note"] = thread[c]["note"]
    BY <1>3, GoOnIs, Names
  <2>2. CASE At(c, "main", "registering")
    <3>1. doing[c] = "register" /\ doing'[c] = IF c \in LoadsFirst THEN "done" ELSE "load"
      BY <2>1, <2>2 DEF Course, At, Then
    <3>2. QED
      BY <1>1, <2>1, <3>1 DEF Course, Before, At
  <2>3. CASE ~daemon /\ thread[c]["main"].at \in {"send", "wait", "install"}
    <3>1. doing[c] # "register"
      BY <2>3 DEF Course
    <3>2. Before(c)' \/ doing'[c] = "register" => Before(c)
      BY <2>1, <3>1 DEF Before, At, Then
    <3>3. (thread'[c]["main"].at \in {"register", "registering"}) <=> doing'[c] = "register"
      BY <2>1
    <3>4. QED
      BY <1>1, <2>1, <2>3, <3>2, <3>3 DEF Course, At
  <2>4. QED
    BY <1>3, <2>2, <2>3
<1>4. QED
  BY <1>2, <1>3, Names

LEMMA CourseStep ==
  ASSUME TypeOK, Buffered, [Next]_vars, NEW c \in Clients, Course(c)
  PROVE  Course(c)'
<1> USE DEF server, wires, client
<1>t. /\ registration \in [Clients -> Registrations]
      /\ notices \in [Clients -> Seq(Notes)] /\ thread \in ThreadTables
  BY Types DEF Typing
<1>1. ASSUME NEW th \in Threads, ThreadNext(c, th) PROVE Course(c)'
  <2>1. CASE TakeSequence(c, th) \/ Receive(c, th)
    <3>1. /\ thread[c][th].at \in {"take", "wait"}
          /\ thread'[c][th].at \in {"format", "install"}
          /\ \A other \in Threads \ {th} : thread'[c][other] = thread[c][other]
          /\ UNCHANGED <<doing, registration, notices>>
      BY <1>t, <2>1 DEF TakeSequence, Receive, At, ThreadTables
    <3>2. QED
      BY <3>1, WithinCourse
  <2>2. CASE Format(c, th) \/ Send(c, th)
    <3>1. /\ thread[c][th].at \in {"format", "send"}
          /\ thread'[c][th].at \in {"send", "wait"}
          /\ \A other \in Threads \ {th} : thread'[c][other] = thread[c][other]
          /\ UNCHANGED <<doing, registration, notices>>
      BY <2>2, GoesTo, Names DEF Format, Send, At
    <3>2. QED
      BY <3>1, WithinCourse
  <2>3. CASE \/ SendFails(c, th) \/ Refused(c, th) \/ WrongSequence(c, th) \/ TimeOut(c, th)
    <3>1. /\ GoOn(c, th, FALSE, FALSE) /\ thread[c][th].at \in {"send", "wait"}
          /\ UNCHANGED <<registration, notices>>
      BY <2>3, FailIs
    <3>2. QED
      BY <3>1, GoOnCourse
  <2>4. CASE Install(c, th) \/ InstallNothing(c, th)
    <3>1. /\ GoOn(c, th, TRUE, FALSE) /\ thread[c][th].at = "install"
          /\ UNCHANGED <<registration, notices>>
      BY <2>4 DEF Install, InstallNothing, At
    <3>2. QED
      BY <3>1, GoOnCourse
  <2>5. QED
    BY <1>1, <2>1, <2>2, <2>3, <2>4 DEF ThreadNext
<1>2. CASE Register(c)
  <2>1. /\ thread'[c]["main"].at = "registering" /\ thread'[c]["note"] = thread[c]["note"]
        /\ UNCHANGED <<doing, notices>> /\ At(c, "main", "register")
    BY <1>2, GoesTo, Names DEF Register
  <2>2. doing[c] = "register" /\ notices[c] = <<>> /\ At(c, "note", "off")
    BY <2>1 DEF Course, Before, At, Heard
  <2>3. QED
    BY <2>1, <2>2 DEF Course, Before, At
<1>3. CASE RegisterDone(c) \/ RegisterTimesOut(c)
  <2>1. At(c, "main", "registering") /\ registration'[c] = registration[c]
        /\ (notices'[c] # <<>> => notices[c] # <<>>)
    BY <1>3, <1>t DEF RegisterDone, RegisterTimesOut
  <2>2. \E ok, daemon \in BOOLEAN : GoOn(c, "main", ok, daemon)
    BY <1>3 DEF RegisterDone, RegisterTimesOut
  <2>3. QED
    BY <2>1, <2>2, GoOnCourse, Names
<1>4. CASE HandleNotice(c)
  <2>1. /\ thread'[c]["note"].at # "off" /\ thread'[c]["main"] = thread[c]["main"]
        /\ UNCHANGED <<doing, registration>> /\ At(c, "note", "idle") /\ notices[c] # <<>>
    BY <1>4, GoesTo, Names DEF HandleNotice
  <2>2. QED
    BY <2>1 DEF Course, Before, At, Heard
<1>5. CASE SetNotifyPath(c) \/ AnswerRegistration(c) \/ MissRegistration(c)
  <2>1. registration[c] \in {"asked", "set"}
        /\ registration'[c] \in {"set", "answered", "missed"} /\ UNCHANGED <<doing, thread>>
    BY <1>5, <1>t DEF SetNotifyPath, AnswerRegistration, MissRegistration
  <2>2. QED
    BY <2>1 DEF Course, Before, At, Heard
<1>6. ASSUME NEW d \in Clients, d # c,
             \/ NotifyNext(d) \/ \E th \in Threads : ThreadNext(d, th)
      PROVE  Course(c)'
  BY <1>6, OthersStill, OthersCourse, StillCourse DEF Still, SameCourse
<1>7. ASSUME NEW d \in Clients, d # c, \/ SetNotifyPath(d) \/ AnswerRegistration(d)
                                       \/ MissRegistration(d) \/ LoseNotices(d)
      PROVE  Course(c)'
  <2>1. UNCHANGED thread
    BY <1>7 DEF SetNotifyPath, AnswerRegistration, MissRegistration, LoseNotices
  <2>2. QED
    BY <1>7, <2>1, OthersCourse, StillCourse DEF SameCourse
<1>8. ASSUME NEW d \in Clients,
             LoseRequests(d) \/ \E r \in asked[d] : Read(d, r) \/ Answer(d, r)
      PROVE  Course(c)'
  BY <1>8, StillCourse DEF Read, Answer, LoseRequests
<1>9. ASSUME NEW w \in Workers, NEW failing, SendNotice(w, failing) PROVE Course(c)'
  <2>1. UNCHANGED <<thread, doing, registration>>
        /\ (notices'[c] = notices[c] \/ c \in Listeners)
    BY <1>9 DEF SendNotice
  <2>2. c \in Listeners => c \in Heard
    BY DEF Listeners, Heard
  <2>3. QED
    BY <2>1, <2>2 DEF Course, Before, At, Heard
<1>10. ASSUME NEW w \in Workers, \/ FormatNotice(w) \/ CommitDelete(w)
                                 \/ \E t \in Topics : Modify(w, t) \/ Delete(w, t)
       PROVE  Course(c)'
  BY <1>10, StillCourse DEF FormatNotice, CommitDelete, Modify, Delete
<1>11. CASE Restart \/ LoseNotices(c)
  <2>1. registration'[c] = "none" /\ notices'[c] = <<>> /\ UNCHANGED <<thread, doing>>
    BY <1>11, <1>t DEF Restart, LoseNotices
  <2>2. QED
    BY <2>1 DEF Course, Before, At
<1>12. CASE UNCHANGED vars
  BY <1>12, StillCourse DEF vars
<1>13. QED
  BY <1>1, <1>2, <1>3, <1>4, <1>5, <1>6, <1>7, <1>8, <1>9, <1>10, <1>11, <1>12
     DEF Next, ServerNext, Losses, NotifyNext

\* A step that brings nothing new about a client: what was on the way still is.
LEMMA StillWay ==
  ASSUME TypeOK, NEW c \in Clients, Way(c), Still(c), SameCourse(c),
         version'[Watches[c]] = version[Watches[c]],
         Announced(c) => Announced(c)'
  PROVE  Way(c)'
<1>1. Arrived(c)' = Arrived(c)
  BY DEF Still, Arrived
<1>2. \A th \in Threads : thread'[c][th] = thread[c][th]
  BY DEF Still
<1>3. CASE missed'[c] = {} /\ Runs(c)'
  <2>1. missed[c] = {} /\ Runs(c)
    BY <1>2, <1>3 DEF Runs, At, SameCourse
  <2>2. /\ ~At(c, "note", "off") => c \in hooked
        /\ c \notin LoadsFirst /\ c \notin Listeners => WillLoad(c)
        /\ OnTheWay(c)
    BY <2>1 DEF Way
  <2>3. ~At(c, "note", "off")' => c \in hooked'
    BY <1>2, <2>2, Names DEF At, SameCourse
  <2>4. c \notin LoadsFirst /\ c \notin Listeners' => WillLoad(c)'
    BY <2>2 DEF WillLoad, Listeners, SameCourse
  <2>5. ASSUME NEW th \in Threads, Bringing(c, th) PROVE Bringing(c, th)'
    BY <1>1, <1>2, <2>5 DEF Bringing, AllCurrent, At, Still, SameCourse
  <2>6. OnTheWay(c)'
    BY <2>2, <2>5 DEF OnTheWay, Noticed, WillLoad, Still, SameCourse
  <2>7. QED
    BY <2>3, <2>4, <2>6 DEF Way
<1>4. QED
  BY <1>3 DEF Way

\* The worker of an announcement goes on only to send it.
LEMMA StaysAnnounced ==
  ASSUME TypeOK, NEW c \in Clients, Announced(c), NEW w \in Workers,
         \/ FormatNotice(w) \/ CommitDelete(w) \/ \E t \in Topics : Modify(w, t) \/ Delete(w, t)
         \/ /\ \E failing : SendNotice(w, failing)
            /\ worker[w].deletes \/ worker[w].topic # Watches[c]
  PROVE  Announced(c)'
<1>t. worker \in [Workers -> WorkerStates]
  BY Types DEF Typing
<1>1. PICK v \in Workers : /\ worker[v].at \in {"format", "send"} /\ ~worker[v].deletes
                           /\ worker[v].topic = Watches[c]
  BY DEF Announced
<1>2. CASE v # w
  <2>1. worker'[v] = worker[v]
    BY <1>2, <1>t DEF FormatNotice, CommitDelete, Modify, Delete, Begin, SendNotice
  <2>2. QED
    BY <1>1, <2>1 DEF Announced
<1>3. CASE v = w
  <2>1. FormatNotice(w)
    BY <1>1, <1>3 DEF CommitDelete, Modify, Delete, Begin, SendNotice
  <2>2. /\ worker'[v].at = "send" /\ worker'[v].deletes = worker[v].deletes
        /\ worker'[v].topic = worker[v].topic
    BY <1>3, <1>t, <2>1 DEF FormatNotice, WorkerStates
  <2>3. QED
    BY <1>1, <2>2 DEF Announced
<1>4. QED
  BY <1>2, <1>3

LEMMA WorkersWay ==
  ASSUME TypeOK, Buffered, NEW c \in Clients, Course(c), Way(c), NEW w \in Workers,
         Works(w)
  PROVE  Way(c)'
<1> USE DEF server, wires, client, Works
<1>t. /\ version \in [Topics -> Nat] /\ worker \in [Workers -> WorkerStates]
      /\ notices \in [Clients -> Seq(Notes)] /\ Watches[c] \in Topics
      /\ missed \in [Clients -> SUBSET Mishaps] /\ sendBuff \in Topics \cup {Nothing}
  BY Types, WatchAssumption DEF Typing
<1>s. Still(c) /\ UNCHANGED <<doing, registration, hooked, thread>>
  BY DEF FormatNotice, CommitDelete, SendNotice, Modify, Delete, Still
<1>1. CASE FormatNotice(w) \/ \E t \in Topics : Delete(w, t)
  BY <1>1, <1>s, StillWay, StaysAnnounced DEF FormatNotice, Delete, SameCourse
<1>2. ASSUME NEW t \in Topics, Modify(w, t) PROVE Way(c)'
  <2>1. UNCHANGED <<notices, missed>>
    BY <1>2 DEF Modify
  <2>2. CASE t # Watches[c]
    <3>1. version'[Watches[c]] = version[Watches[c]]
      BY <1>2, <1>t, <2>2 DEF Modify
    <3>2. QED
      BY <1>2, <1>s, <2>1, <3>1, StillWay, StaysAnnounced DEF SameCourse
  <2>3. CASE t = Watches[c]
    <3>1. Announced(c)'
      <4>1. worker'[w] = [at |-> "format", topic |-> t, deletes |-> FALSE]
        BY <1>2, <1>t DEF Modify, Begin
      <4>2. QED
        BY <2>3, <4>1 DEF Announced
    <3>2. QED
      BY <1>s, <2>1, <3>1 DEF Way, OnTheWay, Runs, At, WillLoad, Listeners
  <2>4. QED
    BY <2>2, <2>3
<1>3. CASE CommitDelete(w)
  <2>1. CASE worker[w].topic = Watches[c]
    <3>1. "deleted" \in missed'[c]
      BY <1>3, <1>t, <2>1 DEF CommitDelete, Miss, Of
    <3>2. QED
      BY <3>1 DEF Way
  <2>2. CASE worker[w].topic # Watches[c]
    <3>1. version'[Watches[c]] = version[Watches[c]]
      BY <1>3, <1>t, <2>2 DEF CommitDelete
    <3>2. missed'[c] = missed[c] /\ UNCHANGED notices
      BY <1>3, <1>t, <2>2 DEF CommitDelete, Miss, Of
    <3>3. QED
      BY <1>3, <1>s, <3>1, <3>2, StillWay, StaysAnnounced DEF SameCourse
  <2>3. QED
    BY <2>1, <2>2
<1>4. ASSUME NEW failing, SendNotice(w, failing) PROVE Way(c)'
  <2> DEFINE t == worker[w].topic
             gets == c \in Of(t) /\ c \in Listeners
  <2>1. UNCHANGED version
        /\ notices'[c] = (IF gets /\ c \notin failing THEN Append(notices[c], sendBuff)
                          ELSE notices[c])
    BY <1>4 DEF SendNotice
  <2>m. /\ missed[c] \subseteq missed'[c]
        /\ c \in failing => "unsent" \in missed'[c]
        /\ gets /\ sendBuff # t => "overwritten" \in missed'[c]
        /\ c \in Of(t) /\ c \in LoadsFirst /\ c \notin Listeners => "early" \in missed'[c]
        /\ c \notin Of(t) => missed'[c] = missed[c]
        /\ c \in failing => gets
    BY <1>4 DEF SendNotice
  <2>2. CASE t # Watches[c]
    <3>1. ~gets /\ c \notin Of(t)
      BY <2>2 DEF Of
    <3>2. notices'[c] = notices[c] /\ missed'[c] = missed[c]
      BY <2>1, <2>m, <3>1
    <3>3. QED
      BY <1>4, <1>s, <2>1, <2>2, <3>2, StillWay, StaysAnnounced DEF SameCourse
  <2>3. CASE t = Watches[c] /\ missed'[c] = {} /\ Runs(c)'
    <3>1. missed[c] = {} /\ Runs(c) /\ (gets => sendBuff = t) /\ c \notin failing
          /\ (c \in LoadsFirst => c \in Listeners)
      BY <1>s, <2>m, <2>3 DEF Runs, At, Of
    <3>2. /\ ~At(c, "note", "off") => c \in hooked
          /\ c \notin LoadsFirst /\ c \notin Listeners => WillLoad(c)
      BY <3>1 DEF Way
    <3>3. CASE c \in Listeners
      <4>1. gets
        BY <2>3, <3>3 DEF Of
      <4>2. notices'[c] = Append(notices[c], Watches[c]) /\ notices[c] \in Seq(Notes)
            /\ Watches[c] \in Notes
        BY <1>t, <2>1, <2>3, <3>1, <4>1 DEF Notes
      <4>3. Len(notices[c]) + 1 \in DOMAIN notices'[c]
            /\ notices'[c][Len(notices[c]) + 1] = Watches[c]
        BY <4>2
      <4>4. QED
        BY <1>s, <3>2, <4>3 DEF Way, OnTheWay, Noticed, At, WillLoad, Listeners
    <3>4. CASE c \notin Listeners
      BY <1>s, <3>1, <3>2, <3>4 DEF Way, OnTheWay, At, WillLoad, Listeners
    <3>5. QED
      BY <3>3, <3>4
  <2>4. QED
    BY <2>2, <2>3 DEF Way
<1>5. QED
  BY <1>1, <1>2, <1>3, <1>4

\* An uncrossed client, before a step that leaves it without a mishap.
LEMMA Unmissed ==
  ASSUME TypeOK, [Next]_vars, NEW c \in Clients, Calls(c), Way(c), missed'[c] = {}, Runs(c)
  PROVE  /\ missed[c] = {}
         /\ ~At(c, "note", "off") => c \in hooked
         /\ c \notin LoadsFirst /\ c \notin Listeners => WillLoad(c)
         /\ OnTheWay(c)
         /\ OneCall(c) /\ Numbered(c) /\ Fresh(c) /\ Behind(c)
<1>1. missed[c] = {}
  BY MissedGrows
<1>2. QED
  BY <1>1 DEF Way, Calls

\* is_mgmtd reads the topic, or answers: what it sends is up to date.
LEMMA ServedWay ==
  ASSUME TypeOK, [Next]_vars, NEW c \in Clients, Way(c), NEW r \in asked[c],
         Read(c, r) \/ Answer(c, r)
  PROVE  Way(c)'
<1> USE DEF server, wires, client
<1>1. UNCHANGED <<server, registration, notices, client, missed>>
  BY DEF Read, Answer
<1>2. SUFFICES ASSUME NEW th \in Threads, AllCurrent(c, th) PROVE AllCurrent(c, th)'
  BY <1>1 DEF Way, Runs, At, OnTheWay, Announced, Noticed, WillLoad, Bringing, Listeners
<1>3. CASE Read(c, r)
  <2> DEFINE now == [r EXCEPT !.read = TRUE, !.ver = version[Watches[c]]]
  <2>1. asked'[c] = (asked[c] \ {r}) \cup {now} /\ UNCHANGED inbox
    BY <1>3, Types DEF Read, Typing
  <2>2. now.ver = version[Watches[c]]
    BY OfClient DEF Requests
  <2> HIDE DEF now
  <2>3. Arrived(c)' = Arrived(c)
    BY <2>1 DEF Arrived
  <2>4. QED
    BY <1>1, <1>2, <2>1, <2>2, <2>3 DEF AllCurrent
<1>4. CASE Answer(c, r)
  <2> DEFINE m == [n |-> r.n, ver |-> r.ver]
  <2>1. asked'[c] = asked[c] \ {r} /\ r.read
    BY <1>4, Types DEF Answer, Typing
  <2>2. m \in Answers /\ m.n = r.n /\ m.ver = r.ver
    BY OfClient DEF Requests, Answers
  <2>3. inbox' = [inbox EXCEPT ![c] = Append(@, m)]
    BY <1>4 DEF Answer
  <2> HIDE DEF m
  <2>4. Arrived(c)' = Arrived(c) \cup {m}
    BY <2>2, <2>3, Added
  <2>5. QED
    BY <1>1, <1>2, <2>1, <2>2, <2>4 DEF AllCurrent
<1>5. QED
  BY <1>3, <1>4

LEMMA CallWay ==
  ASSUME TypeOK, TypeOK', [Next]_vars, NEW c \in Clients, Calls(c), Course(c), Way(c),
         NEW th \in Threads,
         \/ TakeSequence(c, th) \/ Format(c, th) \/ Send(c, th) \/ Receive(c, th)
  PROVE  Way(c)'
<1> USE DEF server, wires, client
<1> SUFFICES ASSUME missed'[c] = {} PROVE Way(c)'
  BY DEF Way
<1>1. Runs(c)
  BY DEF Runs, At, TakeSequence, Format, Send, Receive
<1>2. /\ missed[c] = {}
      /\ ~At(c, "note", "off") => c \in hooked
      /\ c \notin LoadsFirst /\ c \notin Listeners => WillLoad(c)
      /\ OnTheWay(c)
      /\ OneCall(c) /\ Numbered(c) /\ Fresh(c) /\ Behind(c)
  BY <1>1, Unmissed
<1>3. UNCHANGED <<server, registration, notices, doing, hooked, have>>
  BY DEF TakeSequence, Format, Send, Receive
<1>4. /\ \A other \in Threads \ {th} : thread'[c][other] = thread[c][other]
      /\ thread[c][th].at \in {"take", "format", "send", "wait"}
      /\ thread'[c][th].at # "off"
  <2>1. CASE TakeSequence(c, th)
    BY <2>1, Types DEF TakeSequence, Typing, ThreadTables, At
  <2>2. CASE Receive(c, th)
    BY <2>2, Types DEF Receive, Typing, ThreadTables, At
  <2>3. CASE Format(c, th) \/ Send(c, th)
    BY <2>3, GoesTo, Names DEF Format, Send, At
  <2>4. QED
    BY <2>1, <2>2, <2>3
<1>5. ~At(c, "note", "off")' => ~At(c, "note", "off")
  BY <1>4, Names DEF At
<1>6. ASSUME Bringing(c, th) PROVE Bringing(c, th)'
  <2>1. th = "note" \/ doing'[c] # "ask"
    BY <1>3, <1>6 DEF Bringing
  <2>2. CASE TakeSequence(c, th)
    <3>1. thread'[c][th].at = "format"
      BY <2>2, Types DEF TakeSequence, Typing, ThreadTables
    <3>2. QED
      BY <2>1, <3>1 DEF Bringing
  <2>3. CASE Format(c, th)
    <3>1. thread'[c][th].at = "send"
      BY <2>3, GoesTo, Names DEF Format
    <3>2. QED
      BY <2>1, <3>1 DEF Bringing
  <2>4. CASE Send(c, th)
    <3> DEFINE q == [n |-> outBuff[c], by |-> th, read |-> FALSE, ver |-> 0]
    <3>1. thread'[c][th].at = "wait" /\ thread'[c][th].n = thread[c][th].n
      BY <2>4, GoesTo, Names DEF Send
    <3>2. asked'[c] = asked[c] \cup {q} /\ UNCHANGED <<inbox, version>> /\ At(c, th, "send")
      BY <2>4, Types DEF Send, Typing
    <3>3. ~q.read
      OBVIOUS
    <3> HIDE DEF q
    <3>4. \A n \in Pending(c) : n # thread[c][th].n
      BY <1>2, <3>2 DEF Numbered, At
    <3>5. (\A r \in asked[c] : r.n # thread[c][th].n)
          /\ \A m \in Arrived(c) : m.n # thread[c][th].n
      BY <3>4, OfClient
    <3>6. Arrived(c)' = Arrived(c)
      BY <3>2 DEF Arrived
    <3>7. AllCurrent(c, th)'
      BY <3>1, <3>2, <3>3, <3>5, <3>6 DEF AllCurrent
    <3>8. QED
      BY <2>1, <3>1, <3>7 DEF Bringing, At
  <2>5. CASE Receive(c, th)
    <3> DEFINE m == Head(inbox[c])
    <3>1. thread'[c][th] = [at |-> "install", n |-> thread[c][th].n, ver |-> m.ver]
      BY <2>5, Types DEF Receive, Typing, ThreadTables
    <3>2. At(c, th, "wait") /\ Seq16(m.n) = Seq16(thread[c][th].n) /\ m \in Arrived(c)
      BY <2>5, TakenFirst DEF Receive
    <3> HIDE DEF m
    <3>3. m.n = thread[c][th].n
      BY <1>2, <3>2, OfClient DEF Numbered, At
    <3>4. m.ver = version[Watches[c]]
      BY <1>6, <3>2, <3>3 DEF Bringing, AllCurrent, At
    <3>5. QED
      BY <1>3, <2>1, <3>1, <3>4 DEF Bringing, At
  <2>6. QED
    BY <2>2, <2>3, <2>4, <2>5
<1>7. ASSUME NEW other \in Threads \ {th}, Bringing(c, other) PROVE Bringing(c, other)'
  <2>1. CASE TakeSequence(c, th) \/ Format(c, th) \/ Receive(c, th)
    <3>1. UNCHANGED asked /\ Arrived(c)' \subseteq Arrived(c)
      BY <2>1, TakenFirst DEF TakeSequence, Format, Receive, Arrived
    <3>2. QED
      BY <1>3, <1>4, <1>7, <3>1 DEF Bringing, AllCurrent, At
  <2>2. CASE Send(c, th)
    <3>1. ~InCall(c, other)
      BY <1>2, <1>7, <2>2 DEF OneCall, InCall, Send, At
    <3>2. At(c, other, "take")
      BY <1>7, <3>1 DEF Bringing, InCall, At
    <3>3. QED
      BY <1>3, <1>4, <1>7, <3>2 DEF Bringing, At
  <2>3. QED
    BY <2>1, <2>2
<1>8. OnTheWay(c)'
  BY <1>2, <1>3, <1>6, <1>7 DEF OnTheWay, Announced, Noticed, WillLoad
<1>9. QED
  BY <1>2, <1>3, <1>5, <1>8 DEF Way, WillLoad, Listeners

LEMMA InstallWay ==
  ASSUME TypeOK, TypeOK', [Next]_vars, NEW c \in Clients, Calls(c), Course(c), Way(c),
         NEW th \in Threads, Install(c, th)
  PROVE  Way(c)'
<1> USE DEF server, wires, client
<1> SUFFICES ASSUME missed'[c] = {} PROVE Way(c)'
  BY DEF Way
<1>1. Runs(c) /\ At(c, th, "install")
  BY DEF Runs, At, Install
<1>2. /\ missed[c] = {}
      /\ ~At(c, "note", "off") => c \in hooked
      /\ c \notin LoadsFirst /\ c \notin Listeners => WillLoad(c)
      /\ OnTheWay(c) /\ Fresh(c) /\ Behind(c)
  BY <1>1, Unmissed
<1>3. /\ UNCHANGED <<server, registration, notices, asked, inbox, hooked>>
      /\ have'[c] = IF th = "main" /\ doing[c] = "ask" THEN have[c] ELSE thread[c][th].ver
      /\ GoOn(c, th, TRUE, FALSE)
  BY Types DEF Install, Typing
<1>4. \A other \in Threads \ {th} : thread'[c][other] = thread[c][other]
  BY <1>3, GoOnIs, ZenonT(40)
<1>5. ~At(c, "note", "off")' => ~At(c, "note", "off")
  BY <1>1, <1>4, Names DEF At
<1>6. th = "main" => doing[c] # "register"
  BY <1>1 DEF Course, At
<1>7. (th = "main" => doing'[c] = Then(c, TRUE)) /\ (th = "note" => doing'[c] = doing[c])
  BY <1>3, GoOnIs, ZenonT(40)
<1>8. WillLoad(c) => WillLoad(c)' \/ (th = "main" /\ doing[c] = "ask" /\ c \in LoadsFirst)
  BY <1>6, <1>7, Names DEF WillLoad, Then
<1>9. c \notin LoadsFirst /\ c \notin Listeners => WillLoad(c)'
  BY <1>2, <1>8
<1>10. OnTheWay(c)'
  <2>1. CASE th = "main" /\ doing[c] = "ask"
    <3>1. CASE c \in LoadsFirst
      <4>1. doing'[c] = "load" /\ thread'[c][th].at = "take"
        BY <1>3, <2>1, <3>1, GoOnIs DEF Then
      <4>2. QED
        BY <4>1 DEF OnTheWay, Bringing
    <3>2. CASE c \notin LoadsFirst
      BY <1>8, <2>1, <3>2 DEF OnTheWay, WillLoad
    <3>3. QED
      BY <3>1, <3>2
  <2>2. CASE ~(th = "main" /\ doing[c] = "ask")
    <3>1. CASE have[c] = version[Watches[c]] \/ Bringing(c, th)
      <4>1. thread[c][th].ver = version[Watches[c]]
        BY <1>1, <1>2, <3>1, OfClient DEF Bringing, Fresh, Behind, At, ThreadStates
      <4>2. QED
        BY <1>3, <2>2, <4>1 DEF OnTheWay
    <3>2. CASE Announced(c) \/ Noticed(c) \/ WillLoad(c)
      BY <1>3, <1>8, <2>2, <3>2 DEF OnTheWay, Announced, Noticed
    <3>3. ASSUME NEW other \in Threads \ {th}, Bringing(c, other) PROVE OnTheWay(c)'
      <4>1. other = "note" \/ doing'[c] # "ask"
        BY <1>7, <3>3, Names DEF Bringing, Then
      <4>2. Arrived(c)' = Arrived(c)
        BY <1>3 DEF Arrived
      <4>3. Bringing(c, other)'
        BY <1>3, <1>4, <3>3, <4>1, <4>2 DEF Bringing, AllCurrent, At
      <4>4. QED
        BY <4>3 DEF OnTheWay
    <3>4. QED
      BY <1>2, <3>1, <3>2, <3>3 DEF OnTheWay
  <2>3. QED
    BY <2>1, <2>2
<1>11. QED
  BY <1>2, <1>3, <1>5, <1>9, <1>10 DEF Way, Listeners

\* What is left of the notices when the first one is taken.
LEMMA NoticesLeft ==
  ASSUME TypeOK, NEW c \in Clients, notices[c] # <<>>,
         notices' = [notices EXCEPT ![c] = Tail(@)]
  PROVE  Noticed(c) => Head(notices[c]) = Watches[c] \/ Noticed(c)'
<1>1. notices[c] \in Seq(Notes) /\ notices'[c] = Tail(notices[c])
  BY Types DEF Typing
<1>2. ASSUME NEW i \in DOMAIN notices[c], i # 1
      PROVE  i - 1 \in DOMAIN Tail(notices[c]) /\ Tail(notices[c])[i - 1] = notices[c][i]
  BY <1>1, <1>2
<1>3. Head(notices[c]) = notices[c][1]
  BY <1>1
<1>4. QED
  BY <1>1, <1>2, <1>3 DEF Noticed

LEMMA NotifyWay ==
  ASSUME TypeOK, TypeOK', [Next]_vars, NEW c \in Clients, Calls(c), Course(c),
         Way(c), Accepted(c), NotifyNext(c)
  PROVE  Way(c)'
<1> USE DEF server, wires, client
<1> SUFFICES ASSUME missed'[c] = {} PROVE Way(c)'
  BY DEF Way
<1>1. Runs(c)
  BY Names DEF Runs, At, NotifyNext, Register, RegisterDone, RegisterTimesOut, HandleNotice
<1>2. /\ missed[c] = {}
      /\ ~At(c, "note", "off") => c \in hooked
      /\ c \notin LoadsFirst /\ c \notin Listeners => WillLoad(c)
      /\ OnTheWay(c)
  BY <1>1, Unmissed
<1>3. UNCHANGED <<server, asked, inbox, have>>
  BY DEF NotifyNext, Register, RegisterDone, RegisterTimesOut, HandleNotice
<1>a. Arrived(c)' = Arrived(c)
  BY <1>3 DEF Arrived
<1>4. CASE Register(c)
  <2>1. /\ At(c, "main", "register") /\ UNCHANGED <<doing, notices, hooked>>
        /\ registration'[c] = "asked"
        /\ thread'[c]["note"] = thread[c]["note"]
    BY <1>4, GoesTo, Names, Types DEF Register, Typing
  <2>2. Before(c) /\ doing[c] = "register"
    BY <2>1 DEF Before, Course, At
  <2>3. c \notin Listeners /\ (c \notin LoadsFirst => WillLoad(c)')
    BY <2>1, <2>2 DEF Course, Listeners, WillLoad
  <2>4. ASSUME NEW th \in Threads, Bringing(c, th) PROVE Bringing(c, th)'
    <3>1. th = "note"
      BY <2>1, <2>4, Names DEF Bringing, At
    <3>2. QED
      BY <1>3, <1>a, <2>1, <2>4, <3>1 DEF Bringing, AllCurrent, At
  <2>5. OnTheWay(c)'
    BY <1>2, <1>3, <2>1, <2>4 DEF OnTheWay, Announced, Noticed, WillLoad
  <2>6. QED
    BY <1>2, <2>1, <2>3, <2>5 DEF Way, At
<1>5. CASE RegisterDone(c)
  <2>1. /\ At(c, "main", "registering") /\ notices[c] # <<>> /\ c \in hooked'
        /\ notices' = [notices EXCEPT ![c] = Tail(@)] /\ UNCHANGED registration
        /\ Head(notices[c]) \in {Registered, Refusal} \/ Miss({c}, "swallowed")
    BY <1>5 DEF RegisterDone
  <2>a. c \in Listeners /\ doing[c] = "register"
    BY <1>2, <2>1 DEF Course, At, Heard, Listeners, Accepted
  <2>b. Head(notices[c]) # Refusal
    <3>1. notices[c] \in Seq(Notes) /\ 1 \in DOMAIN notices[c] /\ Head(notices[c]) = notices[c][1]
      BY <2>1, Types DEF Typing
    <3>2. QED
      BY <1>2, <3>1 DEF Accepted
  <2>2. Head(notices[c]) = Registered
    BY <2>1, <2>b, Types DEF Miss, Typing
  <2>c. GoOn(c, "main", TRUE, TRUE)
    BY <1>5, <2>2 DEF RegisterDone, Registered, Refusal
  <2>3. c \in Listeners /\ doing[c] = "register"
    BY <2>a
  <2>4. At(c, "note", "off")
    BY <2>3 DEF Course
  <2>5. ~Bringing(c, "main") /\ ~Bringing(c, "note")
    BY <2>1, <2>4 DEF Bringing, At
  <2>6. Noticed(c) => Noticed(c)'
    BY <2>1, <2>2, NoticesLeft, WatchAssumption
  <2>7. CASE c \in LoadsFirst
    <3>1. ~WillLoad(c)
      BY <2>3, <2>7 DEF WillLoad
    <3>2. OnTheWay(c)'
      BY <1>2, <1>3, <2>5, <2>6, <3>1, Names DEF OnTheWay, Announced
    <3>3. QED
      BY <2>1, <2>7, <3>2 DEF Way
  <2>8. CASE c \notin LoadsFirst
    <3>1. doing'[c] = "load" /\ thread'[c]["main"].at = "take"
      BY <2>c, <2>3, <2>8, GoOnIs, Names DEF Then
    <3>2. OnTheWay(c)'
      BY <3>1, Names DEF OnTheWay, Bringing
    <3>3. c \in Listeners'
      BY <2>1, <2>3 DEF Listeners
    <3>4. QED
      BY <2>1, <3>2, <3>3 DEF Way
  <2>9. QED
    BY <2>7, <2>8
<1>6. CASE RegisterTimesOut(c)
  <2>1. "failed" \in missed'[c]
    BY <1>6 DEF RegisterTimesOut, Miss
  <2>2. QED
    BY <2>1
<1>7. CASE HandleNotice(c)
  <2>1. /\ At(c, "note", "idle") /\ notices[c] # <<>> /\ c \in hooked
        /\ notices' = [notices EXCEPT ![c] = Tail(@)]
        /\ UNCHANGED <<registration, doing, hooked>>
        /\ thread'[c]["note"].at = IF Head(notices[c]) = Watches[c] THEN "take" ELSE "idle"
        /\ thread'[c]["main"] = thread[c]["main"]
    <3>1. At(c, "note", "idle") /\ c \in hooked
      BY <1>2, <1>7 DEF HandleNotice, At
    <3>2. QED
      BY <1>7, <3>1, GoesTo, Names DEF HandleNotice
  <2>2. CASE Head(notices[c]) = Watches[c]
    BY <1>2, <2>1, <2>2, Names DEF Way, OnTheWay, Bringing, WillLoad, Listeners
  <2>3. CASE Head(notices[c]) # Watches[c]
    <3>1. Noticed(c) => Noticed(c)'
      BY <2>1, <2>3, NoticesLeft
    <3>2. ~Bringing(c, "note")
      BY <2>1 DEF Bringing, At
    <3>3. Bringing(c, "main") => Bringing(c, "main")'
      BY <1>3, <1>a, <2>1 DEF Bringing, AllCurrent, At
    <3>4. OnTheWay(c)'
      BY <1>2, <1>3, <2>1, <3>1, <3>2, <3>3, Names DEF OnTheWay, Announced, WillLoad
    <3>5. QED
      BY <1>2, <2>1, <3>4 DEF Way, WillLoad, Listeners
  <2>4. QED
    BY <2>2, <2>3
<1>8. QED
  BY <1>4, <1>5, <1>6, <1>7 DEF NotifyNext

\* Connections are lost: a client that had registered is deaf from then on, and one
\* that has not is yet to load, or meets the mishap it was in for.
LEMMA LossWay ==
  ASSUME TypeOK, [Next]_vars, NEW c \in Clients, Course(c), Way(c), Accepted(c),
         Restart \/ LoseRequests(c) \/ LoseNotices(c)
  PROVE  Way(c)'
<1> USE DEF server, wires, client
<1> SUFFICES ASSUME missed'[c] = {}, Runs(c)' PROVE Way(c)'
  BY DEF Way
<1>1. UNCHANGED client
  BY DEF Restart, LoseRequests, LoseNotices
<1>2. missed[c] = {} /\ Runs(c)
  BY <1>1, MissedGrows DEF Runs, At
<1>3. /\ ~At(c, "note", "off") => c \in hooked
      /\ c \notin LoadsFirst /\ c \notin Listeners => WillLoad(c)
      /\ OnTheWay(c)
  BY <1>2 DEF Way
<1>4. WillLoad(c) => WillLoad(c)'
  BY <1>1 DEF WillLoad
<1>5. CASE LoseRequests(c)
  <2>1. UNCHANGED <<version, worker, registration, notices>>
    BY <1>5 DEF LoseRequests
  <2>2. asked'[c] = {} /\ inbox'[c] = <<>>
    BY <1>5, Types DEF LoseRequests, Typing
  <2>3. \A th \in Threads : AllCurrent(c, th)'
    BY <2>2 DEF AllCurrent, Arrived
  <2>4. ASSUME NEW th \in Threads, Bringing(c, th) PROVE Bringing(c, th)'
    BY <1>1, <2>1, <2>3, <2>4 DEF Bringing, At
  <2>5. OnTheWay(c)'
    BY <1>1, <1>3, <1>4, <2>1, <2>4 DEF OnTheWay, Announced, Noticed
  <2>6. QED
    BY <1>1, <1>3, <1>4, <2>1, <2>5 DEF Way, At, Listeners
<1>6. CASE LoseNotices(c)
  <2>1. c \notin Listeners
    BY <1>6 DEF LoseNotices, Miss
  <2>2. registration'[c] = "none" /\ registration[c] # "none"
    BY <1>6, Types DEF LoseNotices, Typing
  <2>3. UNCHANGED <<version, worker, asked, inbox>>
    BY <1>6 DEF LoseNotices
  <2>4. c \notin Heard
    BY <1>2, <2>1 DEF Accepted, Heard, Listeners
  <2>5. CASE c \notin LoadsFirst
    <3>1. WillLoad(c)'
      BY <1>3, <1>4, <2>1, <2>5
    <3>2. QED
      BY <1>1, <1>3, <3>1 DEF Way, OnTheWay, At
  <2>6. CASE c \in LoadsFirst
    <3>1. ASSUME NEW th \in Threads, Bringing(c, th) PROVE Bringing(c, th)'
      BY <1>1, <2>3, <3>1 DEF Bringing, AllCurrent, Arrived, At
    <3>2. ~Noticed(c)
      BY <2>4 DEF Course, Noticed
    <3>3. OnTheWay(c)'
      BY <1>1, <1>3, <1>4, <2>3, <3>1, <3>2 DEF OnTheWay, Announced
    <3>4. QED
      BY <1>1, <1>3, <2>6, <3>3 DEF Way, At
  <2>7. QED
    BY <2>5, <2>6
<1>7. CASE Restart
  <2>1. c \notin Listeners /\ c \notin LoadsFirst
    BY <1>7 DEF Restart
  <2>2. WillLoad(c)'
    BY <1>3, <1>4, <2>1
  <2>3. QED
    BY <1>1, <1>3, <2>2 DEF Way, OnTheWay, At
<1>8. QED
  BY <1>5, <1>6, <1>7

\* A client whose registration was missed has met a mishap.
LEMMA AcceptedStep ==
  ASSUME TypeOK, Buffered, [Next]_vars, NEW c \in Clients, Accepted(c)
  PROVE  Accepted(c)'
<1> USE DEF server, wires, client
<1> SUFFICES ASSUME missed'[c] = {} PROVE Accepted(c)'
  BY DEF Accepted
<1>t. notices[c] \in Seq(Notes) /\ registration \in [Clients -> Registrations]
      /\ notices \in [Clients -> Seq(Notes)]
  BY Types DEF Typing
<1>1. /\ registration[c] # "missed"
      /\ \A i \in DOMAIN notices[c] : notices[c][i] # Refusal
  BY MissedGrows DEF Accepted
<1>2. ASSUME registration'[c] = registration[c],
             notices'[c] = notices[c] \/ (notices[c] # <<>> /\ notices'[c] = Tail(notices[c]))
      PROVE  Accepted(c)'
  <2>1. CASE notices[c] # <<>> /\ notices'[c] = Tail(notices[c])
    <3>1. \A i \in DOMAIN Tail(notices[c]) :
            i + 1 \in DOMAIN notices[c] /\ Tail(notices[c])[i] = notices[c][i + 1]
      BY <1>t, <2>1
    <3>2. QED
      BY <1>1, <1>2, <2>1, <3>1 DEF Accepted
  <2>2. QED
    BY <1>1, <1>2, <2>1 DEF Accepted
<1>3. ASSUME registration'[c] # "missed", NEW note \in Notes, note # Refusal,
             notices'[c] = Append(notices[c], note)
      PROVE  Accepted(c)'
  <2>1. \A i \in DOMAIN notices'[c] : notices'[c][i] = note
          \/ (i \in DOMAIN notices[c] /\ notices'[c][i] = notices[c][i])
    BY <1>t, <1>3
  <2>2. QED
    BY <1>1, <1>3, <2>1 DEF Accepted
<1>4. ASSUME NEW w \in Workers, Works(w) PROVE Accepted(c)'
  <2>1. CASE UNCHANGED notices
    BY <1>2, <1>4, <2>1 DEF Works, FormatNotice, CommitDelete, Modify, Delete, SendNotice
  <2>2. ASSUME NEW failing, SendNotice(w, failing) PROVE Accepted(c)'
    <3>1. registration'[c] = registration[c]
          /\ (notices'[c] = notices[c] \/ notices'[c] = Append(notices[c], sendBuff))
      BY <2>2 DEF SendNotice
    <3>2. sendBuff \in Notes /\ sendBuff # Refusal
      BY <2>2, WatchAssumption DEF SendNotice, Buffered, Notes
    <3>3. QED
      BY <1>1, <1>2, <1>3, <3>1, <3>2
  <2>3. QED
    BY <1>4, <2>1, <2>2 DEF Works, FormatNotice, CommitDelete, Modify, Delete
<1>5. ASSUME NEW d \in Clients, NEW th \in Threads, ThreadNext(d, th) PROVE Accepted(c)'
  <2>1. UNCHANGED <<registration, notices>>
    <3>1. CASE TakeSequence(d, th) \/ Format(d, th) \/ Send(d, th) \/ Receive(d, th)
               \/ Install(d, th) \/ InstallNothing(d, th)
      BY <3>1 DEF TakeSequence, Format, Send, Receive, Install, InstallNothing
    <3>2. QED
      BY <1>5, <3>1, FailIs DEF ThreadNext
  <2>2. QED
    BY <1>2, <2>1
<1>6. ASSUME NEW d \in Clients, NotifyNext(d) PROVE Accepted(c)'
  <2>1. CASE Register(d)
    <3>1. UNCHANGED notices /\ registration'[c] # "missed"
      BY <1>1, <1>t, <2>1 DEF Register
    <3>2. QED
      BY <1>1, <3>1 DEF Accepted
  <2>2. CASE RegisterDone(d) \/ RegisterTimesOut(d) \/ HandleNotice(d)
    <3>1. UNCHANGED registration
          /\ \/ notices' = notices
             \/ notices[d] # <<>> /\ notices' = [notices EXCEPT ![d] = Tail(@)]
      BY <2>2 DEF RegisterDone, RegisterTimesOut, HandleNotice
    <3>2. QED
      BY <1>2, <1>t, <3>1
  <2>3. QED
    BY <1>6, <2>1, <2>2 DEF NotifyNext
<1>7. ASSUME NEW d \in Clients, SetNotifyPath(d) \/ AnswerRegistration(d) PROVE Accepted(c)'
  <2>1. registration'[c] # "missed"
    BY <1>1, <1>7, <1>t DEF SetNotifyPath, AnswerRegistration
  <2>2. notices'[c] = notices[c] \/ notices'[c] = Append(notices[c], Registered)
    BY <1>7, <1>t DEF SetNotifyPath, AnswerRegistration
  <2>3. Registered \in Notes /\ Registered # Refusal
    BY DEF Notes, Registered, Refusal
  <2>4. CASE notices'[c] = notices[c]
    BY <1>1, <2>1, <2>4 DEF Accepted
  <2>5. QED
    BY <1>3, <2>1, <2>2, <2>3, <2>4
<1>8. ASSUME NEW d \in Clients, MissRegistration(d) PROVE Accepted(c)'
  <2>1. d # c
    BY <1>8 DEF MissRegistration, Miss
  <2>2. QED
    BY <1>2, <1>8, <1>t, <2>1 DEF MissRegistration
<1>9. CASE Restart \/ \E d \in Clients : LoseRequests(d) \/ LoseNotices(d)
  <2>1. \/ registration'[c] = "none" /\ notices'[c] = <<>>
        \/ registration'[c] = registration[c] /\ notices'[c] = notices[c]
    BY <1>9, <1>t DEF Restart, LoseRequests, LoseNotices
  <2>2. QED
    BY <1>2, <2>1 DEF Accepted
<1>10. ASSUME NEW d \in Clients, NEW r \in asked[d], Read(d, r) \/ Answer(d, r)
       PROVE  Accepted(c)'
  BY <1>2, <1>10 DEF Read, Answer
<1>11. CASE UNCHANGED vars
  BY <1>2, <1>11 DEF vars
<1>12. QED
  BY <1>4, <1>5, <1>6, <1>7, <1>8, <1>9, <1>10, <1>11 DEF Next, ServerNext, Losses, Works

LEMMA WayStep ==
  ASSUME TypeOK, TypeOK', Buffered, [Next]_vars, NEW c \in Clients, Calls(c),
         Course(c), Way(c), Accepted(c)
  PROVE  Way(c)'
<1> USE DEF server, wires, client
<1>1. ASSUME Still(c), SameCourse(c), UNCHANGED <<version, worker, sendBuff>> PROVE Way(c)'
  BY <1>1, StillWay DEF Announced
<1>2. ASSUME NEW d \in Clients, d # c,
             \/ NotifyNext(d) \/ \E th \in Threads : ThreadNext(d, th)
             \/ LoseRequests(d) \/ LoseNotices(d)
             \/ \E r \in asked[d] : Read(d, r) \/ Answer(d, r)
      PROVE  Way(c)'
  BY <1>1, <1>2, OthersStill, OthersCourse
<1>3. ASSUME NEW d \in Clients, d # c,
             SetNotifyPath(d) \/ AnswerRegistration(d) \/ MissRegistration(d)
      PROVE  Way(c)'
  <2>1. Still(c)
    BY <1>3 DEF SetNotifyPath, AnswerRegistration, MissRegistration, Still
  <2>2. QED
    BY <1>1, <1>3, <2>1, OthersCourse
<1>4. ASSUME NEW w \in Workers, Works(w) PROVE Way(c)'
  BY <1>4, WorkersWay
<1>5. ASSUME NEW r \in asked[c], Read(c, r) \/ Answer(c, r) PROVE Way(c)'
  BY <1>5, ServedWay
<1>6. CASE SetNotifyPath(c) \/ AnswerRegistration(c)
  <2>1. UNCHANGED <<server, asked, inbox, client, missed>>
    BY <1>6 DEF SetNotifyPath, AnswerRegistration
  <2>2. Noticed(c) => Noticed(c)'
    <3>1. CASE SetNotifyPath(c)
      BY <3>1 DEF SetNotifyPath, Noticed
    <3>2. CASE AnswerRegistration(c)
      <4>1. notices[c] \in Seq(Notes) /\ notices'[c] = Append(notices[c], Registered)
            /\ Registered \in Notes
        BY <3>2, Types DEF AnswerRegistration, Typing, Notes
      <4>2. \A i \in DOMAIN notices[c] : i \in DOMAIN notices'[c] /\ notices'[c][i] = notices[c][i]
        BY <4>1
      <4>3. QED
        BY <4>2 DEF Noticed
    <3>3. QED
      BY <1>6, <3>1, <3>2
  <2>3. c \in Listeners => c \in Listeners'
    BY <1>6, Types DEF SetNotifyPath, AnswerRegistration, Listeners, Typing
  <2>4. Arrived(c)' = Arrived(c)
    BY <2>1 DEF Arrived
  <2>5. QED
    BY <2>1, <2>2, <2>3, <2>4
       DEF Way, Runs, At, OnTheWay, Announced, WillLoad, Bringing, AllCurrent
<1>7. ASSUME NEW th \in Threads, ThreadNext(c, th) PROVE Way(c)'
  <2>1. CASE \/ SendFails(c, th) \/ Refused(c, th) \/ WrongSequence(c, th) \/ TimeOut(c, th)
             \/ InstallNothing(c, th)
    <3>1. \E what : Miss({c}, what)
      BY <2>1, FailIs DEF InstallNothing
    <3>2. missed'[c] # {}
      BY <3>1 DEF Miss
    <3>3. QED
      BY <3>2 DEF Way
  <2>2. QED
    BY <1>7, <2>1, CallWay, InstallWay DEF ThreadNext
<1>8. CASE NotifyNext(c)
  BY <1>8, NotifyWay
<1>9. CASE MissRegistration(c)
  <2>1. missed'[c] # {}
    BY <1>9 DEF MissRegistration, Miss
  <2>2. QED
    BY <2>1 DEF Way
<1>10. CASE Restart \/ LoseRequests(c) \/ LoseNotices(c)
  BY <1>10, LossWay
<1>11. CASE UNCHANGED vars
  BY <1>1, <1>11 DEF vars, Still, SameCourse
<1>12. QED
  BY <1>2, <1>3, <1>4, <1>5, <1>6, <1>7, <1>8, <1>9, <1>10, <1>11
     DEF Next, ServerNext, Losses, Works

LEMMA InitWay == Init => WayInv
<1> SUFFICES ASSUME Init, NEW c \in Clients PROVE Course(c) /\ Way(c) /\ Accepted(c)
  BY DEF WayInv
<1>1. registration[c] = "none" /\ notices[c] = <<>> /\ missed[c] = {}
  BY DEF Init
<1>2. PICK on \in Running :
        /\ doing = [d \in Clients |-> IF d \in on THEN "ask" ELSE "done"]
        /\ thread = [d \in Clients |-> [th \in Threads |->
             [Idle EXCEPT !.at = IF d \in on /\ th = "main" THEN "take" ELSE "off"]]]
  BY DEF Init
<1>3. /\ doing[c] = IF c \in on THEN "ask" ELSE "done"
      /\ thread[c]["main"].at = IF c \in on THEN "take" ELSE "off"
      /\ thread[c]["note"].at = "off"
  BY <1>2, Names DEF Idle
<1>4. Course(c)
  BY <1>1, <1>3 DEF Course, Before, At
<1>5. Runs(c) => c \in on
  BY <1>3, Names DEF Runs, At
<1>6. Way(c)
  BY <1>3, <1>5 DEF Way, OnTheWay, WillLoad, At
<1>7. Accepted(c)
  BY <1>1 DEF Accepted
<1>8. QED
  BY <1>4, <1>6, <1>7

LEMMA WayIsInductive == Spec => []WayInv
<1>1. TypeOK /\ TypeOK' /\ Buffered /\ CallsInv /\ WayInv /\ [Next]_vars => WayInv'
  BY WayStep, CourseStep, AcceptedStep DEF WayInv, CallsInv
<1>2. QED
  BY <1>1, InitWay, Inductive, PTL DEF Spec

\* A client that nothing is on the way to has the current configuration.
LEMMA WayIsQuiet == WayInv => QuietIsCurrent
<1> SUFFICES ASSUME WayInv, NEW c \in Clients, Quiet(c), missed[c] = {}
             PROVE  have[c] = version[Watches[c]]
  BY DEF QuietIsCurrent
<1>1. Runs(c)
  BY Names DEF Quiet, Runs, At
<1>2. OnTheWay(c)
  BY <1>1 DEF WayInv, Way
<1>3. ~Announced(c) /\ ~Noticed(c) /\ ~WillLoad(c)
  BY DEF Quiet, Announced, Noticed, WillLoad
<1>4. \A th \in Threads : ~Bringing(c, th)
  BY Names DEF Quiet, Bringing, At
<1>5. QED
  BY <1>2, <1>3, <1>4 DEF OnTheWay

\* Between notices a client works with the current configuration, unless one of the
\* named mishaps befell it.
THEOREM QuietClientsAreCurrent == Spec => []QuietIsCurrent
  BY WayIsInductive, WayIsQuiet, PTL

=============================================================================
