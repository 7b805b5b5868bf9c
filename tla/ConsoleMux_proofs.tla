------------------------- MODULE ConsoleMux_proofs -------------------------
(***************************************************************************)
(* Proofs of the safety properties of ConsoleMux, for any number of        *)
(* clients, any size of the buffers and any output of the host.            *)
(*                                                                         *)
(* The inductive invariant says where in a round a buffer may hold bytes   *)
(* (Rounds), what the loop knows of its connections (Ends), and which of   *)
(* them may be open (Kept).                                                *)
(***************************************************************************)
EXTENDS ConsoleMux, SequenceTheorems, TLAPS

\* Bytes for the terminal are there only in the round that read them, and so
\* are those for the client if no client has ever broken off.
Rounds ==
  /\ inBuf # <<>> => source = "host" /\ pc \in {"cli", "output"} /\ "source" \in io
  /\ pc = "io" => source = current
  /\ pc = "socket" => source = "bmc"
  /\ "broken" \notin mishaps /\ socketBuf # <<>> =>
       /\ established /\ pc \in {"cli", "socket", "output", "tosocket"}
       /\ source = "host" => "source" \in io
       /\ source = "bmc" => pc \in {"cli", "socket"}

\* The client that is served has an open connection, the one just accepted too,
\* and it is another one.
Ends ==
  /\ \A c \in Clients : at[c] \notin {"in", "quiet", "left"} => conn[c] = "none"
  /\ \A c \in Clients : c = client \/ c = zero => conn[c] \in {"open", "closed"}
  /\ established => client \in Clients /\ conn[client] = "open"
  /\ accepted # NoClient => conn[accepted] = "open" /\ accepted # client
  /\ pc \in {"top", "io"} => accepted = NoClient
  /\ pc \notin {"top", "io"} => ("accept" \in io <=> accepted # NoClient)
  /\ pc = "accept" => accepted # NoClient

\* NoneForgotten, at every step of a round.
Kept ==
  "crossed" \notin mishaps =>
    \A c \in Clients : conn[c] = "open" => Served(c) \/ c = zero \/ c = accepted

IInv == TypeOK /\ Rounds /\ Ends /\ Kept /\ EachSeesItsTime

\* A buffer of numbers up to g.
Fits(s, g) == s \in Seq(1..g) /\ Len(s) <= BufSize

Clientele == <<buffers, loop, established, kick, client, zero, switches, history>>

-----------------------------------------------------------------------------
(* Lemmas                                                                  *)

\* Numbers that were read stay numbers that were read.
LEMMA Longer ==
  ASSUME NEW m \in Nat, NEW n \in Nat, m <= n, NEW s \in Seq(1..m)
  PROVE  s \in Seq(1..n)
<1>1. 1..m \subseteq 1..n
  OBVIOUS
<1>2. QED
  BY <1>1, SeqMonotonic

\* What a buffer holds after n more bytes.
LEMMA Append1 ==
  ASSUME got \in Nat, NEW n \in Nat, NEW s \in Seq(1..got)
  PROVE  /\ s \o Chunk(n) \in Seq(1..(got + n))
         /\ s \in Seq(1..(got + n))
         /\ Len(s \o Chunk(n)) = Len(s) + n
         /\ \A i \in 1..Len(s) : (s \o Chunk(n))[i] = s[i]
         /\ \A i \in 1..n : (s \o Chunk(n))[Len(s) + i] = got + i
<1>1. Chunk(n) \in [1..n -> 1..(got + n)]
  BY DEF Chunk
<1>2. Chunk(n) \in Seq(1..(got + n))
  BY <1>1, SeqDef
<1>3. Len(Chunk(n)) = n
  BY <1>2, LenProperties DEF Chunk
<1>4. s \in Seq(1..(got + n)) /\ Len(s) \in Nat
  BY Longer, LenProperties
<1>5. \A i \in 1..(Len(s) + n) : (s \o Chunk(n))[i] =
                   IF i <= Len(s) THEN s[i] ELSE Chunk(n)[i - Len(s)]
  BY <1>2, <1>3, <1>4, ConcatProperties
<1>6. \A i \in 1..n : Chunk(n)[i] = got + i
  BY DEF Chunk
<1>7. \A i \in 1..n : (s \o Chunk(n))[Len(s) + i] = got + i
  <2> TAKE i \in 1..n
  <2>1. Len(s) + i \in 1..(Len(s) + n) /\ ~(Len(s) + i <= Len(s))
        /\ (Len(s) + i) - Len(s) = i
    BY <1>4
  <2>2. QED
    BY <2>1, <1>5, <1>6
<1>8. QED
  BY <1>2, <1>3, <1>4, <1>5, <1>7, ConcatProperties, SMTT(30)

\* A client's own steps leave the loop alone.
LEMMA ClientSteps ==
  ASSUME TypeOK, NEW c \in Clients, Client(c)
  PROVE  /\ UNCHANGED Clientele
         /\ \A d \in Clients \ {c} : at'[d] = at[d] /\ conn'[d] = conn[d]
         /\ \/ /\ conn'[c] = conn[c]
               /\ at[c] \in {"in", "quiet", "left"} => at'[c] \in {"in", "quiet", "left"}
            \/ /\ at[c] \in {"connect", "idle"}
               /\ at'[c] = "in" /\ conn'[c] = "waiting"
<1> USE DEF Clientele, buffers, loop, socket, history, terminals
<1>1. CASE Come(c)
  BY <1>1 DEF Come, Started, Leaves, TypeOK
<1>2. CASE Ask(c)
  BY <1>2 DEF Ask, Step, Leaves, TypeOK
<1>3. CASE Processing(c)
  BY <1>3 DEF Processing, Step, Leaves, TypeOK
<1>4. CASE Confirmed(c)
  BY <1>4 DEF Confirmed, Step, Leaves, TypeOK
<1>5. CASE Clear(c)
  BY <1>5 DEF Clear, Step, Leaves, TypeOK
<1>6. CASE GiveUp(c)
  BY <1>6 DEF GiveUp, Step, Leaves, TypeOK
<1>7. CASE SendKick(c)
  BY <1>7 DEF SendKick, Step, Leaves, TypeOK
<1>8. CASE Connect(c)
  BY <1>8 DEF Connect, Started, TypeOK
<1>9. CASE Leave(c)
  BY <1>9 DEF Leave, Step, Leaves, TypeOK
<1>10. CASE Stop(c)
  BY <1>10 DEF Stop, Step, Leaves, TypeOK
<1>11. CASE Resume(c)
  BY <1>11 DEF Resume, Step, Leaves, TypeOK
<1>12. QED
  BY <1>1, <1>2, <1>3, <1>4, <1>5, <1>6, <1>7, <1>8, <1>9, <1>10, <1>11 DEF Client

\* What writing to the client does.
LEMMA Flush ==
  ASSUME TypeOK, FlushToSocket
  PROVE  \/ /\ ~(client # NoClient /\ conn[client] = "open" /\ socketBuf # <<>>)
            /\ UNCHANGED <<inBuf, socketBuf, established, conn, next, mishaps>>
         \/ /\ client \in Clients /\ conn[client] = "open"
            /\ next' = got + 1 /\ socketBuf' = <<>>
            /\ UNCHANGED <<inBuf, established, conn, mishaps>>
         \/ /\ client \in Clients /\ conn[client] = "open" /\ Gone(client)
            /\ socketBuf' \in Seq(1..got) /\ Len(socketBuf') <= Len(socketBuf)
            /\ established' = FALSE /\ conn' = [conn EXCEPT ![client] = "closed"]
            /\ inBuf' = <<>> /\ UNCHANGED next
            /\ mishaps' = mishaps \cup {"broken"}
                            \cup (IF inBuf # <<>> THEN {"dropped"} ELSE {})
<1> USE DEF TypeOK
<1>1. CASE client # NoClient /\ conn[client] = "open" /\ socketBuf # <<>>
  <2>1. client \in Clients
    BY <1>1
  <2>2. ASSUME NEW left \in 1..Len(socketBuf), socketBuf' = SubSeq(socketBuf, 1, left)
        PROVE  socketBuf' \in Seq(1..got) /\ Len(socketBuf') <= Len(socketBuf)
    <3>1. left \in Int /\ left <= Len(socketBuf) /\ 1 \in Int /\ 1 <= left
      BY LenProperties
    <3>2. \A i \in 1..left : socketBuf[i] \in 1..got
      BY <3>1, ElementOfSeq, LenProperties
    <3>3. SubSeq(socketBuf, 1, left) \in Seq(1..got)
          /\ Len(SubSeq(socketBuf, 1, left)) = left - 1 + 1
      BY <3>1, <3>2, SubSeqProperties
    <3>4. QED
      BY <2>2, <3>1, <3>3
  <2>3. QED
    BY <1>1, <2>1, <2>2 DEF FlushToSocket, Sigpipe
<1>2. CASE ~(client # NoClient /\ conn[client] = "open" /\ socketBuf # <<>>)
  BY <1>2 DEF FlushToSocket
<1>3. QED
  BY <1>1, <1>2

\* What turning the connection c away does.
LEMMA Turned ==
  ASSUME TypeOK, NEW c \in Clients, Farewell(c)
  PROVE  \/ /\ Gone(c) /\ established' = FALSE /\ inBuf' = <<>>
            /\ conn' = [[conn EXCEPT ![c] = "closed"] EXCEPT ![client] = "closed"]
            /\ mishaps' = mishaps \cup {"crossed"}
                            \cup (IF inBuf # <<>> THEN {"dropped"} ELSE {})
         \/ /\ conn' = [conn EXCEPT ![c] = "closed"]
            /\ UNCHANGED <<inBuf, established, mishaps>>
BY DEF Farewell, Sigpipe

\* Every step keeps the types of the variables.
LEMMA TypeStep == TypeOK /\ Ends /\ [Next]_vars => TypeOK'
<1> SUFFICES ASSUME TypeOK, Ends, [Next]_vars PROVE TypeOK'
  OBVIOUS
<1> USE ConsoleAssumption
<1> USE DEF buffers, loop, socket, history, terminals
<1>0. got \in Nat /\ inBuf \in Seq(1..got) /\ socketBuf \in Seq(1..got)
      /\ Len(inBuf) \in Nat /\ Len(socketBuf) \in Nat /\ BufSize \in Nat
      /\ <<>> \in Seq(1..got) /\ Len(<<>>) = 0
  BY LenProperties, EmptySeq DEF TypeOK
<1>1. CASE Top
  BY <1>1 DEF Top, TypeOK, Sources
<1>2. CASE Read
  <2> PICK n \in 0..Least(Room, MaxBytes - got), prints \in BOOLEAN,
           switch \in BOOLEAN, c \in Clients \cup {NoClient} :
        CheckIo(c, n, prints, switch)
    BY <1>2 DEF Read, Waiting
  <2>1. n \in Nat /\ n <= BufSize - Len(inBuf) /\ n <= BufSize - Len(socketBuf)
        /\ got + n \in 0..MaxBytes
    BY <1>0 DEF Room, Least, TypeOK
  <2>2. got' = got + n
        /\ socketBuf' \in {socketBuf, socketBuf \o Chunk(n)}
        /\ inBuf' \in {inBuf, inBuf \o Chunk(n)}
    BY DEF CheckIo
  <2>3. got' \in 0..MaxBytes /\ inBuf' \in Seq(1..got') /\ socketBuf' \in Seq(1..got')
        /\ Len(inBuf') <= BufSize /\ Len(socketBuf') <= BufSize
    <3>1. /\ inBuf \in Seq(1..(got + n)) /\ inBuf \o Chunk(n) \in Seq(1..(got + n))
          /\ Len(inBuf \o Chunk(n)) <= BufSize
      BY <1>0, <2>1, Append1
    <3>2. /\ socketBuf \in Seq(1..(got + n)) /\ socketBuf \o Chunk(n) \in Seq(1..(got + n))
          /\ Len(socketBuf \o Chunk(n)) <= BufSize
      BY <1>0, <2>1, Append1
    <3>3. QED
      BY <2>1, <2>2, <3>1, <3>2 DEF TypeOK
  <2>4. next' \in 1..(got' + 1)
    BY <1>0, <2>1, <2>2, SMTT(30) DEF CheckIo, TypeOK
  <2>5. io' \subseteq {"source", "accept"} /\ accepted' \in Clients \cup {NoClient}
        /\ zero' \in Clients \cup {NoClient, Terminal}
        /\ client' \in Clients \cup {NoClient} /\ established' \in BOOLEAN
        /\ source' \in Sources /\ current' \in Sources
        /\ switches' \in 0..MaxSwitches
    <3>1. io' \subseteq {"source", "accept"} /\ accepted' \in Clients \cup {NoClient}
          /\ zero' \in Clients \cup {NoClient, Terminal}
      BY DEF CheckIo, TypeOK
    <3>2. client' \in Clients \cup {NoClient} /\ established' \in BOOLEAN
      BY DEF CheckIo, TypeOK
    <3>3. switches' \in 0..MaxSwitches
      <4>1. switches' = switches \/ (switches < MaxSwitches /\ switches' = switches + 1)
        BY DEF CheckIo
      <4>2. QED
        BY <4>1 DEF TypeOK
    <3>4. source' \in Sources /\ current' \in Sources
      BY DEF CheckIo, TypeOK, Sources, OtherSource
    <3>5. QED
      BY <3>1, <3>2, <3>3, <3>4
  <2>6. conn' \in [Clients -> {"none", "waiting", "open", "closed"}]
    BY DEF CheckIo, TypeOK
  <2>7. QED
    BY <2>3, <2>4, <2>5, <2>6 DEF CheckIo, TypeOK
<1>3. CASE DoCliCommand
  <2>1. messages' \in Nat
    BY <1>3 DEF DoCliCommand, TypeOK
  <2>2. QED
    BY <1>3, <2>1 DEF DoCliCommand, TypeOK, Sources, OtherSource, ToOutput, ToAccept
<1>f. Fits(inBuf, got) /\ Fits(socketBuf, got) /\ Fits(<<>>, got)
  BY <1>0 DEF Fits, TypeOK
<1>4. ASSUME FlushToSocket, UNCHANGED got
      PROVE  /\ Fits(inBuf', got) /\ Fits(socketBuf', got)
             /\ established' \in BOOLEAN
             /\ conn' \in [Clients -> {"none", "waiting", "open", "closed"}]
             /\ next' \in 1..(got + 1) /\ mishaps' \subseteq Mishaps
  <2>1. CASE UNCHANGED <<inBuf, socketBuf, established, conn, next, mishaps>>
    BY <1>f, <2>1 DEF TypeOK
  <2>2. CASE /\ next' = got + 1 /\ socketBuf' = <<>>
             /\ UNCHANGED <<inBuf, established, conn, mishaps>>
    <3>1. next' \in 1..(got + 1)
      BY <1>0, <2>2
    <3>2. QED
      BY <1>f, <2>2, <3>1 DEF TypeOK
  <2>3. CASE /\ socketBuf' \in Seq(1..got) /\ Len(socketBuf') <= Len(socketBuf)
             /\ established' = FALSE /\ conn' = [conn EXCEPT ![client] = "closed"]
             /\ inBuf' = <<>> /\ UNCHANGED next
             /\ mishaps' = mishaps \cup {"broken"}
                             \cup (IF inBuf # <<>> THEN {"dropped"} ELSE {})
    <3>1. Len(socketBuf') \in Nat
      BY <2>3, LenProperties
    <3>2. Fits(socketBuf', got)
      BY <1>0, <2>3, <3>1 DEF Fits, TypeOK
    <3>3. conn' \in [Clients -> {"none", "waiting", "open", "closed"}]
      BY <2>3 DEF TypeOK
    <3>4. mishaps' \subseteq Mishaps
      BY <2>3 DEF TypeOK, Mishaps
    <3>5. QED
      BY <1>f, <2>3, <3>2, <3>3, <3>4 DEF TypeOK
  <2>4. QED
    BY <1>4, <2>1, <2>2, <2>3, Flush
<1>5. CASE ServeBehind
  BY <1>4, <1>5 DEF ServeBehind, Fits, TypeOK, ToOutput, ToAccept
<1>6. CASE FlushToOutput
  <2>1. inBuf' \in {inBuf, <<>>}
    BY <1>6 DEF FlushToOutput
  <2>2. Fits(inBuf', got)
    BY <1>f, <2>1
  <2>3. QED
    BY <1>6, <2>2 DEF FlushToOutput, Fits, TypeOK
<1>7. CASE OutputToSocket
  BY <1>4, <1>7 DEF OutputToSocket, Fits, TypeOK, ToAccept
<1>8. CASE DoSocketAccept
  <2>1. accepted \in Clients /\ (established => client \in Clients)
    BY <1>8 DEF DoSocketAccept, Ends, TypeOK
  <2>2. got + 1 \in 1..(got + 1)
    BY <1>0
  <2>3. ASSUME NEW c \in Clients, Farewell(c)
        PROVE  /\ Fits(inBuf', got)
               /\ established' \in BOOLEAN /\ mishaps' \subseteq Mishaps
               /\ conn' \in [Clients -> {"none", "waiting", "open", "closed"}]
    <3>1. inBuf' \in {inBuf, <<>>} /\ established' \in {established, FALSE}
      BY <2>3 DEF Farewell, Sigpipe
    <3>2. mishaps' \subseteq Mishaps
      BY <2>3 DEF Farewell, Sigpipe, TypeOK, Mishaps
    <3>3. conn' \in [Clients -> {"none", "waiting", "open", "closed"}]
      BY <2>3 DEF Farewell, Sigpipe, TypeOK
    <3>4. QED
      BY <1>f, <3>1, <3>2, <3>3 DEF TypeOK
  <2>4. CASE FirstClient
    BY <1>8, <2>1, <2>2, <2>4 DEF DoSocketAccept, FirstClient, LetIn, TypeOK
  <2>5. CASE Replace
    BY <1>8, <2>1, <2>2, <2>3, <2>5 DEF DoSocketAccept, Replace, LetIn, Fits, TypeOK
  <2>6. CASE TurnAway
    BY <1>8, <2>1, <2>3, <2>6 DEF DoSocketAccept, TurnAway, Fits, TypeOK
  <2>7. QED
    BY <1>8, <2>4, <2>5, <2>6 DEF DoSocketAccept
<1>9. ASSUME NEW c \in Clients, Client(c) PROVE TypeOK'
  <2>1. CASE Connect(c)
    BY <2>1 DEF Connect, TypeOK
  <2>2. CASE SendKick(c)
    <3>1. messages' \in Nat
      BY <2>2 DEF SendKick, TypeOK
    <3>2. QED
      BY <2>2, <3>1 DEF SendKick, Step, Leaves, TypeOK
  <2>3. CASE Ask(c)
    BY <2>3, ZenonT(40) DEF Ask, Step, Leaves, TypeOK, Sources
  <2>4. CASE Come(c)
    BY <2>4 DEF Come, Step, Leaves, TypeOK
  <2>5. CASE Processing(c)
    BY <2>5 DEF Processing, Step, Leaves, TypeOK
  <2>6. CASE Confirmed(c)
    BY <2>6 DEF Confirmed, Step, Leaves, TypeOK
  <2>7. CASE Clear(c)
    BY <2>7 DEF Clear, Step, Leaves, TypeOK
  <2>8. CASE GiveUp(c)
    BY <2>8 DEF GiveUp, Step, Leaves, TypeOK, Sources
  <2>9. CASE Leave(c)
    BY <2>9 DEF Leave, Step, Leaves, TypeOK
  <2>10. CASE Stop(c)
    BY <2>10 DEF Stop, Step, Leaves, TypeOK
  <2>11. CASE Resume(c)
    BY <2>11 DEF Resume, Step, Leaves, TypeOK
  <2>12. QED
    BY <1>9, <2>1, <2>2, <2>3, <2>4, <2>5, <2>6, <2>7, <2>8,
       <2>9, <2>10, <2>11 DEF Client
<1>10. CASE UNCHANGED vars
  BY <1>10 DEF vars, TypeOK
<1>11. QED
  BY <1>1, <1>2, <1>3, <1>5, <1>6, <1>7, <1>8, <1>9, <1>10 DEF Next, Manager

-----------------------------------------------------------------------------
\* Where in a round the buffers may hold bytes.
LEMMA RoundsStep == TypeOK /\ Ends /\ Rounds /\ [Next]_vars => Rounds'
<1> SUFFICES ASSUME TypeOK, Ends, Rounds, [Next]_vars PROVE Rounds'
  OBVIOUS
<1> USE DEF buffers, loop, socket, history, terminals
<1>1. CASE Top
  BY <1>1 DEF Top, Rounds, TypeOK, Sources
<1>2. CASE Read
  <2> PICK n \in 0..Least(Room, MaxBytes - got), prints \in BOOLEAN,
           switch \in BOOLEAN, c \in Clients \cup {NoClient} :
        CheckIo(c, n, prints, switch)
    BY <1>2 DEF Read, Waiting
  <2>1. inBuf = <<>> /\ source = current
        /\ ("broken" \notin mishaps => socketBuf = <<>>)
    BY DEF CheckIo, Rounds
  <2>2. n = 0 => inBuf' = inBuf /\ socketBuf' = socketBuf
    <3>1. inBuf \in Seq(1..got) /\ socketBuf \in Seq(1..got)
      BY DEF TypeOK
    <3>2. ASSUME n = 0 PROVE Chunk(n) = <<>>
      BY <3>2 DEF Chunk
    <3>3. QED
      BY <3>1, <3>2, ConcatEmptySeq DEF CheckIo
  <2>3. "source" \in io' <=> n > 0 \/ prints
    BY DEF CheckIo
  <2>4. n # 0 => n > 0
    BY ConsoleAssumption, LenProperties DEF Room, Least, TypeOK
  <2>5. current # "host" => inBuf' = inBuf
    BY DEF CheckIo
  <2>6. socketBuf' # socketBuf => established'
    BY DEF CheckIo
  <2>7. QED
    BY <2>1, <2>2, <2>3, <2>4, <2>5, <2>6 DEF CheckIo, Rounds, TypeOK, Sources
<1>3. CASE DoCliCommand
  BY <1>3 DEF DoCliCommand, Rounds, TypeOK, Sources, ToOutput, ToAccept
<1>4. ASSUME FlushToSocket, Rounds
      PROVE  /\ inBuf' \in {inBuf, <<>>}
             /\ "broken" \notin mishaps' => socketBuf' = <<>> /\ "broken" \notin mishaps
  <2>1. CASE "broken" \in mishaps
    BY <1>4, <2>1, Flush
  <2>2. CASE "broken" \notin mishaps /\ socketBuf = <<>>
    BY <1>4, <2>2, Flush
  <2>3. CASE "broken" \notin mishaps /\ socketBuf # <<>>
    <3>1. client # NoClient /\ conn[client] = "open"
      BY <1>4, <2>3 DEF Rounds, Ends, Clients, NoClient
    <3>2. QED
      BY <1>4, <2>3, <3>1, Flush
  <2>4. QED
    BY <2>1, <2>2, <2>3
<1>5. CASE ServeBehind
  BY <1>4, <1>5 DEF ServeBehind, Rounds, ToOutput, ToAccept
<1>6. CASE FlushToOutput
  BY <1>6 DEF FlushToOutput, Rounds
<1>7. CASE OutputToSocket
  <2>1. CASE source = "host" /\ established
    BY <1>4, <1>7, <2>1 DEF OutputToSocket, Rounds, ToAccept
  <2>2. CASE ~(source = "host" /\ established)
    BY <1>7, <2>2 DEF OutputToSocket, Rounds, ToAccept, TypeOK, Sources
  <2>3. QED
    BY <2>1, <2>2
<1>8. CASE DoSocketAccept
  <2>1. inBuf = <<>> /\ ("broken" \notin mishaps => socketBuf = <<>>)
    BY <1>8 DEF DoSocketAccept, Rounds
  <2>2. inBuf' = <<>> /\ ("broken" \notin mishaps' => "broken" \notin mishaps)
    BY <1>8, <2>1 DEF DoSocketAccept, FirstClient, Replace, TurnAway, Farewell, Sigpipe
  <2>3. QED
    BY <1>8, <2>1, <2>2 DEF DoSocketAccept, Rounds
<1>9. ASSUME NEW c \in Clients, Client(c) PROVE Rounds'
  BY <1>9, ClientSteps DEF Clientele, Rounds
<1>10. CASE UNCHANGED vars
  BY <1>10 DEF vars, Rounds
<1>11. QED
  BY <1>1, <1>2, <1>3, <1>5, <1>6, <1>7, <1>8, <1>9, <1>10 DEF Next, Manager

\* What the loop knows of its connections.
LEMMA EndsStep == TypeOK /\ Ends /\ [Next]_vars => Ends'
<1> SUFFICES ASSUME TypeOK, Ends, [Next]_vars PROVE Ends'
  OBVIOUS
<1> USE DEF buffers, loop, socket, history, terminals
<1>0. NoClient \notin Clients /\ Terminal \notin Clients
  BY DEF NoClient, Terminal, Clients
<1>1. CASE Top
  BY <1>1 DEF Top, Ends
<1>2. CASE Read
  <2> PICK n \in 0..Least(Room, MaxBytes - got), prints \in BOOLEAN,
           switch \in BOOLEAN, c \in Clients \cup {NoClient} :
        CheckIo(c, n, prints, switch) /\ (c # NoClient => conn[c] = "waiting")
    BY <1>2 DEF Read, Waiting
  <2>1. (c # client /\ c # zero) \/ c = NoClient
    BY <1>0 DEF Ends
  <2>2. \A d \in Clients : at'[d] \notin {"in", "quiet", "left"} => conn'[d] = "none"
    BY <1>0 DEF CheckIo, Ends, HangsUp, Gone, TypeOK
  <2>3. \A d \in Clients : d = client' \/ d = zero' => conn'[d] \in {"open", "closed"}
    BY <1>0, <2>1 DEF CheckIo, Ends, HangsUp, Astray, TypeOK
  <2>4. established' => client' \in Clients /\ conn'[client'] = "open"
    BY <1>0, <2>1 DEF CheckIo, Ends, HangsUp, Astray, TypeOK
  <2>5. accepted' # NoClient => conn'[accepted'] = "open" /\ accepted' # client'
    BY <1>0, <2>1 DEF CheckIo, Ends, HangsUp, Astray, TypeOK
  <2>6. pc' = "cli" /\ ("accept" \in io' <=> accepted' # NoClient)
    BY DEF CheckIo
  <2>7. QED
    BY <2>2, <2>3, <2>4, <2>5, <2>6 DEF Ends
<1>3. CASE DoCliCommand
  BY <1>3 DEF DoCliCommand, Ends, ToOutput, ToAccept
<1>4. ASSUME FlushToSocket, UNCHANGED <<at, client, zero, accepted>>
      PROVE  /\ \A c \in Clients : at'[c] \notin {"in", "quiet", "left"} => conn'[c] = "none"
             /\ \A c \in Clients : c = client' \/ c = zero' => conn'[c] \in {"open", "closed"}
             /\ established' => client' \in Clients /\ conn'[client'] = "open"
             /\ accepted' # NoClient => conn'[accepted'] = "open" /\ accepted' # client'
  <2>1. CASE conn' = conn /\ established' = established
    BY <1>4, <2>1 DEF Ends
  <2>2. CASE /\ client \in Clients /\ conn[client] = "open" /\ established' = FALSE
             /\ conn' = [conn EXCEPT ![client] = "closed"]
    BY <1>4, <2>2 DEF Ends, TypeOK
  <2>3. QED
    BY <1>4, <2>1, <2>2, Flush
<1>5. CASE ServeBehind
  BY <1>4, <1>5 DEF ServeBehind, Ends, ToOutput, ToAccept
<1>6. CASE FlushToOutput
  BY <1>6 DEF FlushToOutput, Ends
<1>7. CASE OutputToSocket
  BY <1>4, <1>7 DEF OutputToSocket, Ends, ToAccept
<1>8. CASE DoSocketAccept
  <2>1. accepted \in Clients /\ conn[accepted] = "open" /\ accepted # client
    BY <1>8 DEF DoSocketAccept, Ends, TypeOK
  <2>2. CASE FirstClient
    BY <1>8, <2>1, <2>2 DEF DoSocketAccept, FirstClient, LetIn, Ends
  <2>3. CASE Replace
    <3>1. client \in Clients /\ conn[client] = "open"
      BY <2>3 DEF Replace, Ends
    <3>2. QED
      BY <1>8, <2>1, <2>3, <3>1, Turned, ZenonT(40) DEF DoSocketAccept, Replace, LetIn, Ends, TypeOK
  <2>4. CASE TurnAway
    BY <1>8, <2>1, <2>4, Turned, ZenonT(40) DEF DoSocketAccept, TurnAway, Ends, TypeOK
  <2>5. QED
    BY <1>8, <2>2, <2>3, <2>4 DEF DoSocketAccept
<1>9. ASSUME NEW c \in Clients, Client(c) PROVE Ends'
  <2>1. /\ UNCHANGED <<pc, io, accepted, established, client, zero>>
        /\ \A d \in Clients \ {c} : at'[d] = at[d] /\ conn'[d] = conn[d]
    BY <1>9, ClientSteps DEF Clientele
  <2>2. CASE /\ conn'[c] = conn[c]
             /\ at[c] \in {"in", "quiet", "left"} => at'[c] \in {"in", "quiet", "left"}
    <3>1. \A d \in Clients : conn'[d] = conn[d]
      BY <2>1, <2>2
    <3>2. QED
      BY <1>0, <2>1, <2>2, <3>1 DEF Ends, TypeOK
  <2>3. CASE at[c] \in {"connect", "idle"} /\ at'[c] = "in" /\ conn'[c] = "waiting"
    <3>1. conn[c] = "none"
      BY <2>3 DEF Ends
    <3>2. c # client /\ c # zero /\ c # accepted
      BY <1>0, <3>1 DEF Ends
    <3>3. QED
      BY <1>0, <2>1, <2>3, <3>2 DEF Ends, TypeOK
  <2>4. QED
    BY <1>9, <2>2, <2>3, ClientSteps
<1>10. CASE UNCHANGED vars
  BY <1>10 DEF vars, Ends
<1>11. QED
  BY <1>1, <1>2, <1>3, <1>5, <1>6, <1>7, <1>8, <1>9, <1>10 DEF Next, Manager

\* An open connection is that of the client, of descriptor 0 or of the one that
\* was just accepted.
LEMMA KeptStep == TypeOK /\ Ends /\ Kept /\ [Next]_vars => Kept'
<1> SUFFICES ASSUME TypeOK, Ends, Kept, [Next]_vars PROVE Kept'
  OBVIOUS
<1> USE DEF buffers, loop, socket, history, terminals
<1>0. NoClient \notin Clients /\ Terminal \notin Clients
  BY DEF NoClient, Terminal, Clients
<1>1. CASE Top
  BY <1>1 DEF Top, Kept, Served
<1>2. CASE Read
  <2> PICK n \in 0..Least(Room, MaxBytes - got), prints \in BOOLEAN,
           switch \in BOOLEAN, c \in Clients \cup {NoClient} :
        CheckIo(c, n, prints, switch)
    BY <1>2 DEF Read, Waiting
  <2>1. accepted = NoClient /\ mishaps' = mishaps
    BY DEF CheckIo, Ends
  <2>2. SUFFICES ASSUME "crossed" \notin mishaps, NEW d \in Clients, conn'[d] = "open"
                 PROVE  Served(d)' \/ d = zero' \/ d = accepted'
    BY <2>1 DEF Kept
  <2>3. CASE d = c
    <3>1. CASE Astray(c)
      BY <2>3, <3>1 DEF CheckIo, Astray, HangsUp
    <3>2. CASE ~Astray(c)
      BY <2>3, <3>2 DEF CheckIo
    <3>3. QED
      BY <3>1, <3>2
  <2>4. CASE d # c
    <3>1. conn[d] = "open" /\ ~(d = client /\ HangsUp)
      BY <2>2, <2>4 DEF CheckIo, TypeOK
    <3>2. Served(d) \/ d = zero
      BY <1>0, <2>1, <2>2, <3>1 DEF Kept
    <3>3. CASE Served(d)
      BY <1>0, <2>2, <3>1, <3>3 DEF Served, CheckIo, HangsUp
    <3>4. CASE d = zero
      BY <1>0, <3>1, <3>4 DEF CheckIo, Astray
    <3>5. QED
      BY <3>2, <3>3, <3>4
  <2>5. QED
    BY <2>3, <2>4
<1>3. CASE DoCliCommand
  BY <1>3 DEF DoCliCommand, Kept, Served
<1>4. ASSUME FlushToSocket, UNCHANGED <<client, zero, accepted>> PROVE Kept'
  <2>1. CASE conn' = conn /\ established' = established /\ mishaps' = mishaps
    BY <1>4, <2>1 DEF Kept, Served
  <2>2. CASE /\ client \in Clients /\ mishaps \subseteq mishaps'
             /\ conn' = [conn EXCEPT ![client] = "closed"]
    BY <1>4, <2>2 DEF Kept, Served, TypeOK
  <2>3. QED
    BY <1>4, <2>1, <2>2, Flush
<1>5. CASE ServeBehind
  BY <1>4, <1>5 DEF ServeBehind
<1>6. CASE FlushToOutput
  BY <1>6 DEF FlushToOutput, Kept, Served
<1>7. CASE OutputToSocket
  <2>1. CASE source = "host" /\ established
    BY <1>4, <1>7, <2>1 DEF OutputToSocket
  <2>2. CASE ~(source = "host" /\ established)
    BY <1>7, <2>2 DEF OutputToSocket, Kept, Served
  <2>3. QED
    BY <2>1, <2>2
<1>8. CASE DoSocketAccept
  <2>1. accepted \in Clients /\ conn[accepted] = "open" /\ accepted # client
    BY <1>8 DEF DoSocketAccept, Ends, TypeOK
  <2>2. CASE FirstClient
    BY <1>8, <2>1, <2>2 DEF DoSocketAccept, FirstClient, LetIn, Kept, Served
  <2>3. CASE Replace
    <3>1. client \in Clients /\ conn[client] = "open"
      BY <2>3 DEF Replace, Ends
    <3>2. QED
      BY <1>8, <2>1, <2>3, <3>1, Turned
         DEF DoSocketAccept, Replace, LetIn, Kept, Served, TypeOK
  <2>4. CASE TurnAway
    BY <1>8, <2>1, <2>4, Turned DEF DoSocketAccept, TurnAway, Kept, Served, TypeOK
  <2>5. QED
    BY <1>8, <2>2, <2>3, <2>4 DEF DoSocketAccept
<1>9. ASSUME NEW c \in Clients, Client(c) PROVE Kept'
  BY <1>0, <1>9, ClientSteps DEF Clientele, Kept, Served, TypeOK
<1>10. CASE UNCHANGED vars
  BY <1>10 DEF vars, Kept, Served
<1>11. QED
  BY <1>1, <1>2, <1>3, <1>5, <1>6, <1>7, <1>8, <1>9, <1>10 DEF Next, Manager

\* The end of the client's buffer is what it is due.
LEMMA TimeStep ==
  TypeOK /\ Ends /\ Rounds /\ EachSeesItsTime /\ [Next]_vars => EachSeesItsTime'
<1> SUFFICES ASSUME TypeOK, Ends, Rounds, EachSeesItsTime, [Next]_vars
             PROVE  EachSeesItsTime'
  OBVIOUS
<1> USE DEF buffers, loop, socket, history, terminals, Due
<1>0. got \in Nat /\ next \in 1..(got + 1) /\ socketBuf \in Seq(1..got)
      /\ Len(socketBuf) \in Nat /\ Len(<<>>) = 0
  BY LenProperties DEF TypeOK
<1>1. CASE Top
  BY <1>1 DEF Top, EachSeesItsTime
<1>2. CASE Read
  <2> PICK n \in 0..Least(Room, MaxBytes - got), prints \in BOOLEAN,
           switch \in BOOLEAN, c \in Clients \cup {NoClient} :
        CheckIo(c, n, prints, switch)
    BY <1>2 DEF Read, Waiting
  <2>1. n \in Nat /\ got' = got + n /\ next' = next /\ mishaps' = mishaps
    BY DEF CheckIo
  <2>2. CASE ~established'
    BY <2>1, <2>2 DEF EachSeesItsTime
  <2>3. CASE established'
    <3>1. established /\ socketBuf' = socketBuf \o Chunk(n)
      BY <2>3 DEF CheckIo
    <3>2. Len(socketBuf') = Len(socketBuf) + n
      BY <1>0, <2>1, <3>1, Append1
    <3>3. Due \in Nat /\ Due' = Due + n /\ Due <= Len(socketBuf)
      BY <1>0, <2>1, <3>1 DEF EachSeesItsTime
    <3>4. ASSUME NEW i \in 1..(Due + n)
          PROVE  socketBuf'[Len(socketBuf) - Due + i] = next - 1 + i
      <4>1. CASE i <= Due
        <5>1. i \in 1..Due /\ Len(socketBuf) - Due + i \in 1..Len(socketBuf)
          BY <1>0, <3>3, <4>1
        <5>2. socketBuf[Len(socketBuf) - Due + i] = next - 1 + i
          BY <3>1, <5>1 DEF EachSeesItsTime
        <5>3. QED
          BY <1>0, <2>1, <3>1, <5>1, <5>2, Append1
      <4>2. CASE ~(i <= Due)
        <5>1. i - Due \in 1..n
              /\ Len(socketBuf) + (i - Due) = Len(socketBuf) - Due + i
          BY <1>0, <2>1, <3>3, <4>2
        <5>2. (socketBuf \o Chunk(n))[Len(socketBuf) + (i - Due)] = got + (i - Due)
          BY <1>0, <2>1, <5>1, Append1
        <5>3. got + (i - Due) = next - 1 + i
          BY <1>0
        <5>4. QED
          BY <3>1, <5>1, <5>2, <5>3
      <4>3. QED
        BY <4>1, <4>2
    <3>5. Len(socketBuf') - Due' = Len(socketBuf) - Due
      BY <1>0, <2>1, <3>2, <3>3
    <3>6. \A i \in 1..Due' : socketBuf'[Len(socketBuf') - Due' + i] = next' - 1 + i
      BY <2>1, <3>3, <3>4, <3>5
    <3>7. "broken" \notin mishaps' => Len(socketBuf') = Due'
      BY <2>1, <3>1, <3>2, <3>3 DEF EachSeesItsTime
    <3>8. "dropped" \notin mishaps' /\ Due' <= Len(socketBuf')
      BY <1>0, <2>1, <3>2, <3>3 DEF EachSeesItsTime
    <3>9. QED
      BY <3>6, <3>7, <3>8 DEF EachSeesItsTime
  <2>4. QED
    BY <2>2, <2>3
<1>3. CASE DoCliCommand
  BY <1>3 DEF DoCliCommand, EachSeesItsTime
<1>4. ASSUME FlushToSocket, got' = got, inBuf = <<>> PROVE EachSeesItsTime'
  <2>1. CASE UNCHANGED <<inBuf, socketBuf, established, conn, next, mishaps>>
    BY <1>4, <2>1 DEF EachSeesItsTime
  <2>2. CASE /\ next' = got + 1 /\ socketBuf' = <<>>
             /\ UNCHANGED <<established, mishaps>>
    BY <1>0, <1>4, <2>2 DEF EachSeesItsTime
  <2>3. CASE /\ established' = FALSE
             /\ mishaps' = mishaps \cup {"broken"}
                             \cup (IF inBuf # <<>> THEN {"dropped"} ELSE {})
    BY <1>4, <2>3 DEF EachSeesItsTime
  <2>4. QED
    BY <1>4, <2>1, <2>2, <2>3, Flush
<1>5. CASE ServeBehind
  BY <1>4, <1>5 DEF ServeBehind, Rounds
<1>6. CASE FlushToOutput
  BY <1>6 DEF FlushToOutput, EachSeesItsTime
<1>7. CASE OutputToSocket
  <2>1. CASE source = "host" /\ established
    BY <1>4, <1>7, <2>1 DEF OutputToSocket, Rounds
  <2>2. CASE ~(source = "host" /\ established)
    BY <1>7, <2>2 DEF OutputToSocket, EachSeesItsTime
  <2>3. QED
    BY <2>1, <2>2
<1>8. CASE DoSocketAccept
  <2>1. inBuf = <<>> /\ ("broken" \notin mishaps => socketBuf = <<>>)
        /\ got' = got /\ socketBuf' = socketBuf
    BY <1>8 DEF DoSocketAccept, Rounds
  <2>2. "dropped" \notin mishaps' /\ ("broken" \notin mishaps' => "broken" \notin mishaps)
    BY <1>8, <2>1 DEF DoSocketAccept, FirstClient, Replace, TurnAway, Farewell, Sigpipe,
                      EachSeesItsTime
  <2>3. CASE next' = got + 1
    BY <1>0, <2>1, <2>2, <2>3 DEF EachSeesItsTime
  <2>4. CASE TurnAway
    <3>1. next' = next /\ (established' = FALSE \/ UNCHANGED <<established, mishaps>>)
      <4>1. next' = next /\ Farewell(accepted)
        BY <2>4 DEF TurnAway
      <4>2. accepted \in Clients
        BY <1>8 DEF DoSocketAccept, Ends, TypeOK
      <4>3. QED
        BY <4>1, <4>2, Turned
    <3>2. QED
      BY <2>1, <2>2, <3>1 DEF EachSeesItsTime
  <2>5. QED
    BY <1>8, <2>3, <2>4 DEF DoSocketAccept, FirstClient, Replace, LetIn
<1>9. ASSUME NEW c \in Clients, Client(c) PROVE EachSeesItsTime'
  BY <1>9, ClientSteps DEF Clientele, EachSeesItsTime
<1>10. CASE UNCHANGED vars
  BY <1>10 DEF vars, EachSeesItsTime
<1>11. QED
  BY <1>1, <1>2, <1>3, <1>5, <1>6, <1>7, <1>8, <1>9, <1>10 DEF Next, Manager

\* A client loses its service only as StaysServed says.
LEMMA ServedStep ==
  ASSUME TypeOK, Ends, [Next]_vars, NEW c \in Clients, Served(c), ~Served(c)'
  PROVE  Gone(c) \/ kick \/ "crossed" \in mishaps'
<1> USE DEF buffers, loop, socket, history, terminals
<1>0. NoClient \notin Clients /\ client = c /\ established /\ conn[c] = "open"
  BY DEF NoClient, Clients, Served
<1>1. CASE Top \/ DoCliCommand \/ FlushToOutput
  BY <1>0, <1>1 DEF Top, DoCliCommand, FlushToOutput, Served
<1>2. CASE Read
  <2> PICK n \in 0..Least(Room, MaxBytes - got), prints \in BOOLEAN,
           switch \in BOOLEAN, d \in Clients \cup {NoClient} :
        CheckIo(d, n, prints, switch)
    BY <1>2 DEF Read, Waiting
  <2>1. CASE HangsUp
    BY <1>0, <2>1 DEF HangsUp
  <2>2. CASE ~HangsUp
    BY <1>0, <2>2 DEF CheckIo, Served, TypeOK
  <2>3. QED
    BY <2>1, <2>2
<1>3. ASSUME FlushToSocket, client' = client PROVE Gone(c)
  BY <1>0, <1>3, Flush DEF Served
<1>4. CASE ServeBehind
  BY <1>3, <1>4 DEF ServeBehind
<1>5. CASE OutputToSocket
  BY <1>0, <1>3, <1>5 DEF OutputToSocket, Served
<1>6. CASE DoSocketAccept
  <2>1. accepted \in Clients /\ accepted # client
    BY <1>6 DEF DoSocketAccept, Ends, TypeOK
  <2>2. CASE FirstClient
    BY <1>0, <2>2 DEF FirstClient
  <2>3. CASE Replace
    BY <2>3 DEF Replace
  <2>4. CASE TurnAway
    BY <1>0, <2>1, <2>4, Turned DEF TurnAway, Served, TypeOK
  <2>5. QED
    BY <1>6, <2>2, <2>3, <2>4 DEF DoSocketAccept
<1>7. ASSUME NEW d \in Clients, Client(d) PROVE FALSE
  BY <1>0, <1>7, ClientSteps DEF Clientele, Served, Ends
<1>8. CASE UNCHANGED vars
  BY <1>8 DEF vars, Served
<1>9. QED
  BY <1>1, <1>2, <1>4, <1>5, <1>6, <1>7, <1>8 DEF Next, Manager

-----------------------------------------------------------------------------
(* Theorems                                                                *)

LEMMA InitIInv == Init => IInv
<1> SUFFICES ASSUME Init PROVE IInv
  OBVIOUS
<1>1. <<>> \in Seq(1..0) /\ Len(<<>>) = 0
  BY EmptySeq
<1>2. TypeOK
  <2>1. got = 0 /\ got \in 0..MaxBytes /\ switches \in 0..MaxSwitches
        /\ next \in 1..(got + 1) /\ messages \in Nat
    BY ConsoleAssumption DEF Init
  <2>2. inBuf \in Seq(1..got) /\ socketBuf \in Seq(1..got)
        /\ Len(inBuf) <= BufSize /\ Len(socketBuf) <= BufSize
    BY <1>1, <2>1, ConsoleAssumption DEF Init
  <2>3. conn \in [Clients -> {"none", "waiting", "open", "closed"}]
    BY DEF Init
  <2>4. at \in [Clients -> {"idle", "force", "asked", "wait", "clear", "message",
                            "connect", "in", "quiet", "left"}]
    BY DEF Init
  <2>5. QED
    BY <2>1, <2>2, <2>3, <2>4 DEF Init, TypeOK, Sources
<1>3. Rounds /\ Ends
  BY DEF Init, Rounds, Ends, Clients, NoClient, Terminal
<1>4. Kept /\ EachSeesItsTime
  BY DEF Init, Kept, EachSeesItsTime
<1>5. QED
  BY <1>2, <1>3, <1>4 DEF IInv

\* The invariant holds at every step.
THEOREM Inductive == Spec => []IInv
<1>1. IInv /\ [Next]_vars => IInv'
  BY TypeStep, RoundsStep, EndsStep, KeptStep, TimeStep DEF IInv
<1>2. QED
  BY InitIInv, <1>1, PTL DEF Spec

\* No buffer ever holds more than it has room for, and the variables keep their
\* types.
THEOREM Typed == Spec => []TypeOK
<1>1. IInv => TypeOK
  BY DEF IInv
<1>2. QED
  BY Inductive, <1>1, PTL

\* A client is given what was read while it is served, in order and once, and
\* the terminal loses nothing to SIGPIPE.
THEOREM ItsTimeIsSeen == Spec => []EachSeesItsTime
<1>1. IInv => EachSeesItsTime
  BY DEF IInv
<1>2. QED
  BY Inductive, <1>1, PTL

\* Between two rounds no connection is left open and unserved, unless a client
\* went before the message that turned it away.
THEOREM NobodyIsForgotten == Spec => []NoneForgotten
<1>1. IInv => NoneForgotten
  BY DEF IInv, Kept, Ends, NoneForgotten, Clients, NoClient
<1>2. QED
  BY Inductive, <1>1, PTL

\* A served client is let go only if it has gone, the bit to kick it out is set,
\* or a client that was turned away raised SIGPIPE.
THEOREM ServiceLasts == Spec => StaysServed
<1>1. IInv /\ [Next]_vars =>
        [\A c \in Clients : Served(c) /\ ~Served(c)' =>
           Gone(c) \/ kick \/ "crossed" \in mishaps']_vars
  BY ServedStep DEF IInv
<1>2. QED
  BY Inductive, <1>1, PTL DEF Spec, StaysServed

=============================================================================
