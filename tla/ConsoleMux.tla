----------------------------- MODULE ConsoleMux -----------------------------
(***************************************************************************)
(* The console manager shows one of two serial lines, that of the host or  *)
(* that of the BMC, on a terminal, and gives what the host prints to one   *)
(* client over a Unix socket.  A single loop polls, reads, and writes.     *)
(*                                                                         *)
(* A client (serial_socket_client) that comes with -f first sees to it     *)
(* that the host is shown, through two words of shared memory, and posts a *)
(* message that asks to kick out the client there is; then it connects.    *)
(*                                                                         *)
(* Of the data only the output of the host is modelled: its bytes are      *)
(* numbered.  Writes to a client that has gone raise SIGPIPE; writes to a  *)
(* client that has stopped reading block, as its socket is full by then.   *)
(* A descriptor that was closed is not given out again while the loop      *)
(* still has its number.                                                   *)
(***************************************************************************)
EXTENDS Integers, Sequences

CONSTANTS MaxClients,    \* bound on the clients of a behaviour
          Forced,        \* those that come with -f
          BufSize,       \* IS_CON_MGR_TTY_BUF_SIZE
          MaxBytes,      \* bound on the output of the host
          MaxSwitches    \* bound on the switches at the terminal

ASSUME ConsoleAssumption ==
  /\ MaxClients \in Nat /\ Forced \subseteq 1..MaxClients /\ BufSize \in Nat \ {0}
  /\ MaxBytes \in Nat /\ MaxSwitches \in Nat

\* Clients are numbered in the order in which they are started.
Clients == 1..MaxClients
NoClient == 0
\* Descriptor 0 is not a client's: the manager was started at a terminal.
Terminal == -1

VARIABLES
  got,        \* how many bytes of the host were read
  inBuf,      \* serial_in_buf of the host's line: for the terminal
  socketBuf,  \* serial_in_socket_buf: for the client
  pc,         \* the step of the loop
  io,         \* what console_manager_check_io reports
  accepted,   \* to_client_socket_fd
  source,     \* serial_source of main: the line the loop works for
  current,    \* current_serial_source
  established, \* is_establish_con of the host's line
  kick,       \* BIT_IS_KICK_CON_FORCE_EXIT_STATUS of is_kick_con
  client,     \* the connection in clients[to_client_pollfd]; NoClient is
              \* descriptor 0, with which it starts, when no connection has it
  zero,       \* who has descriptor 0
  conn,       \* the manager's end of each connection
  at,         \* how far each client is
  shm,        \* shared memory: the source that is shown or asked for
  status,     \* shared memory: shm_op_st of the request to show the host
  messages,   \* kick messages in the queue
  switches,
  next,       \* history: the byte the client should be given next
  mishaps     \* history: what went wrong

buffers == <<got, inBuf, socketBuf>>
loop == <<pc, io, accepted, source, current>>
socket == <<established, kick, client, zero, conn>>
terminals == <<at, shm, status, messages, switches>>
history == <<next, mishaps>>
vars == <<buffers, loop, socket, terminals, history>>

Sources == {"host", "bmc"}
OtherSource(s) == IF s = "host" THEN "bmc" ELSE "host"

\* broken    the client went away while it was being written to
\* crossed   a client went away before the message that turns it away
\* dropped   SIGPIPE emptied serial_in_buf before it was shown
Mishaps == {"broken", "crossed", "dropped"}

TypeOK ==
  /\ got \in 0..MaxBytes
  /\ inBuf \in Seq(1..got) /\ socketBuf \in Seq(1..got)
  /\ Len(inBuf) <= BufSize /\ Len(socketBuf) <= BufSize
  /\ pc \in {"top", "io", "cli", "socket", "output", "tosocket", "accept"}
  /\ io \subseteq {"source", "accept"} /\ accepted \in Clients \cup {NoClient}
  /\ source \in Sources /\ current \in Sources /\ shm \in Sources
  /\ established \in BOOLEAN /\ kick \in BOOLEAN
  /\ client \in Clients \cup {NoClient}
  /\ zero \in Clients \cup {NoClient, Terminal}
  /\ conn \in [Clients -> {"none", "waiting", "open", "closed"}]
  /\ at \in [Clients -> {"idle", "force", "asked", "wait", "clear", "message",
                         "connect", "in", "quiet", "left"}]
  /\ status \in {"null", "processing", "confirm"}
  /\ messages \in Nat /\ switches \in 0..MaxSwitches
  /\ next \in 1..(got + 1) /\ mishaps \subseteq Mishaps

\* main has set the sources.  In the background the manager has /dev/null for
\* its input, which it takes for a client that hangs up, and closes it.
Init ==
  /\ got = 0 /\ inBuf = <<>> /\ socketBuf = <<>>
  /\ pc = "top" /\ io = {} /\ accepted = NoClient
  /\ source = "host" /\ current = "host" /\ shm = "host" /\ status = "null"
  /\ established = FALSE /\ kick = FALSE /\ client = NoClient
  /\ zero \in {NoClient, Terminal}
  /\ conn = [c \in Clients |-> "none"] /\ at = [c \in Clients |-> "idle"]
  /\ messages = 0 /\ switches = 0
  /\ next = 1 /\ mishaps = {}

Waiting == {c \in Clients : conn[c] = "waiting"}
Served(c) == client = c /\ established /\ conn[c] = "open"
Gone(c) == at[c] = "left"
Least(m, n) == IF m < n THEN m ELSE n

-----------------------------------------------------------------------------
(* The loop                                                                *)

\* The switch at the top of the loop.  The tips go to the terminal; that of the host
\* is offered to the client, too, but with the length of what the terminal has not
\* taken, which is 0.
Top ==
  /\ pc = "top" /\ pc' = "io" /\ io' = {}
  /\ IF source = current THEN UNCHANGED <<source, shm, status>>
     ELSE /\ source' = current /\ shm' = current
          /\ status' = IF status = "processing" THEN "confirm" ELSE status
  /\ UNCHANGED <<buffers, accepted, current, socket, at, messages,
                 switches, history>>

\* How much may be read at once: what fits into both buffers.
Room == Least(BufSize - Len(inBuf), BufSize - Len(socketBuf))

\* read returns 0 when the client has gone.
HangsUp == client # NoClient /\ conn[client] = "open" /\ Gone(client)

\* accept gives the lowest free descriptor, and takes 0 for a failure.
Astray(c) == c # NoClient /\ zero = NoClient

\* The next n bytes the host prints.
Chunk(n) == [i \in 1..n |-> got + i]

\* What one round reads, in this order: a new connection c, the client, the host,
\* and the terminal, where ctrl-X switches.  n bytes are read from the host; the
\* BMC may print as well.
CheckIo(c, n, prints, switch) ==
  /\ pc = "io" /\ pc' = "cli"
  /\ accepted' = IF Astray(c) THEN NoClient ELSE c
  /\ zero' = CASE Astray(c) -> c
             [] HangsUp /\ client = zero -> NoClient
             [] OTHER -> zero
  /\ client' = CASE Astray(c) /\ client = NoClient -> c
               [] HangsUp /\ client = zero -> NoClient
               [] OTHER -> client
  /\ conn' = [d \in Clients |-> CASE d = c -> "open"
                                  [] d = client /\ HangsUp -> "closed"
                                  [] OTHER -> conn[d]]
  /\ established' = (established /\ ~HangsUp)
  /\ got' = got + n
  /\ socketBuf' = IF established' THEN socketBuf \o Chunk(n) ELSE socketBuf
  /\ inBuf' = IF current = "host" THEN inBuf \o Chunk(n) ELSE inBuf
  /\ io' = (IF n > 0 \/ prints THEN {"source"} ELSE {})
             \cup (IF accepted' # NoClient THEN {"accept"} ELSE {})
  /\ IF switch THEN /\ switches < MaxSwitches /\ switches' = switches + 1
                    /\ current' = OtherSource(current)
     ELSE UNCHANGED <<switches, current>>
  /\ UNCHANGED <<source, kick, at, shm, status, messages, history>>

\* Mutant: no connection is accepted while a client is served.
ReadWhenFree ==
  \E n \in 0..Least(Room, MaxBytes - got), prints, switch \in BOOLEAN :
    IF Waiting = {} \/ established THEN CheckIo(NoClient, n, prints, switch)
    ELSE \E c \in Waiting : CheckIo(c, n, prints, switch)

Read ==
  \E n \in 0..Least(Room, MaxBytes - got), prints, switch \in BOOLEAN :
    IF Waiting = {} THEN CheckIo(NoClient, n, prints, switch)
    ELSE \E c \in Waiting : CheckIo(c, n, prints, switch)

\* The steps of a round with nothing to do are left out.
ToAccept == IF "accept" \in io THEN "accept" ELSE "top"
ToOutput == IF "source" \in io THEN "output" ELSE ToAccept

\* The host's line looks for messages, the BMC's at the shared memory.
DoCliCommand ==
  /\ pc = "cli" /\ pc' = IF source = "bmc" THEN "socket" ELSE ToOutput
  /\ IF source = "host" /\ messages > 0
     THEN /\ messages' = messages - 1
          /\ kick' = (kick \/ established)
     ELSE UNCHANGED <<messages, kick>>
  /\ current' = IF source = "bmc" /\ shm = "host" THEN OtherSource(current) ELSE current
  /\ UNCHANGED <<buffers, io, accepted, source, established, client, zero, conn,
                 at, shm, status, switches, next, mishaps>>

\* Mutant: the client that has gone still counts as connected.
SigpipeStays(ends, why) ==
  /\ UNCHANGED established
  /\ conn' = [ends EXCEPT ![client] = "closed"]
  /\ inBuf' = <<>>
  /\ mishaps' = mishaps \cup {why} \cup (IF inBuf # <<>> THEN {"dropped"} ELSE {})

\* The handler of SIGPIPE takes the peer in clients[] for the one that has gone.
\* ends: the connections without it; why: what went wrong.
Sigpipe(ends, why) ==
  /\ established' = FALSE
  /\ conn' = [ends EXCEPT ![client] = "closed"]
  /\ inBuf' = <<>>
  /\ mishaps' = mishaps \cup {why} \cup (IF inBuf # <<>> THEN {"dropped"} ELSE {})

\* console_manager_flush_to_socket.  When some of the bytes were taken before
\* the client went, the count goes down and the buffer still starts at its head.
FlushToSocket ==
  LET open == client # NoClient /\ conn[client] = "open" /\ socketBuf # <<>>
  IN \/ /\ ~open
        /\ UNCHANGED <<inBuf, socketBuf, established, conn, next, mishaps>>
     \/ /\ open /\ at[client] = "in"
        /\ next' = got + 1 /\ socketBuf' = <<>>
        /\ UNCHANGED <<inBuf, established, conn, mishaps>>
     \/ /\ open /\ Gone(client)
        /\ \E left \in 1..Len(socketBuf) : socketBuf' = SubSeq(socketBuf, 1, left)
        /\ Sigpipe(conn, "broken")
        /\ UNCHANGED next

\* Mutant: while the BMC is shown, the client is not served.
ServeBehindNot ==
  /\ pc = "socket" /\ pc' = ToOutput
  /\ UNCHANGED <<buffers, io, accepted, source, current, socket, terminals, history>>

\* While the BMC is shown, the client is served at every round.
ServeBehind ==
  /\ pc = "socket" /\ pc' = ToOutput
  /\ FlushToSocket
  /\ UNCHANGED <<got, io, accepted, source, current, kick, client, zero,
                 terminals>>

\* console_manager_flush_to_output: first the terminal, then the client.
FlushToOutput ==
  /\ pc = "output" /\ pc' = "tosocket"
  /\ inBuf' = IF source = "host" THEN <<>> ELSE inBuf
  /\ UNCHANGED <<got, socketBuf, io, accepted, source, current, socket,
                 terminals, history>>

OutputToSocket ==
  /\ pc = "tosocket" /\ pc' = ToAccept
  /\ IF source = "host" /\ established THEN FlushToSocket
     ELSE UNCHANGED <<inBuf, socketBuf, established, conn, next, mishaps>>
  /\ UNCHANGED <<got, io, accepted, source, current, kick, client, zero,
                 terminals>>

\* Mutant: the connection stays open after the message.
FarewellOpen(c) ==
  IF Gone(c) THEN Sigpipe(conn, "crossed")
  ELSE UNCHANGED <<conn, inBuf, established, mishaps>>

\* console_manager_flush_to_client_socket_tips_msg: a message, then close.
Farewell(c) ==
  LET ends == [conn EXCEPT ![c] = "closed"]
  IN IF Gone(c) THEN Sigpipe(ends, "crossed")
     ELSE conn' = ends /\ UNCHANGED <<inBuf, established, mishaps>>

LetIn(c) == client' = c /\ next' = got + 1

FirstClient ==
  /\ ~established /\ established' = TRUE
  /\ LetIn(accepted)
  /\ UNCHANGED <<inBuf, kick, conn, mishaps>>

\* Mutant: whoever comes replaces the client.
ReplaceAlways ==
  /\ established /\ kick' = FALSE
  /\ at[client] # "quiet"
  /\ Farewell(client)
  /\ LetIn(accepted)

Replace ==
  /\ established /\ kick /\ kick' = FALSE
  /\ at[client] # "quiet"
  /\ Farewell(client)
  /\ LetIn(accepted)

TurnAway ==
  /\ established /\ ~kick
  /\ Farewell(accepted)
  /\ UNCHANGED <<kick, client, next>>

DoSocketAccept ==
  /\ pc = "accept" /\ pc' = "top"
  /\ FirstClient \/ Replace \/ TurnAway
  /\ accepted' = NoClient
  /\ UNCHANGED <<got, socketBuf, io, source, current, zero, terminals>>

Manager == Top \/ Read \/ DoCliCommand \/ ServeBehind \/ FlushToOutput
             \/ OutputToSocket \/ DoSocketAccept

-----------------------------------------------------------------------------
(* The clients                                                             *)

Step(c, from, to) == at[c] = from /\ at' = [at EXCEPT ![c] = to]

\* The words of the shared memory a client writes, and the messages it posts.
Leaves(what) ==
  UNCHANGED <<buffers, loop, socket, switches, history>> /\ UNCHANGED what

Started(c) == at[c] = "idle" /\ \A d \in 1..(c - 1) : at[d] # "idle"

Come(c) ==
  /\ c \in Forced /\ Started(c) /\ at' = [at EXCEPT ![c] = "force"]
  /\ Leaves(<<shm, status, messages>>)

\* -f asks for the host's line if the BMC's is shown.
Ask(c) ==
  \/ Step(c, "force", "message") /\ shm = "host"
       /\ Leaves(<<shm, status, messages>>)
  \/ Step(c, "force", "asked") /\ shm = "bmc" /\ shm' = "host"
       /\ Leaves(<<status, messages>>)

Processing(c) ==
  Step(c, "asked", "wait") /\ status' = "processing" /\ Leaves(<<shm, messages>>)

Confirmed(c) ==
  Step(c, "wait", "clear") /\ status = "confirm" /\ Leaves(<<shm, status, messages>>)

Clear(c) ==
  Step(c, "clear", "message") /\ status' = "null" /\ Leaves(<<shm, messages>>)

\* It gives up after 5000 looks, and claims that the BMC's line is shown.
GiveUp(c) ==
  /\ Step(c, "wait", "left")
  /\ status' = "null" /\ shm' = "bmc"
  /\ Leaves(messages)

SendKick(c) ==
  Step(c, "message", "connect") /\ messages' = messages + 1
    /\ Leaves(<<shm, status>>)

Connect(c) ==
  /\ at[c] = "connect" \/ (c \notin Forced /\ Started(c))
  /\ at' = [at EXCEPT ![c] = "in"] /\ conn' = [conn EXCEPT ![c] = "waiting"]
  /\ UNCHANGED <<buffers, loop, established, kick, client, zero, shm, status, messages,
                 switches, history>>

\* The end of a client that was let go concerns nobody.
Leave(c) ==
  /\ conn[c] \in {"waiting", "open"}
  /\ Step(c, "in", "left") \/ Step(c, "quiet", "left")
  /\ Leaves(<<shm, status, messages>>)

\* A client does not read, until it does again or goes.
Stop(c) == c = client /\ conn[c] = "open" /\ Step(c, "in", "quiet")
             /\ Leaves(<<shm, status, messages>>)

Resume(c) == Step(c, "quiet", "in") /\ Leaves(<<shm, status, messages>>)

Client(c) == Come(c) \/ Ask(c) \/ Processing(c) \/ Confirmed(c) \/ Clear(c)
               \/ GiveUp(c) \/ SendKick(c) \/ Connect(c) \/ Leave(c)
               \/ Stop(c) \/ Resume(c)

Next == Manager \/ \E c \in Clients : Client(c)

Spec == Init /\ [][Next]_vars

\* The loop runs on, and a write that waits for the client goes on when it reads
\* again, however soon it stops once more.  Of the client nothing is assumed.
FairSpec ==
  /\ Spec /\ WF_vars(Manager)
  /\ SF_vars(ServeBehind \/ OutputToSocket \/ DoSocketAccept)

-----------------------------------------------------------------------------
\* The client is given all that was read since it was let in, in order and once,
\* and before it only what a client that broke off has left; the terminal loses
\* nothing.
Due == got + 1 - next
EachSeesItsTime ==
  /\ "dropped" \notin mishaps
  /\ established =>
       /\ Due <= Len(socketBuf)
       /\ \A i \in 1..Due : socketBuf[Len(socketBuf) - Due + i] = next - 1 + i
       /\ "broken" \notin mishaps => Len(socketBuf) = Due

\* Between two rounds no connection is open that nobody looks after.
NoneForgotten ==
  pc = "top" /\ "crossed" \notin mishaps =>
    \A c \in Clients : conn[c] = "open" => Served(c) \/ c = zero

\* A served client is let go only when it has gone or the bit to kick it out is
\* set.  The bit may be older than the client.
StaysServed ==
  [][\A c \in Clients : Served(c) /\ ~Served(c)' =>
       Gone(c) \/ kick \/ "crossed" \in mishaps']_vars

\* The client in place does not stop reading for good: the loop has no time-out for
\* a write to its socket, and would wait in it.
ClientReads == []<>~(client # NoClient /\ conn[client] = "open" /\ at[client] = "quiet")

\* The loop can always read the host again (the room of both buffers in
\* console_manager_read_serial_source), unless a client broke off, or stopped
\* reading for good.
HostIsRead == ClientReads => []<>((pc = "io" /\ Room > 0) \/ "broken" \in mishaps)

\* Whoever connects is let in or turned away (console_manager_server_socket_accept,
\* console_manager_do_socket_accept), if the client in place does not stop reading
\* for good.
EveryoneIsAnswered == ClientReads => []<>(Waiting = {})
=============================================================================
