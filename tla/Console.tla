------------------------------ MODULE Console ------------------------------
(***************************************************************************)
(* The TCP console of the emulator (src/src/server.cpp) and the two        *)
(* threads that share it: the server thread, which accepts one client at a *)
(* time, filters TELNET bytes and line ends and queues what is left for    *)
(* CP/M, and the Z80 thread, which polls and reads that queue through the  *)
(* BIOS entries CONST/CONIN and writes the client's socket through CONOUT. *)
(***************************************************************************)
EXTENDS Integers, Sequences

CONSTANTS
  Byte,       \* the bytes a client may send
  MaxReceived, \* bound: bytes received over the whole behaviour
  MaxConn     \* bound: connections accepted

ASSUME ConsoleAssumption ==
  Byte \subseteq 0..255 /\ MaxReceived \in Nat /\ MaxConn \in Nat

VARIABLES
  newsockfd,     \* "none" (-1), "open", or "stale": the number of a closed socket
  srv,           \* server thread: blocked in "accept", in "console" or about to "close"
  peer,          \* the attached client: "up" or "gone" (it closed its end)
  telnetState,   \* local of console()
  previousWasCr, \* local of console()
  consoleBuffer, \* the deque of bytes waiting for CP/M
  cpu,           \* Z80 thread, see CpuState
  received,      \* observer: bytes received on each connection so far
  got            \* observer: what ConIn returned to CP/M

vars == <<newsockfd, srv, peer, telnetState, previousWasCr, consoleBuffer,
          cpu, received, got>>

NUL == 0
LF == 10
CR == 13
XON == 17      \* 0x11, ends the CPU thread in ConIn
SE == 240      \* 0xf0
SB == 250      \* 0xfa
IAC == 255     \* 0xff
Negotiation == 251..254 \* WILL, WONT, DO, DONT

TelnetState == {"Data", "Iac", "Option", "Subnegotiation", "SubnegotiationIac"}

(* "off": main() still waits for IsConnected; "conin": in the polling loop   *)
(* of the BIOS; "ready": the status port answered 0ffh, the data port is     *)
(* read next; "out": inside ConOut; "exited": pthread_exit; "dead": the      *)
(* whole process is gone.                                                    *)
CpuState == {"off", "run", "conin", "ready", "out", "exited", "dead"}

Total(conns) == LET sum[i \in 0..Len(conns)] ==
                      IF i = 0 THEN 0 ELSE sum[i - 1] + Len(conns[i])
                IN sum[Len(conns)]

Init ==
  /\ newsockfd = "none"
  /\ srv = "accept"
  /\ peer = "gone"
  /\ telnetState = "Data"
  /\ previousWasCr = FALSE
  /\ consoleBuffer = <<>>
  /\ cpu = "off"
  /\ received = <<>>
  /\ got = <<>>

Alive == cpu # "dead"

----------------------------------------------------------------------------
(* The server thread.                                                        *)

(* accept() returns a client and console() is entered with fresh locals. *)
Accept ==
  /\ Alive /\ srv = "accept"
  /\ Len(received) < MaxConn
  /\ newsockfd' = "open"
  /\ peer' = "up"
  /\ srv' = "console"
  /\ telnetState' = "Data"
  /\ previousWasCr' = FALSE
  /\ received' = Append(received, <<>>)
  /\ UNCHANGED <<consoleBuffer, cpu, got>>

(* accept() or the reverse lookup of the client fails: error() exits.        *)
(* accept() has assigned newsockfd before the lookup.                        *)
AcceptError ==
  /\ Alive /\ srv = "accept"
  /\ newsockfd' \in {"none", "open"}
  /\ cpu' = "dead"
  /\ UNCHANGED <<srv, peer, telnetState, previousWasCr, consoleBuffer, received, got>>

(* The switch of console(): the state after byte c. *)
NextTelnetState(c) ==
  CASE telnetState = "Iac" -> IF c \in Negotiation THEN "Option"
                              ELSE IF c = SB THEN "Subnegotiation" ELSE "Data"
    [] telnetState = "Option" -> "Data"
    [] telnetState = "Subnegotiation" ->
         IF c = IAC THEN "SubnegotiationIac" ELSE "Subnegotiation"
    [] telnetState = "SubnegotiationIac" -> IF c = SE THEN "Data" ELSE "Subnegotiation"
    [] OTHER -> IF c = IAC THEN "Iac" ELSE "Data"

(* The switch breaks, instead of continuing, on plain data and on IAC IAC. *)
IsData(c) == IF c = IAC THEN telnetState = "Iac" ELSE telnetState = "Data"

(* Mutant of Keys: the byte after a CR is queued like any other, the defect  *)
(* the changelog describes.                                                  *)
KeysCrLfTwice(c) == IF c \in {CR, LF} THEN <<CR>> ELSE <<c % 128>>

(* What is queued for CP/M for data byte c, if anything. *)
Keys(c) ==
  IF previousWasCr /\ c \in {LF, NUL} THEN <<>>
  ELSE IF c \in {CR, LF} THEN <<CR>>
  ELSE <<c % 128>>

(* One pass of console()'s loop in which recv() delivers byte c. *)
Recv(c) ==
  /\ Alive /\ srv = "console"
  /\ Total(received) < MaxReceived
  /\ received' = [received EXCEPT ![Len(received)] = Append(@, c)]
  /\ telnetState' = NextTelnetState(c)
  /\ consoleBuffer' = IF IsData(c) THEN consoleBuffer \o Keys(c) ELSE consoleBuffer
  /\ previousWasCr' = IF IsData(c) THEN c = CR ELSE previousWasCr
  /\ UNCHANGED <<newsockfd, srv, peer, cpu, got>>

(* Mutant of RecvEnd: an orderly shutdown is retried like EAGAIN. *)
RecvEndRetried ==
  /\ Alive /\ srv = "console" /\ peer = "gone"
  /\ UNCHANGED vars

(* recv() returns 0 (or a fatal error): console() returns. *)
RecvEnd ==
  /\ Alive /\ srv = "console" /\ peer = "gone"
  /\ srv' = "close"
  /\ UNCHANGED <<newsockfd, peer, telnetState, previousWasCr, consoleBuffer,
                 cpu, received, got>>

(* Mutant of Close: what the old client typed ahead is thrown away. *)
CloseClears ==
  /\ Alive /\ srv = "close"
  /\ newsockfd' = "stale"
  /\ srv' = "accept"
  /\ consoleBuffer' = <<>>
  /\ UNCHANGED <<peer, telnetState, previousWasCr, cpu, received, got>>

(* close(newsockfd): the variable keeps the number of the closed socket. *)
Close ==
  /\ Alive /\ srv = "close"
  /\ newsockfd' = "stale"
  /\ srv' = "accept"
  /\ UNCHANGED <<peer, telnetState, previousWasCr, consoleBuffer, cpu, received, got>>

(* The client closes its end of the connection. *)
PeerClose ==
  /\ Alive /\ srv = "console" /\ peer = "up"
  /\ peer' = "gone"
  /\ UNCHANGED <<newsockfd, srv, telnetState, previousWasCr, consoleBuffer,
                 cpu, received, got>>

----------------------------------------------------------------------------
(* The Z80 thread.                                                           *)

cpuOnly == <<newsockfd, srv, peer, telnetState, previousWasCr, received>>

IsConnected == newsockfd # "none"

(* main() leaves its IsConnected loop and powers the CPU up. *)
PowerUp ==
  /\ cpu = "off" /\ IsConnected
  /\ cpu' = "run"
  /\ UNCHANGED <<cpuOnly, consoleBuffer, got>>

(* A program enters the BIOS routine CONIN. *)
ConinCall ==
  /\ cpu = "run"
  /\ cpu' = "conin"
  /\ UNCHANGED <<cpuOnly, consoleBuffer, got>>

(* CONIN polls the status port (ConChk) until it answers 0ffh. *)
ConChk ==
  /\ cpu = "conin" /\ consoleBuffer # <<>>
  /\ cpu' = "ready"
  /\ UNCHANGED <<cpuOnly, consoleBuffer, got>>

(* CONIN reads the data port (ConIn), 0 when there is no byte; 0x11 ends    *)
(* the thread.                                                               *)
ConIn ==
  /\ cpu = "ready"
  /\ IF consoleBuffer = <<>>
       THEN /\ got' = Append(got, 0)
            /\ cpu' = "run"
            /\ UNCHANGED consoleBuffer
       ELSE /\ got' = Append(got, Head(consoleBuffer))
            /\ consoleBuffer' = Tail(consoleBuffer)
            /\ cpu' = IF Head(consoleBuffer) = XON THEN "exited" ELSE "run"
  /\ UNCHANGED cpuOnly

(* A program writes a character: ConOut enters its loop only when a socket  *)
(* number is there.                                                          *)
ConOutCall ==
  /\ cpu = "run" /\ IsConnected
  /\ cpu' = "out"
  /\ UNCHANGED <<cpuOnly, consoleBuffer, got>>

(* Mutant of ConOutWritten: the loop also goes on after a successful write. *)
ConOutNeverDone ==
  /\ cpu = "out" /\ newsockfd = "open"
  /\ UNCHANGED vars

(* One pass of ConOut's loop that writes the byte and ends it. *)
ConOutWritten ==
  /\ cpu = "out" /\ newsockfd = "open"
  /\ cpu' = "run"
  /\ UNCHANGED <<cpuOnly, consoleBuffer, got>>

(* write() to a socket whose client is gone may raise SIGPIPE, for which    *)
(* the program installs no handler. A pass that fails (EAGAIN, or EBADF on  *)
(* a stale socket) changes nothing: the loop goes on.                        *)
ConOutSigpipe ==
  /\ cpu = "out" /\ newsockfd = "open" /\ peer = "gone"
  /\ cpu' = "dead"
  /\ UNCHANGED <<cpuOnly, consoleBuffer, got>>

----------------------------------------------------------------------------

Server == Accept \/ AcceptError \/ (\E c \in Byte : Recv(c)) \/ RecvEnd \/ Close

Cpu == PowerUp \/ ConinCall \/ ConChk \/ ConIn \/ ConOutCall \/ ConOutWritten
         \/ ConOutSigpipe

Next == Server \/ PeerClose \/ Cpu

Spec == Init /\ [][Next]_vars

(* The Z80 thread is scheduled by the host and both its loops retry without *)
(* waiting for anybody; the server thread returns from recv and close. No   *)
(* fairness is assumed of the client.                                        *)
Fairness == /\ WF_vars(ConOutWritten) /\ WF_vars(ConChk) /\ WF_vars(ConIn)
            /\ WF_vars(RecvEnd) /\ WF_vars(Close)

FairSpec == Spec /\ Fairness

----------------------------------------------------------------------------

(* Every variable keeps its type; the received bytes are the client's bytes *)
(* and what is queued for CP/M is 7-bit.                                     *)
TypeOK ==
  /\ newsockfd \in {"none", "open", "stale"}
  /\ srv \in {"accept", "console", "close"}
  /\ peer \in {"up", "gone"}
  /\ telnetState \in TelnetState
  /\ previousWasCr \in BOOLEAN
  /\ consoleBuffer \in Seq(0..127)
  /\ cpu \in CpuState
  /\ received \in Seq(Seq(Byte))
  /\ got \in Seq(0..127)

(* ConIn never answers an empty queue: between the poll of CONIN that saw a *)
(* byte and the read of the data port no other thread can take it away.     *)
KeyStillThere == cpu = "ready" => consoleBuffer # <<>>

(* The reference for console(): RFC 854 items, not a byte-by-byte machine.  *)
(* EndOfSub(s, i): the index after the subnegotiation whose body starts at i*)
EndOfSub(s, i) ==
  LET end[j \in i..(Len(s) + 2)] ==
        IF j >= Len(s) THEN Len(s) + 1
        ELSE IF s[j] # IAC THEN end[j + 1]
        ELSE IF s[j + 1] = SE THEN j + 2 ELSE end[j + 2]
  IN end[i]

(* The data bytes of a stream, its commands removed and IAC IAC unescaped.  *)
Stripped(s) ==
  LET from[i \in 1..(Len(s) + 3)] ==
        IF i > Len(s) THEN <<>>
        ELSE IF s[i] # IAC THEN <<s[i]>> \o from[i + 1]
        ELSE IF i = Len(s) THEN <<>>
        ELSE IF s[i + 1] = IAC THEN <<IAC>> \o from[i + 2]
        ELSE IF s[i + 1] \in Negotiation THEN from[i + 3]
        ELSE IF s[i + 1] = SB THEN from[EndOfSub(s, i + 2)]
        ELSE from[i + 2]
  IN from[1]

(* A line end is CR, CR LF, CR NUL or a lone LF, and is one CR for CP/M;    *)
(* every other byte loses its high bit.                                      *)
Decode(s) ==
  LET d == Stripped(s)
      key[i \in 0..Len(d)] ==
        IF i = 0 THEN <<>>
        ELSE IF i > 1 /\ d[i - 1] = CR /\ d[i] \in {LF, NUL} THEN key[i - 1]
        ELSE Append(key[i - 1], IF d[i] \in {CR, LF} THEN CR ELSE d[i] % 128)
  IN key[Len(d)]

AllKeys == LET keys[i \in 0..Len(received)] ==
                 IF i = 0 THEN <<>> ELSE keys[i - 1] \o Decode(received[i])
           IN keys[Len(received)]

(* What CP/M has read, followed by what is queued, is exactly what the      *)
(* clients typed, in order, across disconnections: no TELNET command leaks  *)
(* into CP/M, no line end becomes two keys (the cause of the DIR defect),   *)
(* no byte is lost, doubled or reordered between the two threads.           *)
Faithful == got \o consoleBuffer = AllKeys

(* Output resumes: once a client stays attached, ConOut's retry loop, which *)
(* may have been spinning on the closed socket, ends.                        *)
OutputResumes == <>[](newsockfd = "open" /\ cpu \notin {"dead", "exited"})
                   => []<>(cpu # "out")

(* A client that hangs up is noticed: the server thread is back in accept,  *)
(* ready for the next one, unless the process died.                          *)
ServerReturns == (srv = "console" /\ peer = "gone") ~> (srv = "accept" \/ ~Alive)
=============================================================================
