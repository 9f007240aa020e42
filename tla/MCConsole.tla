----------------------------- MODULE MCConsole -----------------------------
(* Console with the bytes that the filter tells apart: line ends, NUL, the *)
(* TELNET commands, a letter with its high bit set, XON.                   *)
EXTENDS Console

AllBytes == {NUL, LF, CR, SE, SB, 251, IAC, 193, 128 + XON}
FewBytes == {CR, LF, 128 + XON}

(* The filter is a matter of the server thread and one connection alone, the *)
(* interleaving of the threads one of few bytes over several connections:    *)
(* long streams of all bytes are sent while the CPU is still off.            *)
Long ==
  /\ Len(received) = 1 /\ cpu = "off"
  /\ \A i \in 1..Len(received[1]) : received[1][i] # 128 + XON

Few ==
  /\ Total(received) <= 4
  /\ \A k \in 1..Len(received) : \A i \in 1..Len(received[k]) : received[k][i] \in FewBytes

MCNext == Next /\ (Long' \/ Few')
MCSpec == Init /\ [][MCNext]_vars /\ Fairness
=============================================================================
