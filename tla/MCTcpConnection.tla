--------------------------- MODULE MCTcpConnection ---------------------------
(* TcpConnection for TLC: the ways a program may use a connection. *)
EXTENDS TcpConnection

\* everything is called on the io loop
OnLoop == [loop |-> Ops, foreign |-> {}, stops |-> FALSE, late |-> FALSE]

\* both threads send and the other one shuts down
SendAcrossThreads ==
  [loop |-> {"send"}, foreign |-> {"send", "shutdown"}, stops |-> FALSE, late |-> FALSE]

\* another thread closes what the loop sends, and the server may be destroyed
CloseAcrossThreads ==
  [loop |-> {"send"}, foreign |-> {"shutdown", "forceClose"}, stops |-> TRUE, late |-> FALSE]

\* another thread holds back the peer
ReadAcrossThreads ==
  [loop |-> {"send"}, foreign |-> {"startRead", "stopRead", "shutdown"}, stops |-> FALSE,
   late |-> FALSE]

\* callbacks turn reading on and off in any state, as in the one that tells of the end
ReadAnyTime ==
  [loop |-> {"send", "startRead", "stopRead"}, foreign |-> {"stopRead"}, stops |-> FALSE,
   late |-> TRUE]

AllUsages ==
  {OnLoop, SendAcrossThreads, CloseAcrossThreads, ReadAcrossThreads, ReadAnyTime}

\* another thread closes the connection, the loop only reads
ForceCloseAcrossThreads ==
  {[loop |-> {}, foreign |-> {"forceClose"}, stops |-> FALSE, late |-> FALSE]}
==============================================================================
