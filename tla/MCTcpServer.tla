---------------------------- MODULE MCTcpServer ----------------------------
(* Values for checking TcpServer: one display writes two messages, the      *)
(* other comes, stays and goes.  Replies, descriptors and threads of the    *)
(* two can mix; two writers are beyond the time a run may take.             *)
EXTENDS TcpServer

OneWriter == LET writer == CHOOSE c \in Connections : TRUE
             IN  [c \in Connections |-> IF c = writer THEN 2 ELSE 0]

=============================================================================
