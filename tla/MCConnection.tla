---------------------------- MODULE MCConnection ----------------------------
(* Connection for TLC. *)
EXTENDS Connection

\* Bound of the safety run: the last run of connect() is followed until its
\* connection is told to stop or returns; every step after that is explored in
\* the run before it.
LastRunOpen ==
    LET c == conns[MaxAttempts] IN
    ~c.exited /\ c.pc \notin {"report", "after", "delay", "defer", "done"}
=============================================================================
