------------------------------ MODULE MCClient ------------------------------
EXTENDS Client, TLC

CONSTANTS s1, s2

ClientID(i)   == [set |-> "clientID", id |-> i]
Keepalive(n)  == [set |-> "keepalive", seconds |-> n]
ConnPacket(n) == [set |-> "connPacket", at |-> n]
Version(v, c) == [set |-> "version", version |-> v, compromise |-> c]
Backoff(f, m, x) == [set |-> "backoff", first |-> f, max |-> m, factor |-> x]
Reconnecting(b) == [set |-> "autoReconnect", on |-> b]

MCServers == {s1, s2}

MCNames == {"", "nil", "a", "b", "c", "p", "q", "r", "g", "h"}

MCGiven ==
    << [ClientID |-> "p", Keepalive |-> 0, Props |-> FALSE],
       [ClientID |-> "q", Keepalive |-> 7, Props |-> FALSE],
       [ClientID |-> "r", Keepalive |-> 0, Props |-> TRUE] >>

Setup(n, a, b) == [new |-> n, server |-> (s1 :> a @@ s2 :> b)]

MCSetups ==
    { \* identifiers and packets, one server of them with a packet of its own
      Setup(<<Keepalive(9), ClientID("c")>>,
            <<ConnPacket(1), ClientID("a")>>, <<ClientID("b"), Backoff(1000, 3000, 4)>>),
      \* a packet for the whole client, and the delays that are not allowed
      Setup(<<ConnPacket(2), Backoff(0, 0, 0), Version(V5, TRUE)>>,
            <<Reconnecting(TRUE), ClientID("a")>>, <<ConnPacket(1)>>),
      \* identifiers for the one packet that both calls share
      Setup(<<Keepalive(9)>>, <<ClientID("a")>>, <<ClientID("b")>>),
      \* a packet for each server, and one Option in both calls
      Setup(<<Keepalive(9), Reconnecting(TRUE)>>,
            <<ConnPacket(1), Keepalive(5)>>, <<ConnPacket(2), ClientID("b")>>),
      Setup(<<ClientID("c")>>, <<ConnPacket(1), ClientID("a")>>, <<ConnPacket(1), ClientID("b")>>),
      \* a factor with a fraction; options that fail, in either call
      Setup(<<Backoff(3, 10, OneAndHalf), Reconnecting(TRUE)>>,
            <<Version(V5, FALSE), [set |-> "bufSize"]>>, <<ClientID("b"), Keepalive(0)>>),
      Setup(<<Version(3, FALSE)>>, <<>>, <<>>),
      \* a packet with properties
      Setup(<<>>, <<ClientID("a")>>, <<ConnPacket(3)>>),
      \* the servers of WithServer
      Setup(<<[set |-> "server", server |-> s1], Reconnecting(TRUE), Version(V5, TRUE),
              [set |-> "pubHandler", handler |-> "h"]>>,
            <<>>, <<[set |-> "pubHandler", handler |-> "g"], Version(6, TRUE)>>) }
=============================================================================
