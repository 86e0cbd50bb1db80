---------------------------- MODULE MCSparkplug ----------------------------
(* A small instance of Sparkplug: two brokers, a client, a node, a device. *)
EXTENDS Sparkplug

CONSTANTS client, here, there

MCBrokers == {here, there}

MCEndpoint == {client, here, there}

\* Metrics: a named one with alias 1, or the alias alone.
Named(name) == [name |-> name, alias |-> 1]
Bare == [name |-> None, alias |-> 1]

Message(src, dst, node, kind, bdSeq, metrics) ==
    [src |-> src, dst |-> dst, node |-> node, kind |-> kind,
     bdSeq |-> bdSeq, metrics |-> metrics]

\* Messages of one broker, with copies the broker forwards to a subscriber, and a
\* few of the other.
MCPackets ==
    {Message(client, here, "node", "NBIRTH", seq, <<Named("x")>>) : seq \in {None, 1, 2}}
    \cup {Message(here, client, "node", "NBIRTH", 1, <<Named("y")>>),
          Message(client, there, "node", "NBIRTH", 1, <<Named("y")>>),
          Message(client, here, "node", "NDATA", None, <<Bare>>),
          Message(here, client, "node", "NDATA", None, <<Bare, Named("z")>>),
          Message(client, there, "node", "NDATA", None, <<Bare>>),
          Message(client, here, "device", "DDATA", None, <<Bare>>),
          Message(client, here, "node", "NDEATH", None, <<Named("y")>>),
          Message(client, there, "node", "STATE", None, <<>>),
          Message(client, here, "node", "CONNECT", None, <<>>),
          Message(client, here, "node", "evict_expired", None, <<>>)}
=============================================================================
