---------------------------- MODULE MCHandshake ----------------------------
(* Clients of each protocol that wait for the replies or send everything at  *)
(* once, and clients that send what no protocol has.  The bytes of addresses *)
(* are such that the shared port, which reads a SOCKS5 greeting one byte too *)
(* early, finds commands and types of addresses in them.                     *)
EXTENDS Handshake

Zeros(n) == [i \in 1 .. n |-> 0]
Data == <<0, 0>>

Greetings == {<<5, n>> \o Zeros(n) : n \in 0 .. 2}
Addresses == {<<1>> \o a : a \in {<<1, 1, 1, 1>>, <<1, 1, 3, 1>>, <<1, 3, 1, 1>>,
                                  <<1, 9, 9, 1>>, <<1, 1, 4, 9>>, <<9, 1, 9, 3>>}}
        \cup {<<3, 0>>, <<3, 2, 1, 1>>, <<9>>, <<4, 1, 1, 1, 3>> \o Zeros(12)}
Port == <<1, 2>>

Patient(g, r) == [stream |-> g \o r \o Data, head |-> 0, valid |-> FALSE,
                  first |-> Len(g), second |-> Len(g) + Len(r)]
Eager(s, n, ok) == [stream |-> s, head |-> n, valid |-> ok,
                    first |-> Len(s), second |-> Len(s)]

Requests == {<<5, cmd, 0>> \o a \o Port : cmd \in {1, 3}, a \in Addresses}
Socks == {Patient(g, r) : g \in Greetings, r \in Requests}
    \cup {Eager(g \o r \o Data, 0, FALSE) : g \in Greetings, r \in Requests}

Heads == {<<67, 79, 78, 1, 1, 1>>, <<71, 69, 84, 1, 1, 1>>}
Http == {Patient(h, << >>) : h \in Heads}
   \cup {Eager(h \o Data, 6, ok) : h \in Heads, ok \in BOOLEAN}
   \cup {[Patient(h, << >>) EXCEPT !.head = 6, !.valid = TRUE] : h \in Heads}

\* No protocol at all, an unfinished head, a head that is long enough to be taken
\* for a SOCKS5 request, and bytes that are one but for the version.
Other == {Eager(<<4, 1, 0, 80, 1, 1, 1, 1, 0>>, 2, FALSE), Eager(<<71, 69>>, 9, TRUE),
          Eager(<<71, 69, 84, 1>>, 9, TRUE), Eager(<<71, 69, 84>> \o Zeros(72), 75, TRUE),
          Eager(<<4, 0, 4, 1, 0, 1, 1, 1, 1, 1, 1, 2, 0>>, 3, FALSE)}

MCClient == Socks \cup Http \cup Other

\* A usual SOCKS5 client.
UsualClient == {Patient(<<5, 1, 0>>, <<5, 1, 0, 1, 1, 1, 1, 1, 1, 2>>)}
=============================================================================
