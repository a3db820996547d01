----------------------------- MODULE Handshake -----------------------------
(***************************************************************************)
(* How one accepted connection is read up to the point where it is relayed *)
(* (internal/proxy/proxy.go), on either server:                            *)
(*                                                                         *)
(*  "socks"  SOCKS5Server.handleSOCKS5 reads the connection itself, field  *)
(*           by field, under a deadline of 30 seconds;                     *)
(*  "proxy"  Server.handleConnection reads three bytes under a deadline    *)
(*           of 60 seconds, clears the deadline and hands a reader that    *)
(*           starts with those bytes to handleSOCKS5FromReader,            *)
(*           handleCONNECT or handleHTTP, which buffer what they read.     *)
(*                                                                         *)
(* A client sends any bytes; what a handler takes them for is its own      *)
(* affair.  They arrive one at a time; `sent' says how many have.  Bytes   *)
(* that are parsed count for `pos', bytes taken off the socket for         *)
(* `fetched'; the relay that follows starts at `fetched'.  Of net/http's   *)
(* reading of a request only the outcome is kept.                          *)
(***************************************************************************)
EXTENDS Integers, Sequences

CONSTANTS
  Client,  \* the connections that may arrive: records of
           \*   stream   the bytes, where the client has them sent all,
           \*   head     how many of them http.ReadRequest reads,
           \*   valid    and whether they are a request,
           \*   first    how many it sends before it has had any reply,
           \*   second   and before it has had the reply to its request
  None     \* no address

Byte == 0 .. 255

ASSUME ClientAssumption ==
  Client \subseteq [stream : Seq(Byte), head : Nat, valid : BOOLEAN,
                   first : Nat, second : Nat]

VARIABLES
  server,  \* the server the client connects to
  client,  \* the client
  sent,    \* bytes of the client's stream that have arrived
  gone,    \* the client has closed its connection
  pc,      \* where the handler stands
  pos,     \* bytes parsed
  fetched, \* bytes taken off the socket
  need,    \* bytes the handler waits for
  methods, \* the number of methods the handler read, or None
  target,  \* where in the stream the address and port lie that are dialled
  reply    \* the last reply written to the client

vars == <<server, client, sent, gone, pc, pos, fetched, need, methods, target,
          reply>>

-----------------------------------------------------------------------------
(* The client                                                              *)

Begins(word) ==
  /\ Len(word) <= Len(client.stream)
  /\ \A i \in DOMAIN word : client.stream[i] = word[i]

\* How much a client sends before the next reply.
Allowed == CASE reply = "none" -> client.first
             [] reply = "method" -> client.second
             [] OTHER -> Len(client.stream)

-----------------------------------------------------------------------------

Reading == {"peek", "greeting", "count", "methods", "request", "addr", "domain",
            "port", "head", "http"}
Ended == {"relay", "closed"}

\* The type invariant.
TypeOK ==
  /\ server \in {"socks", "proxy"}
  /\ client \in Client
  /\ sent \in 0 .. Len(client.stream)
  /\ gone \in BOOLEAN
  /\ pc \in Reading \cup Ended \cup {"dial", "forward"}
  /\ fetched \in 0 .. sent
  /\ pos \in 0 .. fetched
  /\ need \in Nat
  /\ methods \in Byte \cup {None}
  /\ target \in {None} \cup ((0 .. sent) \X (0 .. sent))
  /\ reply \in {"none", "method", "ok", "refused", "unreachable"}

Init ==
  /\ client \in Client
  /\ \/ server = "socks" /\ pc = "greeting" /\ need = 2
     \/ server = "proxy" /\ pc = "peek" /\ need = 3
  /\ sent = 0 /\ gone = FALSE
  /\ pos = 0 /\ fetched = 0
  /\ methods = None /\ target = None /\ reply = "none"

ClientSends ==
  /\ ~gone /\ sent < Allowed /\ sent < Len(client.stream)
  /\ sent' = sent + 1
  /\ UNCHANGED <<server, client, gone, pc, pos, fetched, need, methods, target,
                 reply>>

HangUp ==
  /\ ~gone
  /\ gone' = TRUE
  /\ UNCHANGED <<server, client, sent, pc, pos, fetched, need, methods, target,
                 reply>>

-----------------------------------------------------------------------------
(* Reading                                                                 *)

\* Mutant: the dedicated server buffers its reads too.
BufferedAlways == TRUE

Buffered == server = "proxy"

\* bufio fills its buffer with all that has arrived.
Fill ==
  /\ Buffered /\ pc \in Reading \ {"peek"}
  /\ pos + need > fetched /\ fetched < sent
  /\ fetched' = sent
  /\ UNCHANGED <<server, client, sent, gone, pc, pos, need, methods, target,
                 reply>>

\* The bytes awaited are there.
Ready == pos + need <= IF Buffered THEN fetched ELSE sent

\* Mutant: bytes that are still in the socket are parsed as if buffered.
ReadFullPastBuffer(at, to, n) ==
  /\ pc = at /\ pos + need <= sent
  /\ pc' = to /\ need' = n
  /\ pos' = pos + need
  /\ UNCHANGED <<server, client, sent, gone, fetched>>

\* io.ReadFull returns the bytes awaited, and the handler goes on to wait for n
\* bytes at `to'.  Unbuffered, it takes no byte more than these.
ReadFull(at, to, n) ==
  /\ pc = at /\ Ready
  /\ pc' = to /\ need' = n
  /\ pos' = pos + need
  /\ fetched' = IF Buffered THEN fetched ELSE pos'
  /\ UNCHANGED <<server, client, sent, gone>>

\* Mutant: reads without a deadline.
ReadFailsWhenGone ==
  /\ pc \in Reading /\ gone
  /\ ~(Buffered /\ Ready)
  /\ pc' = IF Buffered /\ pc \in {"addr", "domain", "port"} THEN "dial" ELSE "closed"
  /\ target' = None
  /\ UNCHANGED <<server, client, sent, gone, pos, fetched, need, methods, reply>>

\* The read fails: the client has gone, which may take what is still in the
\* socket with it, or the deadline, where one is set, has passed.  Only
\* handleSOCKS5FromReader ignores this, once it has the request's header, and
\* dials: an address with port 0, or with the port that one byte makes.
ReadFails ==
  /\ pc \in Reading
  /\ gone \/ server = "socks" \/ pc = "peek"
  /\ ~(Buffered /\ Ready)
  /\ pc' = IF Buffered /\ pc \in {"addr", "domain", "port"} THEN "dial" ELSE "closed"
  /\ target' = IF pc = "port" /\ pos < fetched THEN <<target[1], fetched>> ELSE None
  /\ UNCHANGED <<server, client, sent, gone, pos, fetched, need, methods, reply>>

-----------------------------------------------------------------------------
(* handleConnection                                                        *)

\* The protocol a handler takes its client to speak.  The dedicated server does
\* not look at the version.
Protocol ==
  IF server = "socks" \/ Begins(<<5>>) THEN "socks"
  ELSE IF Begins(<<67, 79, 78>>) THEN "connect"
  ELSE "http"

\* Three bytes are read and replayed to the handler of the protocol they show.
Peek ==
  /\ pc = "peek" /\ sent >= need
  /\ fetched' = need /\ pos' = 0
  /\ \/ Protocol = "socks" /\ pc' = "count" /\ need' = 1
     \/ Protocol = "connect" /\ pc' = "head" /\ need' = client.head
     \/ Protocol = "http" /\ pc' = "http" /\ need' = client.head
  /\ UNCHANGED <<server, client, sent, gone, methods, target, reply>>

-----------------------------------------------------------------------------
(* handleSOCKS5 and handleSOCKS5FromReader                                 *)

\* Mutant: the version is taken for the number of methods.
ReadGreetingVersion ==
  /\ ReadFull("greeting", "methods", client.stream[pos + 1])
  /\ methods' = client.stream[pos + 1]
  /\ UNCHANGED <<target, reply>>

\* handleSOCKS5: version and number of methods.
ReadGreeting ==
  /\ ReadFull("greeting", "methods", client.stream[pos + 2])
  /\ methods' = client.stream[pos + 2]
  /\ UNCHANGED <<target, reply>>

\* handleSOCKS5FromReader: the number of methods, from one byte.
ReadCount ==
  /\ ReadFull("count", "methods", client.stream[pos + 1])
  /\ methods' = client.stream[pos + 1]
  /\ UNCHANGED <<target, reply>>

ReadMethods ==
  /\ ReadFull("methods", "request", 4)
  /\ reply' = "method"
  /\ UNCHANGED <<methods, target>>

\* Mutant: a refused request is not the end: the handler goes on to its address.
ReadRequestOnwards ==
  /\ pc = "request" /\ Ready
  /\ \/ client.stream[pos + 2] # 1 /\ reply' = "refused"
     \/ client.stream[pos + 2] = 1 /\ UNCHANGED reply
  /\ ReadFull("request", "addr", 4)
  /\ target' = <<pos + 4, pos + 4>>
  /\ UNCHANGED methods

\* The request's header.  Only CONNECT is served; the dedicated server closes
\* on an unknown address type, the other one takes it for an empty address.
ReadRequest ==
  LET cmd == client.stream[pos + 2]
      atyp == client.stream[pos + 4]
  IN /\ pc = "request" /\ Ready
     /\ \/ /\ cmd # 1
           /\ ReadFull("request", "closed", 0)
           /\ reply' = "refused"
        \/ /\ cmd = 1 /\ UNCHANGED reply
           /\ \/ atyp = 1 /\ ReadFull("request", "addr", 4)
              \/ atyp = 4 /\ ReadFull("request", "addr", 16)
              \/ atyp = 3 /\ ReadFull("request", "domain", 1)
              \/ atyp \notin {1, 3, 4} /\ Buffered /\ ReadFull("request", "port", 2)
              \/ atyp \notin {1, 3, 4} /\ ~Buffered /\ ReadFull("request", "closed", 0)
     /\ target' = <<pos + 4, pos + 4>>
     /\ UNCHANGED methods

\* The length of a domain name; the name itself is then read as an address.
ReadDomainLen ==
  /\ ReadFull("domain", "addr", client.stream[pos + 1])
  /\ UNCHANGED <<methods, target, reply>>

ReadAddress ==
  /\ ReadFull("addr", "port", 2)
  /\ UNCHANGED <<methods, target, reply>>

ReadPort ==
  /\ ReadFull("port", "dial", 0)
  /\ target' = <<target[1], pos'>>
  /\ UNCHANGED <<methods, reply>>

-----------------------------------------------------------------------------
(* handleCONNECT, handleHTTP                                               *)

\* http.ReadRequest meets what is no request.
BadHead ==
  /\ ~client.valid
  /\ ReadFull("head", "closed", 0) \/ ReadFull("http", "closed", 0)
  /\ UNCHANGED <<methods, target, reply>>

ReadHead ==
  /\ client.valid
  /\ ReadFull("head", "dial", 0)
  /\ target' = <<0, pos'>>
  /\ UNCHANGED <<methods, reply>>

ReadHTTP ==
  /\ client.valid
  /\ ReadFull("http", "forward", 0)
  /\ UNCHANGED <<methods, target, reply>>

\* RoundTrip and the response, or a failure without any response; the
\* connection serves one request.
Forward ==
  /\ pc = "forward" /\ pc' = "closed"
  /\ reply' \in {reply, "ok"}
  /\ UNCHANGED <<server, client, sent, gone, pos, fetched, need, methods, target>>

-----------------------------------------------------------------------------
(* The dial                                                                *)

\* An address that was not read at all is empty or has port 0, which nothing
\* answers.  Whether any other can be dialled is left open: one of type 4 is
\* written before ":port" without brackets, which no dial accepts but when its
\* bytes are those of a mapped address of type 1.
Dialable == target # None

DialOk ==
  /\ pc = "dial" /\ Dialable
  /\ pc' = "relay" /\ reply' = "ok"
  /\ UNCHANGED <<server, client, sent, gone, pos, fetched, need, methods, target>>

\* handleCONNECT gives up when it cannot write its reply.
ReplyFails ==
  /\ pc = "dial" /\ Protocol = "connect" /\ gone
  /\ pc' = "closed"
  /\ UNCHANGED <<server, client, sent, gone, pos, fetched, need, methods, target,
                 reply>>

DialFails ==
  /\ pc = "dial"
  /\ pc' = "closed" /\ reply' = "unreachable"
  /\ UNCHANGED <<server, client, sent, gone, pos, fetched, need, methods, target>>

-----------------------------------------------------------------------------

HandlerStep ==
  \/ Fill
  \/ ReadFails
  \/ Peek
  \/ ReadGreeting
  \/ ReadCount
  \/ ReadMethods
  \/ ReadRequest
  \/ ReadDomainLen
  \/ ReadAddress
  \/ ReadPort
  \/ BadHead
  \/ ReadHead
  \/ ReadHTTP
  \/ Forward
  \/ DialOk
  \/ ReplyFails
  \/ DialFails

Next == ClientSends \/ HangUp \/ HandlerStep

\* The handler is scheduled, deadlines pass, dials time out and a page's server
\* answers; the client has to do nothing.
Spec == Init /\ [][Next]_vars
FairSpec == Spec /\ WF_vars(HandlerStep)

-----------------------------------------------------------------------------
(* Properties                                                              *)

\* Where RFC 1928 has the parts of a SOCKS5 client's stream, and what they say;
\* an address of an unknown type is none.
MethodsAsked == client.stream[2]
RequestAt == 2 + MethodsAsked
CmdAsked == client.stream[RequestAt + 2]
AtypAsked == client.stream[RequestAt + 4]
AddressAt == RequestAt + 4
AddressLen == CASE AtypAsked = 1 -> 4
                [] AtypAsked = 3 -> 1 + client.stream[AddressAt + 1]
                [] AtypAsked = 4 -> 16
                [] OTHER -> 0
HandshakeLen == AddressAt + AddressLen + 2

\* The relay starts with the client's first byte of data: the dedicated SOCKS5
\* server takes no byte too many or too few, whatever the bytes are and however
\* they are grouped or pipelined, and CONNECT loses nothing of a client that sends
\* its head and waits for the reply.
RelayStartsAtData ==
  pc = "relay" =>
    /\ server = "socks" => fetched = HandshakeLen
    /\ Protocol = "connect" /\ client.first <= client.head => fetched = client.head

\* The dedicated server dials the address that its client asked for, and its
\* replies agree with the request.
AnswersAsAsked ==
  server = "socks" =>
    /\ reply \in {"method", "ok"} => methods = MethodsAsked
    /\ reply = "refused" => CmdAsked # 1
    /\ reply = "ok" => CmdAsked = 1 /\ target = <<AddressAt, HandshakeLen>>

\* What the dialogue with the client has come to.
Stage == IF pc \in Ended THEN pc ELSE "asking"

Replies == INSTANCE Dialogue WITH proto <- Protocol, stage <- Stage

\* Whatever bytes a client sends, leaves out or sends ahead, it is given the
\* replies of one protocol in their order and none after the last: on the shared
\* port of the one that its first three bytes show, on the dedicated server of
\* SOCKS5, also when it speaks another.
ImplementsDialogue == Replies!Spec

\* A client of the dedicated server cannot keep its handler in the handshake,
\* nor any client handleConnection in its first read; and a client that has gone
\* leaves no handler behind in a handshake, on either server, although one of
\* them clears its deadlines and ignores read errors.
HandshakeEnds ==
  /\ server = "socks" ~> pc \in Ended
  /\ pc = "peek" ~> pc # "peek"
  /\ gone ~> pc \in Ended

\* "Read auth methods (skip version and count, already peeked)"
\* (proxy.go:486): the number of methods read is the one the client sent.
CountAsSent == server = "proxy" => methods \in {None, MethodsAsked}
=============================================================================
