--------------------------- MODULE HandshakeProofs ---------------------------
(***************************************************************************)
(* Proofs about Handshake: whatever bytes clients send, what the handlers  *)
(* take off the socket is the handshake and what they answer is what was   *)
(* asked.                                                                  *)
(***************************************************************************)
EXTENDS Handshake, TLAPS

\* What a handler waits for and how far an address has been read.
Parser ==
  /\ pc = "peek" => need = 3
  /\ pc = "greeting" => need = 2
  /\ pc \in {"count", "domain"} => need = 1
  /\ pc = "request" => need = 4
  /\ pc \in {"addr", "domain", "port"} => target \in (0 .. sent) \X (0 .. sent)

\* Where the address ends in the stream.
PortAt == AddressAt + AddressLen

\* The dedicated server has taken exactly what it has parsed, and stands in the
\* stream where the standard has what it waits for.
Dedicated ==
  server = "socks" =>
    /\ pc \in (Reading \ {"peek", "count", "head", "http"}) \cup Ended \cup {"dial"}
    /\ fetched = pos
    /\ pc = "greeting" => pos = 0
    /\ pc \notin {"greeting", "closed"} => MethodsAsked \in Byte
    /\ pc = "methods" => pos = 2 /\ need = MethodsAsked
    /\ pc = "request" => pos = RequestAt
    /\ pc = "domain" => pos = AddressAt /\ AtypAsked = 3
    /\ pc \in {"addr", "port", "dial", "relay"} => AddressLen \in Nat
    /\ pc = "addr" => pos + need = PortAt
    /\ pc = "port" => pos = PortAt /\ need = 2
    /\ pc \in {"dial", "relay"} => pos = HandshakeLen

\* What it has read of the request, and what it has replied to it.
Asked ==
  server = "socks" =>
    /\ pc \notin {"greeting", "closed"} => methods = MethodsAsked
    /\ pc \in {"addr", "domain", "port", "dial", "relay"} => CmdAsked = 1
    /\ pc \in {"addr", "domain", "port"} => target = <<AddressAt, AddressAt>>
    /\ pc \in {"dial", "relay"} => target = <<AddressAt, HandshakeLen>>
    /\ reply = "ok" => pc = "relay"
    /\ reply = "refused" => pc = "closed"
    /\ pc = "greeting" => reply = "none"

\* handleCONNECT waits for the whole head, and a client that waits for the reply
\* has not sent more.
Connecting ==
  server = "proxy" /\ Protocol = "connect" =>
    /\ pc \in {"peek", "head", "dial", "relay", "closed"}
    /\ pc = "peek" => pos = 0 /\ fetched = 0
    /\ pc = "head" => pos = 0 /\ need = client.head
    /\ pc = "dial" => fetched >= client.head
    /\ pc \in {"peek", "head", "dial"} => reply = "none"
    /\ client.first <= client.head =>
         /\ pc = "relay" => fetched = client.head
         /\ reply = "none" => sent <= client.head

IInv == TypeOK /\ Parser /\ Dedicated /\ Asked /\ Connecting /\ AnswersAsAsked

-----------------------------------------------------------------------------
(* The client's stream                                                     *)

\* What a client's record holds; the bytes that have arrived are bytes.
LEMMA ClientIs ==
  ASSUME TypeOK
  PROVE  /\ client \in Client
         /\ Len(client.stream) \in Nat /\ client.head \in Nat /\ client.first \in Nat
         /\ sent \in 0 .. Len(client.stream) /\ sent \in Nat
         /\ fetched \in 0 .. sent /\ pos \in 0 .. fetched
         /\ fetched \in Nat /\ pos \in Nat /\ need \in Nat
         /\ \A i \in 1 .. sent : client.stream[i] \in Byte
<1>1. /\ client \in Client /\ sent \in 0 .. Len(client.stream)
      /\ fetched \in 0 .. sent /\ pos \in 0 .. fetched /\ need \in Nat
  BY Zenon DEF TypeOK
<1>2. client.stream \in Seq(Byte) /\ client.head \in Nat /\ client.first \in Nat
  BY <1>1, ClientAssumption
<1>3. Len(client.stream) \in Nat
      /\ \A i \in 1 .. Len(client.stream) : client.stream[i] \in Byte
  BY <1>2
<1> QED
  BY <1>1, <1>2, <1>3

\* How long an address is.
LEMMA AddressIs ==
  /\ AtypAsked = 1 => AddressLen = 4
  /\ AtypAsked = 3 => AddressLen = 1 + client.stream[AddressAt + 1]
  /\ AtypAsked = 4 => AddressLen = 16
BY DEF AddressLen

\* Nothing changes the server or its client, nor what the client asks.
LEMMA SameClient == Next => client' = client /\ server' = server
BY DEF Next, ClientSends, HangUp, HandlerStep, Fill, ReadFails, Peek, ReadGreeting, ReadCount,
       ReadMethods, ReadRequest, ReadDomainLen, ReadAddress, ReadPort, BadHead, ReadHead,
       ReadHTTP, Forward, DialOk, ReplyFails, DialFails, ReadFull

LEMMA ClientStays ==
  ASSUME client' = client
  PROVE  /\ MethodsAsked' = MethodsAsked /\ RequestAt' = RequestAt
         /\ CmdAsked' = CmdAsked /\ AtypAsked' = AtypAsked
         /\ AddressAt' = AddressAt /\ AddressLen' = AddressLen
         /\ PortAt' = PortAt /\ HandshakeLen' = HandshakeLen
<1>1. MethodsAsked' = MethodsAsked
  BY DEF MethodsAsked
<1>2. RequestAt' = RequestAt
  BY <1>1 DEF RequestAt
<1>3. CmdAsked' = CmdAsked /\ AtypAsked' = AtypAsked /\ AddressAt' = AddressAt
  BY <1>2 DEF CmdAsked, AtypAsked, AddressAt
<1>4. AddressLen' = AddressLen
  BY <1>3 DEF AddressLen
<1> QED
  BY <1>1, <1>2, <1>3, <1>4 DEF PortAt, HandshakeLen

LEMMA ProtocolIs ==
  /\ Protocol \in {"socks", "connect", "http"}
  /\ server = "socks" => Protocol = "socks"
  /\ client' = client /\ server' = server => Protocol' = Protocol
<1>1. ASSUME client' = client PROVE \A w : Begins(w)' = Begins(w)
  BY <1>1 DEF Begins
<1> QED
  BY <1>1 DEF Protocol

-----------------------------------------------------------------------------
(* The invariant                                                           *)

LEMMA InitIInv == Init => IInv
<1> SUFFICES ASSUME Init PROVE IInv
  OBVIOUS
<1>1. client \in Client
  BY DEF Init
<1>2. Len(client.stream) \in Nat /\ client.head \in Nat
  BY <1>1, ClientAssumption
<1>3. TypeOK
  <2>1. /\ server \in {"socks", "proxy"} /\ pc \in Reading /\ need \in Nat
        /\ target = None /\ methods = None /\ reply = "none" /\ gone = FALSE
        /\ sent = 0 /\ fetched = 0 /\ pos = 0
    BY DEF Init, Reading
  <2>2. sent \in 0 .. Len(client.stream) /\ fetched \in 0 .. sent /\ pos \in 0 .. fetched
    BY <1>2, <2>1
  <2> QED
    BY <1>1, <2>1, <2>2 DEF TypeOK
<1>4. Parser /\ AnswersAsAsked
  BY DEF Init, Parser, AnswersAsAsked
<1>5. Dedicated /\ Asked /\ Connecting
  BY <1>2 DEF Init, Dedicated, Asked, Connecting, Reading, Ended
<1> QED
  BY <1>3, <1>4, <1>5 DEF IInv

\* What io.ReadFull does when it returns the bytes awaited.
LEMMA ReadFullIs ==
  ASSUME TypeOK, NEW at, NEW to, NEW n, ReadFull(at, to, n)
  PROVE  /\ pc = at /\ pc' = to /\ need' = n /\ pos' = pos + need
         /\ pos' \in 0 .. fetched' /\ fetched' \in 0 .. sent /\ pos + need <= sent
         /\ server = "socks" => fetched' = pos'
         /\ server = "proxy" => fetched' = fetched
         /\ server' = server /\ client' = client /\ sent' = sent /\ gone' = gone
BY ClientIs DEF TypeOK, ReadFull, Ready, Buffered

\* What a handler does with a read, before it waits for n bytes at `to'.
Takes(to, n) ==
  /\ to \in {"methods", "request", "addr", "domain", "port", "dial", "forward", "closed"}
  /\ n \in Nat
  /\ to = "request" => n = 4
  /\ to = "domain" => n = 1
  /\ methods' \in Byte \cup {None}
  /\ target' \in {None} \cup ((0 .. sent) \X (0 .. sent))
  /\ to \in {"addr", "domain", "port"} => target' \in (0 .. sent) \X (0 .. sent)
  /\ reply' \in {reply, "method", "refused"}

\* A read keeps the types and what the parser waits for.
LEMMA ReadKeepsTypes ==
  ASSUME TypeOK, NEW at, NEW to, NEW n, ReadFull(at, to, n), Takes(to, n)
  PROVE  TypeOK' /\ Parser'
<1>1. /\ pc' = to /\ need' = n /\ pos' \in 0 .. fetched' /\ fetched' \in 0 .. sent
      /\ server' = server /\ client' = client /\ sent' = sent /\ gone' = gone
  BY ReadFullIs
<1> QED
  BY <1>1 DEF Takes, TypeOK, Parser, Reading, Ended

\* Every step keeps the types and what the parser waits for.
LEMMA StepTypes ==
  ASSUME TypeOK, Parser, Next
  PROVE  TypeOK' /\ Parser'
<1>1. client' = client /\ server' = server
  BY SameClient
<1>2. /\ client \in Client
      /\ Len(client.stream) \in Nat /\ client.head \in Nat
      /\ sent \in 0 .. Len(client.stream) /\ sent \in Nat
      /\ fetched \in 0 .. sent /\ pos \in 0 .. fetched
      /\ fetched \in Nat /\ pos \in Nat /\ need \in Nat
  BY ClientIs
<1>3. \A i \in 1 .. sent : client.stream[i] \in Byte
  BY ClientIs
<1> USE DEF TypeOK, Parser, Reading, Ended
<1>5. CASE ClientSends
  BY <1>1, <1>2, <1>5 DEF ClientSends
<1>6. CASE HangUp
  BY <1>1, <1>2, <1>6 DEF HangUp
<1>7. CASE Fill
  BY <1>1, <1>2, <1>7 DEF Fill
<1>8. CASE ReadFails
  BY <1>1, <1>2, <1>8 DEF ReadFails
<1>9. CASE Peek
  BY <1>1, <1>2, <1>9 DEF Peek
<1>10. CASE ReadGreeting
  <2>1. PICK n : ReadFull("greeting", "methods", n) /\ n = client.stream[pos + 2]
    BY <1>10, Zenon DEF ReadGreeting
  <2>2. methods' = n /\ target' = target /\ reply' = reply
    BY <1>10, <2>1 DEF ReadGreeting
  <2>3. n \in Byte /\ n \in Nat
    <3>1. pos + 2 \in 1 .. sent
      BY <1>2, <2>1, ReadFullIs
    <3>2. n \in Byte
      BY <1>3, <2>1, <3>1
    <3> QED
      BY <3>2 DEF Byte
  <2>4. pc = "greeting"
    BY <2>1 DEF ReadFull
  <2>5. Takes("methods", n)
    BY <2>2, <2>3, <2>4 DEF Takes
  <2> QED
    BY <2>1, <2>5, ReadKeepsTypes, Zenon
<1>11. CASE ReadCount
  <2>1. PICK n : ReadFull("count", "methods", n) /\ n = client.stream[pos + 1]
    BY <1>11, Zenon DEF ReadCount
  <2>2. methods' = n /\ target' = target /\ reply' = reply
    BY <1>11, <2>1 DEF ReadCount
  <2>3. n \in Byte /\ n \in Nat
    <3>1. pos + 1 \in 1 .. sent
      BY <1>2, <2>1, ReadFullIs
    <3>2. n \in Byte
      BY <1>3, <2>1, <3>1
    <3> QED
      BY <3>2 DEF Byte
  <2>4. pc = "count"
    BY <2>1 DEF ReadFull
  <2>5. Takes("methods", n)
    BY <2>2, <2>3, <2>4 DEF Takes
  <2> QED
    BY <2>1, <2>5, ReadKeepsTypes, Zenon
<1>12. CASE ReadMethods
  <2>1. ReadFull("methods", "request", 4) /\ pc = "methods"
    BY <1>12 DEF ReadMethods, ReadFull
  <2>3. Takes("request", 4)
    BY <1>12, <2>1 DEF ReadMethods, Takes
  <2> QED
    BY <2>1, <2>3, ReadKeepsTypes, Zenon
<1>13. CASE ReadRequest
  <2>1. PICK to \in {"addr", "domain", "port", "closed"}, n \in {0, 1, 2, 4, 16} :
          ReadFull("request", to, n) /\ (to = "domain" => n = 1)
    BY <1>13 DEF ReadRequest
  <2>2. target' = <<pos + 4, pos + 4>> /\ methods' = methods /\ reply' \in {reply, "refused"}
    BY <1>13 DEF ReadRequest
  <2>3. need = 4 /\ pos + 4 \in 0 .. sent
    BY <1>2, <1>3, <2>1, ReadFullIs DEF Parser, Byte
  <2>4. target' \in (0 .. sent) \X (0 .. sent)
    BY <2>2, <2>3
  <2>5. Takes(to, n)
    BY <2>1, <2>2, <2>4 DEF Takes
  <2> QED
    BY <2>1, <2>5, ReadKeepsTypes, Zenon
<1>14. CASE ReadDomainLen
  <2>1. PICK n : ReadFull("domain", "addr", n) /\ n = client.stream[pos + 1]
    BY <1>14, Zenon DEF ReadDomainLen
  <2>2. methods' = methods /\ target' = target /\ reply' = reply
    BY <1>14, <2>1 DEF ReadDomainLen
  <2>3. n \in Byte /\ n \in Nat
    <3>1. pos + 1 \in 1 .. sent
      BY <1>2, <2>1, ReadFullIs
    <3>2. n \in Byte
      BY <1>3, <2>1, <3>1
    <3> QED
      BY <3>2 DEF Byte
  <2>4. pc = "domain"
    BY <2>1 DEF ReadFull
  <2>5. Takes("addr", n)
    BY <2>2, <2>3, <2>4 DEF Takes
  <2> QED
    BY <2>1, <2>5, ReadKeepsTypes, Zenon
<1>15. CASE ReadAddress
  <2>1. ReadFull("addr", "port", 2) /\ pc = "addr"
    BY <1>15 DEF ReadAddress, ReadFull
  <2>3. Takes("port", 2)
    BY <1>15, <2>1 DEF ReadAddress, Takes
  <2> QED
    BY <2>1, <2>3, ReadKeepsTypes, Zenon
<1>16. CASE ReadPort
  <2>1. ReadFull("port", "dial", 0) /\ pc = "port"
    BY <1>16 DEF ReadPort, ReadFull
  <2>2. target' \in (0 .. sent) \X (0 .. sent)
    BY <1>2, <1>16, <2>1, ReadFullIs DEF ReadPort
  <2>3. Takes("dial", 0)
    BY <1>16, <2>1, <2>2 DEF ReadPort, Takes
  <2> QED
    BY <2>1, <2>3, ReadKeepsTypes, Zenon
<1>23. CASE BadHead
  <2>1. PICK at \in {"head", "http"} : ReadFull(at, "closed", 0)
    BY <1>23 DEF BadHead
  <2>2. Takes("closed", 0)
    BY <1>23 DEF BadHead, Takes
  <2> QED
    BY <2>1, <2>2, ReadKeepsTypes, Zenon
<1>17. CASE ReadHead
  <2>1. ReadFull("head", "dial", 0) /\ pc = "head"
    BY <1>17 DEF ReadHead, ReadFull
  <2>2. target' \in (0 .. sent) \X (0 .. sent)
    BY <1>2, <1>17, <2>1, ReadFullIs DEF ReadHead
  <2>3. Takes("dial", 0)
    BY <1>17, <2>1, <2>2 DEF ReadHead, Takes
  <2> QED
    BY <2>1, <2>3, ReadKeepsTypes, Zenon
<1>18. CASE ReadHTTP
  <2>1. ReadFull("http", "forward", 0) /\ pc = "http"
    BY <1>18 DEF ReadHTTP, ReadFull
  <2>3. Takes("forward", 0)
    BY <1>18, <2>1 DEF ReadHTTP, Takes
  <2> QED
    BY <2>1, <2>3, ReadKeepsTypes, Zenon
<1>19. CASE Forward
  BY <1>1, <1>2, <1>19 DEF Forward
<1>20. CASE DialOk
  BY <1>1, <1>2, <1>20 DEF DialOk
<1>21. CASE ReplyFails
  BY <1>1, <1>2, <1>21 DEF ReplyFails
<1>22. CASE DialFails
  BY <1>1, <1>2, <1>22 DEF DialFails
<1> QED
  BY <1>5, <1>6, <1>7, <1>8, <1>9, <1>10, <1>11, <1>12, <1>13, <1>14, <1>15, <1>16, <1>17,
     <1>18, <1>19, <1>20, <1>21, <1>22, <1>23 DEF Next, HandlerStep

\* The dedicated server stays where its client's stream says.
LEMMA StepDedicated ==
  ASSUME IInv, Next, server = "socks"
  PROVE  Dedicated' /\ Asked' /\ AnswersAsAsked'
<1>1. client' = client /\ server' = server
  BY SameClient
<1>2. /\ MethodsAsked' = MethodsAsked /\ RequestAt' = RequestAt
      /\ CmdAsked' = CmdAsked /\ AtypAsked' = AtypAsked
      /\ AddressAt' = AddressAt /\ AddressLen' = AddressLen
      /\ PortAt' = PortAt /\ HandshakeLen' = HandshakeLen
  BY <1>1, ClientStays
<1>3. /\ RequestAt = 2 + MethodsAsked /\ AddressAt = RequestAt + 4
      /\ PortAt = AddressAt + AddressLen /\ HandshakeLen = PortAt + 2
      /\ CmdAsked = client.stream[RequestAt + 2] /\ AtypAsked = client.stream[RequestAt + 4]
      /\ MethodsAsked = client.stream[2]
  BY DEF MethodsAsked, RequestAt, CmdAsked, AtypAsked, AddressAt, PortAt, HandshakeLen
<1>4. /\ AtypAsked = 1 => AddressLen = 4
      /\ AtypAsked = 3 => AddressLen = 1 + client.stream[AddressAt + 1]
      /\ AtypAsked = 4 => AddressLen = 16
  BY AddressIs
<1>5. \A m \in Byte : m \in Nat
  BY DEF Byte
<1>6. \A i \in 1 .. sent : client.stream[i] \in Byte
  BY ClientIs DEF IInv
<1>7. TypeOK /\ Parser /\ Dedicated /\ Asked /\ AnswersAsAsked
  BY DEF IInv
<1>8. pos \in Nat /\ need \in Nat /\ sent \in Nat
  BY <1>7, ClientIs
<1> USE <1>1, <1>2, <1>8 DEF Reading, Ended
<1>9. ASSUME UNCHANGED <<pc, pos, fetched, need, methods, target, reply>>
      PROVE  Dedicated' /\ Asked' /\ AnswersAsAsked'
  BY <1>7, <1>9 DEF Dedicated, Asked, AnswersAsAsked
<1>10. CASE ClientSends \/ HangUp
  BY <1>9, <1>10 DEF ClientSends, HangUp
<1>11. CASE ReadFails
  BY <1>7, <1>11 DEF ReadFails, Buffered, Dedicated, Asked, AnswersAsAsked
<1>12. CASE ReadGreeting
  <2>1. PICK n : ReadFull("greeting", "methods", n) /\ n = client.stream[pos + 2]
    BY <1>12, Zenon DEF ReadGreeting
  <2>2. methods' = n /\ target' = target /\ reply' = reply
    BY <1>12, <2>1 DEF ReadGreeting
  <2>3. pc = "greeting" /\ pc' = "methods" /\ need' = n /\ pos' = pos + need /\ fetched' = pos'
    BY <1>7, <2>1, ReadFullIs
  <2>4. pos = 0 /\ need = 2 /\ n = MethodsAsked
    BY <1>3, <1>7, <2>1, <2>3 DEF Dedicated, Parser
  <2>5. 2 <= sent
    BY <1>7, <2>1, <2>4, ReadFullIs
  <2>6. MethodsAsked \in Byte
    BY <1>3, <1>6, <2>5
  <2> QED
    BY <1>7, <2>2, <2>3, <2>4, <2>6 DEF Dedicated, Asked, AnswersAsAsked
<1>13. CASE ReadMethods
  <2>1. ReadFull("methods", "request", 4) /\ methods' = methods /\ target' = target
        /\ reply' = "method"
    BY <1>13 DEF ReadMethods
  <2>2. pc = "methods" /\ pc' = "request" /\ need' = 4 /\ pos' = pos + need /\ fetched' = pos'
    BY <1>7, <2>1, ReadFullIs
  <2> QED
    BY <1>3, <1>7, <2>1, <2>2 DEF Dedicated, Asked, AnswersAsAsked
<1>14. CASE ReadRequest
  <2>1. target' = <<pos + 4, pos + 4>> /\ methods' = methods
    BY <1>14 DEF ReadRequest
  <2>2. pc = "request" /\ pos = RequestAt /\ need = 4
    BY <1>7, <1>14 DEF ReadRequest, Dedicated, Parser
  <2>3. client.stream[pos + 2] = CmdAsked /\ client.stream[pos + 4] = AtypAsked
    BY <1>3, <2>2
  <2>4. \/ ReadFull("request", "closed", 0) /\ CmdAsked # 1 /\ reply' = "refused"
        \/ ReadFull("request", "closed", 0) /\ reply' = reply
        \/ CmdAsked = 1 /\ reply' = reply
           /\ \/ AtypAsked = 1 /\ ReadFull("request", "addr", 4)
              \/ AtypAsked = 4 /\ ReadFull("request", "addr", 16)
              \/ AtypAsked = 3 /\ ReadFull("request", "domain", 1)
    BY <1>14, <2>3 DEF ReadRequest, Buffered
  <2>5. ASSUME NEW to, NEW n, ReadFull("request", to, n)
        PROVE  pc' = to /\ need' = n /\ pos' = AddressAt /\ fetched' = pos'
    BY <1>3, <1>7, <2>2, <2>5, ReadFullIs
  <2>6. target' = <<AddressAt, AddressAt>> /\ methods' = MethodsAsked /\ MethodsAsked \in Byte
        /\ reply \notin {"ok", "refused"}
    BY <1>3, <1>7, <2>1, <2>2 DEF Asked, Dedicated
  <2>7. CASE ReadFull("request", "closed", 0)
    BY <1>7, <2>4, <2>5, <2>6, <2>7 DEF Dedicated, Asked, AnswersAsAsked
  <2>8. CASE AtypAsked = 1 /\ ReadFull("request", "addr", 4) /\ CmdAsked = 1 /\ reply' = reply
    BY <1>3, <1>4, <1>7, <2>5, <2>6, <2>8 DEF Dedicated, Asked, AnswersAsAsked
  <2>9. CASE AtypAsked = 4 /\ ReadFull("request", "addr", 16) /\ CmdAsked = 1 /\ reply' = reply
    BY <1>3, <1>4, <1>7, <2>5, <2>6, <2>9 DEF Dedicated, Asked, AnswersAsAsked
  <2>10. CASE AtypAsked = 3 /\ ReadFull("request", "domain", 1) /\ CmdAsked = 1 /\ reply' = reply
    BY <1>7, <2>5, <2>6, <2>10 DEF Dedicated, Asked, AnswersAsAsked
  <2> QED
    BY <2>4, <2>7, <2>8, <2>9, <2>10
<1>15. CASE ReadDomainLen
  <2>1. PICK n : ReadFull("domain", "addr", n) /\ n = client.stream[pos + 1]
    BY <1>15, Zenon DEF ReadDomainLen
  <2>2. methods' = methods /\ target' = target /\ reply' = reply
    BY <1>15 DEF ReadDomainLen
  <2>3. pc = "domain" /\ pc' = "addr" /\ need' = n /\ pos' = pos + need /\ fetched' = pos'
    BY <1>7, <2>1, ReadFullIs
  <2>4. pos = AddressAt /\ need = 1 /\ AtypAsked = 3 /\ MethodsAsked \in Byte
    BY <1>7, <2>3 DEF Dedicated, Parser
  <2>5. n \in Byte
    <3>1. pos + 1 \in 1 .. sent
      BY <1>7, <2>1, <2>4, ReadFullIs
    <3> QED
      BY <1>6, <2>1, <3>1
  <2>6. AddressLen = 1 + n
    BY <1>4, <2>1, <2>4
  <2>7. AddressLen \in Nat /\ pos' + need' = PortAt
    BY <1>3, <1>5, <2>3, <2>4, <2>5, <2>6
  <2> QED
    BY <1>7, <2>2, <2>3, <2>7 DEF Dedicated, Asked, AnswersAsAsked
<1>16. CASE ReadAddress
  <2>1. ReadFull("addr", "port", 2) /\ methods' = methods /\ target' = target /\ reply' = reply
    BY <1>16 DEF ReadAddress
  <2>2. pc = "addr" /\ pc' = "port" /\ need' = 2 /\ pos' = pos + need /\ fetched' = pos'
    BY <1>7, <2>1, ReadFullIs
  <2> QED
    BY <1>7, <2>1, <2>2 DEF Dedicated, Asked, AnswersAsAsked
<1>17. CASE ReadPort
  <2>1. ReadFull("port", "dial", 0) /\ methods' = methods /\ target' = <<target[1], pos'>>
        /\ reply' = reply
    BY <1>17 DEF ReadPort
  <2>2. pc = "port" /\ pc' = "dial" /\ need' = 0 /\ pos' = pos + need /\ fetched' = pos'
    BY <1>7, <2>1, ReadFullIs
  <2>3. target = <<AddressAt, AddressAt>> /\ CmdAsked = 1 /\ methods = MethodsAsked
    BY <1>7, <2>2 DEF Asked
  <2>4. pos = PortAt /\ need = 2
    BY <1>7, <2>2 DEF Dedicated
  <2>5. target' = <<AddressAt, pos'>> /\ pos' = HandshakeLen
    BY <1>3, <2>1, <2>2, <2>3, <2>4
  <2> QED
    BY <1>7, <2>1, <2>2, <2>3, <2>5 DEF Dedicated, Asked, AnswersAsAsked
<1>18. CASE DialOk
  BY <1>7, <1>18 DEF DialOk, Dedicated, Asked, AnswersAsAsked
<1>19. CASE DialFails
  BY <1>7, <1>19 DEF DialFails, Dedicated, Asked, AnswersAsAsked
<1>20. CASE Fill \/ Peek \/ ReadCount \/ BadHead \/ ReadHead \/ ReadHTTP \/ Forward
  BY <1>7, <1>20 DEF Fill, Buffered, Peek, ReadCount, BadHead, ReadHead, ReadHTTP, Forward,
                     ReadFull, Dedicated
<1>21. CASE ReplyFails
  <2>1. Protocol = "socks"
    BY <1>7, ProtocolIs
  <2> QED
    BY <1>21, <2>1 DEF ReplyFails
<1> QED
  BY <1>10, <1>11, <1>12, <1>13, <1>14, <1>15, <1>16, <1>17, <1>18, <1>19, <1>20,
     <1>21
  DEF Next, HandlerStep

\* A client of handleCONNECT that waits for the reply has sent the head and no more.
LEMMA StepConnecting ==
  ASSUME IInv, Next, server = "proxy", Protocol = "connect"
  PROVE  Connecting'
<1>1. client' = client /\ server' = server /\ Protocol' = Protocol
  BY SameClient, ProtocolIs
<1>2. TypeOK /\ Parser /\ Connecting
  BY DEF IInv
<1>3. /\ sent \in Nat /\ fetched \in 0 .. sent /\ pos \in 0 .. fetched /\ need \in Nat
      /\ client.head \in Nat /\ client.first \in Nat /\ fetched \in Nat
  BY <1>2, ClientIs
<1> USE <1>1, <1>3 DEF Reading, Ended
<1>5. CASE ClientSends
  BY <1>2, <1>5 DEF ClientSends, Allowed, Connecting
<1>6. CASE HangUp
  BY <1>2, <1>6 DEF HangUp, Connecting
<1>7. CASE Fill
  BY <1>2, <1>7 DEF Fill, Connecting
<1>8. CASE ReadFails
  BY <1>2, <1>8 DEF ReadFails, Connecting
<1>9. CASE Peek
  BY <1>2, <1>9 DEF Peek, Connecting
<1>10. CASE ReadHead
  <2>1. ReadFull("head", "dial", 0) /\ reply' = reply /\ pos + need <= fetched
    BY <1>10 DEF ReadHead, ReadFull, Ready, Buffered
  <2>2. pc = "head" /\ pc' = "dial" /\ fetched' = fetched /\ sent' = sent
    BY <1>2, <2>1, ReadFullIs
  <2> QED
    BY <1>2, <2>1, <2>2 DEF Connecting
<1>11. CASE DialOk
  BY <1>2, <1>11 DEF DialOk, Connecting
<1>12. CASE ReplyFails
  BY <1>2, <1>12 DEF ReplyFails, Connecting
<1>13. CASE DialFails
  BY <1>2, <1>13 DEF DialFails, Connecting
<1>14. CASE ReadGreeting \/ ReadCount \/ ReadMethods \/ ReadRequest \/ ReadDomainLen
            \/ ReadAddress \/ ReadPort \/ BadHead \/ ReadHTTP \/ Forward
  BY <1>2, <1>14 DEF ReadGreeting, ReadCount, ReadMethods, ReadRequest, ReadDomainLen,
                     ReadAddress, ReadPort, BadHead, ReadHTTP, Forward, ReadFull, Connecting
<1> QED
  BY <1>5, <1>6, <1>7, <1>8, <1>9, <1>10, <1>11, <1>12, <1>13, <1>14 DEF Next, HandlerStep

LEMMA StepIInv == IInv /\ [Next]_vars => IInv'
<1> SUFFICES ASSUME IInv, [Next]_vars PROVE IInv'
  OBVIOUS
<1>1. CASE Next
  <2>1. TypeOK' /\ Parser'
    BY <1>1, StepTypes DEF IInv
  <2>2. server' = server /\ client' = client /\ server \in {"socks", "proxy"}
    BY <1>1, SameClient DEF IInv, TypeOK
  <2>3. CASE server = "socks"
    BY <1>1, <2>1, <2>2, <2>3, StepDedicated DEF IInv, Connecting
  <2>4. CASE server = "proxy"
    <3>1. Connecting'
      BY <1>1, <2>2, <2>4, StepConnecting, ProtocolIs DEF Connecting
    <3> QED
      BY <2>1, <2>2, <2>4, <3>1 DEF IInv, Dedicated, Asked, AnswersAsAsked
  <2> QED
    BY <2>2, <2>3, <2>4
<1>2. CASE UNCHANGED vars
  <2>1. /\ MethodsAsked' = MethodsAsked /\ RequestAt' = RequestAt
        /\ CmdAsked' = CmdAsked /\ AtypAsked' = AtypAsked
        /\ AddressAt' = AddressAt /\ AddressLen' = AddressLen
        /\ PortAt' = PortAt /\ HandshakeLen' = HandshakeLen /\ Protocol' = Protocol
    BY <1>2, ClientStays, ProtocolIs DEF vars
  <2> QED
    BY <1>2, <2>1 DEF vars, IInv, TypeOK, Parser, Dedicated, Asked, Connecting, AnswersAsAsked
<1> QED
  BY <1>1, <1>2

-----------------------------------------------------------------------------
(* Theorems                                                                *)

THEOREM Invariance == Spec => []IInv
BY InitIInv, StepIInv, PTL DEF Spec

\* What the handlers have read and hold stays within their buffers and within
\* what has arrived.
THEOREM TypeCorrect == Spec => []TypeOK
BY Invariance, PTL DEF IInv

\* Nothing of a handshake is left for the relay, and nothing after it is taken
\* away: by handleSOCKS5 whatever its client sends (proxy.go:352-456), by
\* handleCONNECT of a client that waits for its reply (proxy.go:200-240).
THEOREM RelaysStartAtData == Spec => []RelayStartsAtData
<1>1. IInv => RelayStartsAtData
  BY ProtocolIs DEF IInv, TypeOK, Dedicated, Connecting, RelayStartsAtData
<1> QED
  BY <1>1, Invariance, PTL

\* handleSOCKS5 dials what its client has asked for, and replies accordingly.
THEOREM AnswersAreAsAsked == Spec => []AnswersAsAsked
BY Invariance, PTL DEF IInv

-----------------------------------------------------------------------------
(* The dialogue                                                            *)

\* What the handler is at tells the protocol and what the client was told.
Told ==
  /\ pc \in {"greeting", "count", "methods", "request", "addr", "domain", "port"} =>
       Protocol = "socks"
  /\ pc = "head" => Protocol = "connect"
  /\ pc \in {"http", "forward"} => Protocol = "http"
  /\ pc \in {"peek", "greeting", "count", "methods", "head", "http", "forward"} =>
       reply = "none"
  /\ pc \in {"request", "addr", "domain", "port"} => reply = "method"
  /\ pc = "dial" => \/ Protocol = "socks" /\ reply = "method"
                    \/ Protocol = "connect" /\ reply = "none"

\* A step is a word of the dialogue or changes nothing of it, and keeps in step
\* with what the client was told.
LEMMA StepSays ==
  ASSUME IInv, Told, [Next]_vars
  PROVE  Told' /\ [Replies!Next]_(Replies!said)
<1>1. client' = client /\ server' = server
  BY SameClient DEF vars
<1>2. Protocol' = Protocol /\ Protocol \in {"socks", "connect", "http"}
  BY <1>1, ProtocolIs
<1> USE <1>1, <1>2 DEF Told, Stage, Reading, Ended, Replies!Next, Replies!said, Replies!Says
<1>3. ASSUME pc' = pc, reply' = reply
      PROVE  Told' /\ UNCHANGED Replies!said
  BY <1>3
<1>4. CASE ClientSends \/ HangUp \/ Fill \/ UNCHANGED vars
  BY <1>3, <1>4 DEF ClientSends, HangUp, Fill, vars
<1>5. CASE ReadFails
  BY <1>5 DEF ReadFails, Replies!GiveUp
<1>6. CASE Peek
  BY <1>6 DEF Peek
<1>7. CASE ReadGreeting \/ ReadCount \/ ReadDomainLen \/ ReadAddress \/ ReadPort
           \/ ReadHead \/ ReadHTTP
  BY <1>7 DEF ReadGreeting, ReadCount, ReadDomainLen, ReadAddress, ReadPort, ReadHead,
              ReadHTTP, ReadFull
<1>8. CASE ReadMethods
  BY <1>8 DEF ReadMethods, ReadFull, Replies!Negotiate
<1>9. CASE ReadRequest
  <2>1. \/ pc' = "closed" /\ reply' \in {reply, "refused"}
        \/ pc' \in {"addr", "domain", "port"} /\ reply' = reply
    BY <1>9 DEF ReadRequest, ReadFull
  <2>2. pc = "request"
    BY <1>9 DEF ReadRequest
  <2> QED
    BY <2>1, <2>2 DEF Replies!Refuse, Replies!GiveUp
<1>10. CASE Forward
  BY <1>10 DEF Forward, Replies!Respond, Replies!GiveUp
<1>11. CASE DialOk \/ DialFails
  BY <1>11 DEF DialOk, DialFails, Replies!Answer
<1>12. CASE ReplyFails \/ BadHead
  BY <1>12 DEF ReplyFails, BadHead, ReadFull, Replies!GiveUp
<1> QED
  BY <1>4, <1>5, <1>6, <1>7, <1>8, <1>9, <1>10, <1>11, <1>12 DEF Next, HandlerStep

\* Either server keeps to the dialogue of the protocol it takes its client to speak
\* (proxy.go:165-290, 352-456, 473-561).
THEOREM Refinement == Spec => ImplementsDialogue
<1>1. Init => Told /\ Replies!Init
  <2> QED
    BY ProtocolIs DEF Init, Told, Stage, Ended, Replies!Init
<1>2. IInv /\ Told /\ [Next]_vars => Told' /\ [Replies!Next]_(Replies!said)
  BY StepSays
<1> QED
  BY <1>1, <1>2, Invariance, PTL DEF Spec, ImplementsDialogue, Replies!Spec
=============================================================================
