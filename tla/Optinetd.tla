------------------------------ MODULE Optinetd ------------------------------
(* The boot of the daemon, cmd/optinetd/main.go, around the DNS optimizer. *)
(*                                                                         *)
(* main starts goroutines and waits for a signal: findFastestDNS runs the  *)
(* benchmark and gives the winner to the proxy server, which starts with a *)
(* default; the UDP proxy is created with the server that the proxy has at *)
(* that moment.  The model begins when all of them have been started and   *)
(* none has run.  A signal may end it at any step: main cancels the        *)
(* context, which the benchmark ignores, sleeps half a second and returns. *)
EXTENDS DnsOptimizer

CONSTANT DefaultServer  \* proxy.NewServer: "1.1.1.1:53"

ASSUME DefaultAssumption == DefaultServer \in Servers /\ None \notin Servers

VARIABLES
  found,      \* the goroutine of findFastestDNS has ended
  dnsServer,  \* proxy.Server.dnsServer
  dnsAddr     \* udpproxy.Server.dnsAddr, None until the server is created

bootVars == <<found, dnsServer, dnsAddr>>
vars == <<dnsVars, bootVars>>

TypeOK ==
  /\ DnsTypeOK
  /\ found \in BOOLEAN
  /\ dnsServer \in Servers
  /\ dnsAddr \in Servers \cup {None}

Init ==
  /\ DnsInit
  /\ found = FALSE
  /\ dnsServer = DefaultServer
  /\ dnsAddr = None

-----------------------------------------------------------------------------

\* Mutant: the results are read before all probers have ended.
FindFastestEarly ==
  /\ ~found
  /\ \E s \in Fastest : dnsServer' = s
  /\ found' = TRUE
  /\ UNCHANGED <<dnsVars, dnsAddr>>

\* findFastestDNS: BenchmarkServers returns and its first server is set.  The
\* error branch, which sets the default, is never taken: there is always a
\* result per server.
FindFastest ==
  /\ ~found
  /\ AllProbed
  /\ \E s \in Fastest : dnsServer' = s
  /\ found' = TRUE
  /\ UNCHANGED <<dnsVars, dnsAddr>>

\* udpproxy.NewServer(":5353", proxyServer.GetDNSServer())
StartUdp ==
  /\ dnsAddr = None
  /\ dnsAddr' = dnsServer
  /\ UNCHANGED <<dnsVars, found, dnsServer>>

OptimizerStep == DnsNext /\ UNCHANGED bootVars

Next == OptimizerStep \/ FindFastest \/ StartUdp

\* Goroutines are scheduled and every dial has a timeout.  Callers of the
\* cache, the clock and the operator owe nothing.
Fairness ==
  /\ \A s \in Servers : WF_vars(ProberStep(s) /\ UNCHANGED bootVars)
  /\ WF_vars(FindFastest)
  /\ WF_vars(StartUdp)

Spec == Init /\ [][Next]_vars
FairSpec == Spec /\ Fairness

-----------------------------------------------------------------------------
(* Properties                                                              *)

\* The proxy has the default server until the benchmark has ended, and then one
\* that a result of every server has been compared with: none is better, and a
\* dead one is chosen only when all are dead (dns.go:91-162, main.go:148-161).
\* The UDP proxy has one of the two.
FastestChosen ==
  /\ IF found
       THEN \E r \in results :
              /\ r.addr = dnsServer
              /\ \A s \in Servers :
                   \E q \in results : q.addr = s /\ r.score <= q.score
       ELSE dnsServer = DefaultServer
  /\ dnsAddr \in {None, DefaultServer, dnsServer}

\* The boot comes to its end: every prober gets its turn at the
\* semaphore, also behind servers that do not answer, the winner is set and the
\* UDP proxy is created.
BootSettles == <>(found /\ dnsAddr # None)

\* "The server auto-selects fastest DNS - give it 5 seconds after start"
\* (README.md:243): once the fastest server is known, the UDP proxy, the only
\* one that sends DNS queries, uses it.
FastestUsed == found /\ dnsAddr # None => dnsAddr \in Fastest
=============================================================================
