------------------------------ MODULE NpsHttps ------------------------------
(***************************************************************************)
(* Certificates of the NPS server's HTTPS hosts (server/proxy/https.go).   *)
(* Each certificate in use has an inner server that accepts connections    *)
(* from a listener of its own.  A handler goroutine per connection finds   *)
(* the host by the name in the client's hello, looks in two maps - host to *)
(* certificate, certificate to listener -, makes and replaces listeners as *)
(* the hosts' certificates change, and hands its connection over.  Nothing *)
(* holds the two maps together, and the administration page changes hosts  *)
(* meanwhile.                                                              *)
(*                                                                         *)
(* Two paths of Start, a certificate's text and a path to a file, end in   *)
(* cert alike; hosts without a certificate go to DealClient (NpsRelay).    *)
(***************************************************************************)
EXTENDS Integers, Sequences

CONSTANTS
    Caller,     \* bound: connections at a time
    Site,       \* host ids
    Cert,       \* certificates
    BadCert,    \* those that X509KeyPair refuses
    MaxChange   \* bound: changes of hosts

NoCert == "no cert"

VARIABLES
    siteCert,         \* [Site -> the host's certificate, or NoCert: there is no such host]
    hostIdCertMap,    \* [Site -> the certificate loaded for it, or NoCert]
    httpsListenerMap, \* [Cert -> a listener, or 0]
    listeners,        \* the certificate of each listener made so far
    hello,            \* each connection: [pc, site, cert, l]
    changes,
    panicked

httpsVars == <<siteCert, hostIdCertMap, httpsListenerMap, listeners, hello, changes, panicked>>

HttpsInit ==
    /\ siteCert \in [Site -> Cert]
    /\ hostIdCertMap = [s \in Site |-> NoCert]
    /\ httpsListenerMap = [c \in Cert |-> 0]
    /\ listeners = <<>>
    /\ hello = [k \in Caller |-> [pc |-> "idle", site |-> 0, cert |-> NoCert, l |-> 0]]
    /\ changes = 0
    /\ panicked = FALSE

Made == Len(listeners)
Is(k, pc)  == hello[k].pc = pc /\ ~panicked
Put(k, r)  == hello' = [hello EXCEPT ![k] = r]

-----------------------------------------------------------------------------

(* EditHost, DelHost.                                                      *)
ChangeHost(s, c) ==
    /\ changes < MaxChange
    /\ siteCert[s] # NoCert /\ c # siteCert[s]
    /\ siteCert' = [siteCert EXCEPT ![s] = c]
    /\ changes' = changes + 1
    /\ UNCHANGED <<hostIdCertMap, httpsListenerMap, listeners, hello, panicked>>

(* Start: GetInfoByHost; a served connection makes room for the next one.  *)
Hello(k, s) ==
    /\ Is(k, "idle") \/ Is(k, "served")
    /\ siteCert[s] # NoCert
    /\ Put(k, [pc |-> "sweep", site |-> s, cert |-> siteCert[s], l |-> 0])
    /\ UNCHANGED <<siteCert, hostIdCertMap, httpsListenerMap, listeners, changes, panicked>>

(* cert first lets go of the listeners of hosts that are no more.          *)
Dead == {s \in Site : /\ siteCert[s] = NoCert /\ hostIdCertMap[s] # NoCert
                      /\ httpsListenerMap[hostIdCertMap[s]] # 0}
SweepHosts(k) ==
    /\ Is(k, "sweep")
    /\ httpsListenerMap' = [c \in Cert |-> IF \E s \in Dead : hostIdCertMap[s] = c THEN 0 ELSE httpsListenerMap[c]]
    /\ hostIdCertMap' = [s \in Site |-> IF s \in Dead THEN NoCert ELSE hostIdCertMap[s]]
    /\ Put(k, [hello[k] EXCEPT !.pc = "lookup"])
    /\ UNCHANGED <<siteCert, listeners, changes, panicked>>

(* The host's certificate as it was loaded: the same, ...                  *)
Known(k) ==
    /\ Is(k, "lookup")
    /\ hostIdCertMap[hello[k].site] = hello[k].cert
    /\ Put(k, [hello[k] EXCEPT !.pc = "hand", !.l = httpsListenerMap[hello[k].cert]])
    /\ UNCHANGED <<siteCert, hostIdCertMap, httpsListenerMap, listeners, changes, panicked>>

(* Mutant of Renew: takes a host's loaded certificate as good.             *)
RenewNot(k) ==
    LET old == hostIdCertMap[hello[k].site] IN
    /\ Is(k, "lookup") /\ old # hello[k].cert /\ old # NoCert
    /\ Put(k, [hello[k] EXCEPT !.pc = "hand", !.l = httpsListenerMap[old]])
    /\ UNCHANGED <<siteCert, hostIdCertMap, httpsListenerMap, listeners, changes, panicked>>

(* ... or another: a new listener takes the place of the old one's.        *)
Renew(k) ==
    LET old == hostIdCertMap[hello[k].site] IN
    /\ Is(k, "lookup") /\ old # hello[k].cert /\ old # NoCert
    /\ listeners' = Append(listeners, hello[k].cert)
    /\ httpsListenerMap' = [httpsListenerMap EXCEPT ![old] = 0]
    /\ Put(k, [hello[k] EXCEPT !.pc = "store", !.l = Made + 1])
    /\ UNCHANGED <<siteCert, hostIdCertMap, changes, panicked>>

(* ... or none.                                                            *)
First(k) ==
    /\ Is(k, "lookup")
    /\ hostIdCertMap[hello[k].site] = NoCert
    /\ listeners' = Append(listeners, hello[k].cert)
    /\ Put(k, [hello[k] EXCEPT !.pc = "store", !.l = Made + 1])
    /\ UNCHANGED <<siteCert, hostIdCertMap, httpsListenerMap, changes, panicked>>

StoreListener(k) ==
    /\ Is(k, "store")
    /\ httpsListenerMap' = [httpsListenerMap EXCEPT ![hello[k].cert] = hello[k].l]
    /\ Put(k, [hello[k] EXCEPT !.pc = "storeCert"])
    /\ UNCHANGED <<siteCert, hostIdCertMap, listeners, changes, panicked>>

StoreCert(k) ==
    /\ Is(k, "storeCert")
    /\ hostIdCertMap' = [hostIdCertMap EXCEPT ![hello[k].site] = hello[k].cert]
    /\ Put(k, [hello[k] EXCEPT !.pc = "hand"])
    /\ UNCHANGED <<siteCert, httpsListenerMap, listeners, changes, panicked>>

(* l.acceptConn: blocks until the inner server accepts, which it does for  *)
(* ever if the certificate is good and never if it is not; a nil l panics  *)
(* and nothing in the process recovers.                                    *)
HandOver(k) ==
    /\ Is(k, "hand")
    /\ IF hello[k].l = 0 THEN UNCHANGED hello
                         ELSE listeners[hello[k].l] \notin BadCert /\ Put(k, [hello[k] EXCEPT !.pc = "served"])
    /\ panicked' = (hello[k].l = 0)
    /\ UNCHANGED <<siteCert, hostIdCertMap, httpsListenerMap, listeners, changes>>

HttpsNext ==
    \/ \E s \in Site, c \in Cert \cup {NoCert} : ChangeHost(s, c)
    \/ \E k \in Caller :
          \/ \E s \in Site : Hello(k, s)
          \/ SweepHosts(k) \/ Known(k) \/ Renew(k) \/ First(k) \/ StoreListener(k) \/ StoreCert(k) \/ HandOver(k)

HttpsSpec == HttpsInit /\ [][HttpsNext]_httpsVars

-----------------------------------------------------------------------------
(* Types (https.go:20).                                                    *)
HttpsTypeOK ==
    /\ siteCert \in [Site -> Cert \cup {NoCert}] /\ hostIdCertMap \in [Site -> Cert \cup {NoCert}]
    /\ httpsListenerMap \in [Cert -> 0 .. Made]
    /\ listeners \in Seq(Cert)
    /\ hello \in [Caller -> [pc : {"idle", "sweep", "lookup", "store", "storeCert", "hand", "served"},
                             site : Site \cup {0}, cert : Cert \cup {NoCert}, l : 0 .. Made]]
    /\ changes \in 0 .. MaxChange /\ panicked \in BOOLEAN

(* A connection is served under the certificate its host had when it came, *)
(* however the host changed before and whoever else loads certificates     *)
(* (https.go:180, "the certificate was changed, load it again").           *)
RightCert ==
    \A k \in Caller : hello[k].pc = "served" => listeners[hello[k].l] = hello[k].cert

(* "The certificate exists already, load it directly" (https.go:172): a    *)
(* host whose certificate is loaded has a listener for it.                 *)
ListenerThere == ~panicked
=============================================================================
