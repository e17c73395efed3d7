----------------------------- MODULE Http2pClients -----------------------------
(***************************************************************************)
(* Who calls http2p.fetch of a node: a caller with a signal; the gateway,  *)
(* for a request from the web (gateway-http2p.js, in the servers of        *)
(* create-gateway-servers.js); the discovery by mDNS (coop-mdns.js).       *)
(***************************************************************************)
EXTENDS Http2p

CONSTANT Addresses  \* how many addresses an mDNS service has

ASSUME AddressAssumption == Addresses \in Nat

VARIABLES
    kind,       \* "caller", "web" or "mdns", or "none" that makes it
    web,        \* the response to the web: "none", "waiting", "head", "ended", or "local"
    sent,       \* what was written into its body
    service     \* coop-mdns: how many addresses are left; one more before serviceUp

callerVars == <<kind, web, sent, service>>

ClientsInit ==
    /\ Init
    /\ kind \in [Fetches -> {"none", "caller", "web", "mdns"}]
    /\ web = [x \in Fetches |-> "none"]
    /\ sent = [x \in Fetches |-> << >>]
    /\ service = [x \in Fetches |-> Addresses + 1]

-----------------------------------------------------------------------------
(* The gateway. *)

(* processPreflight, the info of the node, and the error for an invalid URL: at once. *)
answersItself(x) ==
    /\ web' = [web EXCEPT ![x] = "local"]
    /\ UNCHANGED vars

(* incomingMessageToRequest: the same method, path, headers and body. *)
forwards(x) ==
    /\ web' = [web EXCEPT ![x] = "waiting"]
    /\ fetch(x)

(* The listener of the gateway servers. *)
listener(x) ==
    /\ kind[x] = "web" /\ web[x] = "none" /\ client /\ ~stopped
    /\ answersItself(x) \/ forwards(x)
    /\ UNCHANGED <<kind, sent, service>>

(* responseToOutgoingMessage.  When the fetch rejects, nobody writes anything. *)
writeHead(x) ==
    /\ web[x] = "waiting" /\ stage[x] = "resolved" /\ client
    /\ web' = [web EXCEPT ![x] = "head"]
    /\ UNCHANGED <<vars, kind, sent, service>>

(* Mutant of mayEnd: also when the body failed. *)
mayEndOnError(x) == parser[x]["res"].phase \in {"done", "failed"}

(* Mutant of mayEnd: not for a body that is empty. *)
mayEndIfSent(x) == parser[x]["res"].phase = "done" /\ sent[x] # << >>

mayEnd(x) == parser[x]["res"].phase = "done"

(* The loop over the body: a chunk is written, or all was and the body is done.
   When it fails, om.end is not called. *)
writeBody(x) ==
    LET body == parser[x]["res"].body
    IN  /\ web[x] = "head" /\ client
        /\ IF sent[x] # body
           THEN /\ sent' = [sent EXCEPT ![x] = body]
                /\ UNCHANGED web
           ELSE /\ mayEnd(x)
                /\ web' = [web EXCEPT ![x] = "ended"]
                /\ UNCHANGED sent
        /\ UNCHANGED <<vars, kind, service>>

-----------------------------------------------------------------------------
(* coop-mdns *)

(* serviceUp, of a node that is not this one and not followed. *)
serviceUp(x) ==
    /\ kind[x] = "mdns" /\ service[x] = Addresses + 1 /\ client
    /\ service' = [service EXCEPT ![x] = IF aborted[x] THEN 0 ELSE Addresses]
    /\ UNCHANGED <<vars, kind, web, sent>>

(* The dial of an address ends: the next one is tried unless stop() was called, and
   after one that succeeds, or the last, the fetch goes out anyway. *)
dialAddress(x) ==
    /\ kind[x] = "mdns" /\ service[x] \in 1 .. Addresses /\ client
    /\ \/ /\ service' = [service EXCEPT ![x] = 0]
          /\ fetch(x)
       \/ /\ service[x] > 1
          /\ service' = [service EXCEPT ![x] = IF aborted[x] THEN 0 ELSE @ - 1]
          /\ UNCHANGED vars
    /\ UNCHANGED <<kind, web, sent>>

stopMdns(x) == kind[x] = "mdns" /\ abort(x) /\ UNCHANGED callerVars

-----------------------------------------------------------------------------
ClientsNext ==
    \/ /\ \/ closeServer \/ stopClient
          \/ \E x \in Fetches :
                \/ Exchange(x)
                \/ kind[x] = "caller" /\ (fetch(x) \/ cancel(x) \/ abort(x))
       /\ UNCHANGED callerVars
    \/ \E x \in Fetches :
        \/ listener(x) \/ writeHead(x) \/ writeBody(x)
        \/ serviceUp(x) \/ dialAddress(x) \/ stopMdns(x)

(* Http2p's fairness, and the gateway writes on. *)
ClientsFairness ==
    /\ Fairness
    /\ WF_<<vars, callerVars>>(\E x \in Fetches : writeHead(x) \/ writeBody(x))

ClientsSpec == ClientsInit /\ [][ClientsNext]_<<vars, callerVars>> /\ ClientsFairness

-----------------------------------------------------------------------------
(* A response that ends for the web client is whole, unless stop() has closed its
   stream: one that was cut off between the nodes never looks complete behind the
   gateway. *)
WebEndsWhole ==
    \A x \in Fetches : web[x] = "ended" /\ stream[x] # "closed" =>
        /\ sent[x] = content[x]["res"]
        /\ parser[x]["res"].start[1] = handler[x]

(* A web request that the other node answers is answered, to its end, unless the
   fetch is rejected or the body fails: then the web client waits for ever.  So it does
   when another fetch, or a ping, has got one of the nodes stuck in the header loop. *)
WebAnswered ==
    \A x \in Fetches :
        (web[x] = "waiting" /\ handler[x] \in Statuses) ~>
            \/ web[x] = "ended"
            \/ stage[x] = "rejected" \/ parser[x]["res"].phase = "failed"
            \/ ~client \/ ~server
=============================================================================
