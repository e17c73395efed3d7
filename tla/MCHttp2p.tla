------------------------------- MODULE MCHttp2p -------------------------------
(* Http2pClients for TLC: a fetch, alone with its messages cut anywhere, or with another
   one of its node that is aborted in the head of its response. *)
EXTENDS Http2pClients

CONSTANT Other  \* the other fetch

OnePiece == {<<"b1">>}
NoneOrTwoPieces == {<< >>, <<"b1", "b2">>}

(* Who makes the fetches; the other one has a caller who can abort it. *)
MCInit ==
    /\ ClientsInit
    /\ kind[Other] \in {"none", "caller"}
    /\ \A x \in Fetches \ {Other} :
        kind[x] \in (IF kind[Other] = "none" THEN {"caller", "web", "mdns"} ELSE {"web"})

MCSpec == MCInit /\ [][ClientsNext]_<<vars, callerVars>> /\ ClientsFairness

whole == \A x \in Fetches, d \in Directions :
    wire'[x][d] = << >> \/ Len(wire'[x][d]) >= Len(wire[x][d])

(* Only messages for a caller or the web are cut, and only the gateway is stopped and
   has streams that break by themselves. *)
BoundedAlone ==
    /\ (\E x \in Fetches : kind[x] = "mdns") => whole
    /\ (\A x \in Fetches : kind[x] # "web") =>
        ~stopped' /\ \A x \in Fetches : stream'[x] # "broken"

(* With the other fetch messages are not cut, nothing is closed, stopped or broken, and
   listeners wait or answer with a body.  The other fetch begins when the web request is
   answered; its client is dialed at once, aborts and gets stuck, then its server reads
   what there is and waits for its listener, and then the web request goes on. *)
BoundedByTwo ==
    LET stuck == parser[Other]["res"].phase = "spin"
    IN  /\ whole /\ ~closed' /\ ~stopped'
        /\ \A x \in Fetches : stream'[x] # "broken" /\ handler'[x] \in {"none", "waiting", "200"}
        /\ handler'[Other] # "200"
        /\ stage'[Other] = "idle" \/ \A x \in Fetches \ {Other} : handler[x] \in Statuses
        /\ aborted'[Other] => stage[Other] = "headers"
        /\ \/ stage[Other] \in {"idle", "rejected"} \/ handler[Other] = "waiting"
           \/ stage'[Other] # stage[Other] \/ aborted'[Other] # aborted[Other]
           \/ parser'[Other]["res"] # parser[Other]["res"]
           \/ stuck /\ <<parser[Other], handler[Other]>>' # <<parser[Other], handler[Other]>>

Bounded == IF kind[Other] = "none" THEN BoundedAlone ELSE BoundedByTwo
=============================================================================
