------------------------------- MODULE Tunnel -------------------------------
(***************************************************************************)
(* A CONNECT request that the proxy hijacks (tlsToLocalWebServer): it ends *)
(* the TLS session of the client, opens one to the web server and copies   *)
(* both ways with two goroutines until each has seen the end of its input. *)
(***************************************************************************)
VARIABLES tun,     \* where Hijack is
          copier,  \* down (to the client) and up (to the web server): run or done
          peer,    \* client, server -> open, eof (no more to send) or gone
          conn     \* client, server -> open, half (CloseWrite) or closed, at the proxy

tunVars == <<tun, copier, peer, conn>>

Sides == {"client", "server"}

TunTypeOK ==
    /\ tun \in {"off", "handshake", "dial", "target", "copy", "done"}
    /\ copier \in [{"down", "up"} -> {"run", "done"}]
    /\ peer \in [Sides -> {"open", "eof", "gone"}]
    /\ conn \in [Sides -> {"open", "half", "closed"}]

TunInit(start) ==
    /\ tun = start
    /\ copier = [d \in {"down", "up"} |-> "run"]
    /\ peer = [s \in Sides |-> "open"]
    /\ conn = [s \in Sides |-> "open"]

\* httpError and the deferred Close leave Hijack with the client closed.
Abort(closed) ==
    /\ tun' = "done"
    /\ conn' = [s \in Sides |-> IF s \in closed THEN "closed" ELSE conn[s]]
    /\ UNCHANGED <<copier, peer>>

Proceed(to) == tun' = to /\ UNCHANGED <<copier, peer, conn>>

Handshake == tun = "handshake" /\ (Proceed("dial") \/ Abort({"client"}))

\* A server that cannot be reached has no connection to close.
Dial == tun = "dial" /\ (Proceed("target") \/ Abort(Sides))

TargetHandshake == tun = "target" /\ (Proceed("copy") \/ Abort(Sides))

HalfClosed(s) == IF conn[s] = "closed" THEN "closed" ELSE "half"

Input(d) == IF d = "down" THEN "server" ELSE "client"
Output(d) == IF d = "down" THEN "client" ELSE "server"

InputEnded(d) == peer[Input(d)] # "open" \/ conn[Input(d)] = "closed"

\* Reading from or writing to a peer that is gone is an error.
CopyFailed(d) == "gone" \in {peer[s] : s \in Sides} \/ "closed" \in {conn[s] : s \in Sides}

CopyEnds_Open(d) ==
    /\ tun = "copy" /\ copier[d] = "run"
    /\ InputEnded(d) \/ CopyFailed(d)
    /\ copier' = [copier EXCEPT ![d] = "done"]
    /\ UNCHANGED <<tun, peer, conn>>

\* Only the goroutine that writes to the client closes it on an error.
CopyEnds(d) ==
    /\ tun = "copy" /\ copier[d] = "run"
    /\ InputEnded(d) \/ CopyFailed(d)
    /\ copier' = [copier EXCEPT ![d] = "done"]
    /\ conn' = [conn EXCEPT ![Output(d)] =
         IF d = "down" /\ CopyFailed(d) THEN "closed" ELSE HalfClosed(Output(d))]
    /\ UNCHANGED <<tun, peer>>

\* wg.Wait
BothDone ==
    /\ tun = "copy" /\ \A d \in DOMAIN copier : copier[d] = "done"
    /\ tun' = "done" /\ conn' = [s \in Sides |-> "closed"]
    /\ UNCHANGED <<copier, peer>>

Hijack == Handshake \/ Dial \/ TargetHandshake \/ BothDone

\* Peers stop sending, or die; they stop once the proxy has nothing more to send.
PeerEnds(s, to) ==
    /\ tun # "off" /\ peer[s] # "gone" /\ peer[s] # to
    /\ peer' = [peer EXCEPT ![s] = to]
    /\ UNCHANGED <<tun, copier, conn>>

PeerFollows(s) == conn[s] # "open" /\ PeerEnds(s, "eof")

TunNext ==
    \/ Hijack
    \/ \E d \in DOMAIN copier : CopyEnds(d)
    \/ \E s \in Sides : PeerEnds(s, "eof") \/ PeerEnds(s, "gone")
-----------------------------------------------------------------------------
(***************************************************************************)
(* When one peer ends, by closing or by dying, the proxy closes both       *)
(* connections, provided the other peer ends too once it sees the end of   *)
(* its input: neither copier waits forever for the other.                  *)
(***************************************************************************)
TunnelReleased ==
    tun = "copy" /\ (\E s \in Sides : peer[s] # "open") ~> \A s \in Sides : conn[s] = "closed"
=============================================================================
