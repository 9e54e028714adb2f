-------------------------- MODULE WebSocketTunnel --------------------------
(***************************************************************************)
(* WebSocket upgrades of guest connections (src/host/src/qemu/ws.ts and the *)
(* upgrade path of qemu/http.ts).  A guest request for an upgrade takes its *)
(* TCP session out of HTTP parsing; hooks, policy and DNS are awaited, the  *)
(* upstream is dialled, the request head and what the guest sent meanwhile  *)
(* are written to it, its response head is read, and from a 101 on both     *)
(* sides are joined.  Everything the host says to the guest is addressed by *)
(* the flow's key, and the guest may close the flow and open another under  *)
(* the same key while an upgrade of the first one is still in the works.    *)
(*                                                                          *)
(* Flows are numbered in the order the guest opens them; each makes one     *)
(* upgrade with at most one upstream socket, so these share its number.     *)
(* Bytes are chunks; chunk n of a flow is the number n.                     *)
(***************************************************************************)
EXTENDS Integers, Sequences

CONSTANTS Schemes,    \* subset of {"http", "https"}
          MaxFlows,   \* flows the guest opens under the key
          MaxChunks,  \* chunks it sends on each after the request head
          Cap         \* maxTcpPendingWriteBytes, in chunks

ASSUME TunnelAssumption == MaxFlows \in Nat /\ MaxChunks \in Nat /\ Cap \in Nat

WsFlows == 1..MaxFlows

VARIABLES scheme,      \* how the guest's connections are intercepted
          nat,         \* flow the stack knows under the key, 0 if none
          tcpSession,  \* flow whose session tcpSessions holds under the key, or 0
          ses,         \* the session objects: [ws, socket, paused, tls]
          guestEnd,    \* the guest's side of a flow: [fin, slow]
          task,        \* the upgrade of a flow
          wsPending,   \* ws.pending
          upstream,    \* upstream sockets: [state, flowing, got, unread]
          sent,        \* chunks the guest has sent on a flow
          finished,    \* whether a tunnel has called finish (finishOnce)
          heard,       \* pairs <<a, b>>: flow a was sent bytes meant for flow b
          ended        \* flows the stack has ended towards the guest

tunnelVars == <<scheme, nat, tcpSession, ses, guestEnd, task, wsPending, upstream, sent,
                finished, heard, ended>>

\* A socket without content: none yet, or a closed one.
NoUpstream == [state |-> "none", flowing |-> FALSE, got |-> <<>>, unread |-> 0]

TunnelTypeOK ==
  /\ scheme \in Schemes
  /\ nat \in 0..MaxFlows /\ tcpSession \in 0..MaxFlows
  /\ task \in [WsFlows -> {"idle", "hooks", "dial", "head", "tunnel", "over"}]
  /\ \A i \in WsFlows :
       /\ ses[i].ws \in BOOLEAN /\ ses[i].socket \in BOOLEAN
       /\ ses[i].paused \in BOOLEAN /\ ses[i].tls \in BOOLEAN
       /\ guestEnd[i].fin \in BOOLEAN /\ guestEnd[i].slow \in BOOLEAN
       /\ upstream[i].state \in {"none", "dialling", "open", "ending", "ended", "closed"}
       /\ sent[i] \in 0..MaxChunks

TunnelInit ==
  /\ scheme \in Schemes
  /\ nat = 0 /\ tcpSession = 0
  /\ ses = [i \in WsFlows |-> [ws |-> FALSE, socket |-> FALSE, paused |-> FALSE,
                               tls |-> FALSE]]
  /\ guestEnd = [i \in WsFlows |-> [fin |-> FALSE, slow |-> FALSE]]
  /\ task = [i \in WsFlows |-> "idle"]
  /\ wsPending = [i \in WsFlows |-> <<>>]
  /\ upstream = [i \in WsFlows |-> NoUpstream]
  /\ sent = [i \in WsFlows |-> 0]
  /\ finished = [i \in WsFlows |-> FALSE]
  /\ heard = {} /\ ended = {}

Destroyed == [NoUpstream EXCEPT !.state = "closed"]

Destroy(i) == upstream' = [upstream EXCEPT ![i] = Destroyed]
----------------------------------------------------------------------------
(* What the host says to the guest.  Plain flows are addressed by key alone; *)
(* TLS flows write through their own TLS socket, closed with the session.    *)

Reaches(i) == IF scheme = "http" THEN nat # 0 ELSE nat = i /\ ses[i].tls

Said(i, words) ==
  /\ heard' = IF Reaches(i) THEN heard \cup {<<nat, i>>} ELSE heard
  /\ ended' = IF Reaches(i) /\ "fin" \in words THEN ended \cup {nat} ELSE ended

\* The error that refuses an upgrade leaves through `finally`, which ends the
\* flow, before the catch around it writes the refusal.
Refuse(i, words) ==
  /\ task' = [task EXCEPT ![i] = "over"]
  /\ wsPending' = [wsPending EXCEPT ![i] = <<>>]
  /\ Said(i, words)

Refusal == {"error", "fin"}
----------------------------------------------------------------------------
(* The guest. *)

\* handleTcpConnect and the request head that asks for the upgrade.
Upgrades(i) ==
  /\ nat = 0 /\ task[i] = "idle" /\ \A j \in 1..(i - 1) : task[j] # "idle"
  /\ nat' = i /\ tcpSession' = i
  /\ ses' = [ses EXCEPT ![i] = [ws |-> TRUE, socket |-> FALSE, paused |-> FALSE,
                                tls |-> scheme = "https"]]
  /\ task' = [task EXCEPT ![i] = "hooks"]
  /\ UNCHANGED <<scheme, guestEnd, wsPending, upstream, sent, finished, heard, ended>>

\* abortTcpSession; the session dropped from tcpSessions is the key's.
AbortSession(i) ==
  /\ ses' = [ses EXCEPT ![i] = [@ EXCEPT !.ws = FALSE, !.paused = FALSE, !.tls = FALSE]]
  /\ nat' = 0 /\ tcpSession' = 0

WsWritable(i) == upstream[i].state = "open" /\ task[i] \in {"head", "tunnel", "over"}

\* handleWebSocketClientData
GuestSends(i) ==
  /\ nat = i /\ ~guestEnd[i].fin /\ sent[i] < MaxChunks
  /\ sent' = [sent EXCEPT ![i] = @ + 1]
  /\ IF tcpSession # i \/ ~ses[i].ws
     THEN UNCHANGED <<upstream, wsPending, ses, nat, tcpSession>>
     ELSE IF WsWritable(i) /\ upstream[i].unread < Cap
     THEN /\ upstream' = [upstream EXCEPT ![i].got = Append(@, sent'[i]), ![i].unread = @ + 1]
          /\ UNCHANGED <<wsPending, ses, nat, tcpSession>>
     ELSE IF ~WsWritable(i) /\ Len(wsPending[i]) < Cap
     THEN /\ wsPending' = [wsPending EXCEPT ![i] = Append(@, sent'[i])]
          /\ UNCHANGED <<upstream, ses, nat, tcpSession>>
     ELSE /\ AbortSession(i)
          /\ upstream' = IF ses[i].socket THEN [upstream EXCEPT ![i] = Destroyed] ELSE upstream
          /\ UNCHANGED wsPending
  /\ UNCHANGED <<scheme, guestEnd, task, finished, heard, ended>>

\* A FIN or an RST, and handleTcpClose.  The stack keeps a flow that only the
\* guest has ended; the session stays in tcpSessions while it has a socket.
WsGuestCloses(i, destroy) ==
  /\ nat = i /\ (destroy \/ ~guestEnd[i].fin)
  /\ guestEnd' = [guestEnd EXCEPT ![i] = [fin |-> TRUE, slow |-> @.slow /\ ~destroy]]
  /\ nat' = IF destroy \/ i \in ended THEN 0 ELSE i
  /\ IF tcpSession # i THEN UNCHANGED <<tcpSession, ses, upstream>>
     ELSE /\ ses' = [ses EXCEPT ![i] = [@ EXCEPT !.ws = FALSE, !.paused = FALSE, !.tls = FALSE]]
          /\ tcpSession' = IF ses[i].socket THEN i ELSE 0
          /\ upstream' = IF ~ses[i].socket THEN upstream
                         ELSE IF destroy THEN [upstream EXCEPT ![i] = Destroyed]
                         ELSE [upstream EXCEPT ![i].state = IF @ = "open" THEN "ending" ELSE @]
  /\ UNCHANGED <<scheme, task, wsPending, sent, finished, heard, ended>>

\* The stack pauses a flow whose guest does not read, and resumes it
\* (handleTcpPause, handleTcpResume).
Paces(i, slow) ==
  /\ nat = i /\ guestEnd[i].slow # slow
  /\ guestEnd' = [guestEnd EXCEPT ![i].slow = slow]
  /\ IF tcpSession # i THEN UNCHANGED <<ses, upstream>>
     ELSE /\ ses' = [ses EXCEPT ![i].paused = slow]
          /\ upstream' = IF ses[i].socket THEN [upstream EXCEPT ![i].flowing = ~slow] ELSE upstream
  /\ UNCHANGED <<scheme, nat, tcpSession, task, wsPending, sent, finished, heard, ended>>
----------------------------------------------------------------------------
(* The upgrade: hooks, policy and DNS; the dial; the response head. *)

HooksSettle(i) ==
  /\ task[i] = "hooks"
  /\ \/ /\ ses[i].ws                          \* allowed and resolved
        /\ task' = [task EXCEPT ![i] = "dial"]
        /\ upstream' = [upstream EXCEPT ![i].state = "dialling"]
        /\ UNCHANGED <<wsPending, heard, ended>>
     \/ ~ses[i].ws /\ Refuse(i, Refusal) /\ UNCHANGED upstream   \* its state is missing
     \/ Refuse(i, Refusal) /\ UNCHANGED upstream                 \* denied, or an error
     \/ Refuse(i, {"answer", "fin"}) /\ UNCHANGED upstream     \* a hook answered
  /\ UNCHANGED <<scheme, guestEnd, nat, tcpSession, ses, sent, finished>>

HeadOnly(i) == <<"head">>

\* What is written on connect: the request head, then what was pending.
Flushed(i) == <<"head">> \o wsPending[i]

\* The socket's 'connect' (secureConnect).
DialSucceeds(i) ==
  /\ task[i] = "dial"
  /\ task' = [task EXCEPT ![i] = "head"]
  /\ ses' = [ses EXCEPT ![i].socket = TRUE]
  /\ upstream' = [upstream EXCEPT ![i] =
                    [@ EXCEPT !.state = "open", !.flowing = ~ses[i].paused,
                              !.got = Flushed(i), !.unread = Len(Flushed(i))]]
  /\ wsPending' = [wsPending EXCEPT ![i] = <<>>]
  /\ UNCHANGED <<scheme, guestEnd, nat, tcpSession, sent, finished, heard, ended>>

\* 'error', or the connect timer, which destroys the socket.
DialFails(i) ==
  /\ task[i] = "dial"
  /\ Refuse(i, Refusal)
  /\ Destroy(i)
  /\ UNCHANGED <<scheme, guestEnd, nat, tcpSession, ses, sent, finished>>

\* A 101: both sides are joined, and the socket the head paused is resumed.
HeadJoins(i) ==
  /\ task[i] = "head" /\ upstream[i].state = "open" /\ upstream[i].flowing
  /\ Head(upstream[i].got) = "head"
  /\ Said(i, {"101"})
  /\ task' = [task EXCEPT ![i] = "tunnel"]
  /\ upstream' = [upstream EXCEPT ![i].flowing = TRUE]
  /\ UNCHANGED <<scheme, guestEnd, nat, tcpSession, ses, wsPending, sent, finished>>

\* Any other status: finishOnce, then the end that follows a closed upgrade.
HeadDeclines(i) ==
  /\ task[i] = "head" /\ upstream[i].state = "open" /\ upstream[i].flowing
  /\ Refuse(i, {"answer", "fin"})
  /\ ses' = [ses EXCEPT ![i].ws = FALSE]
  /\ Destroy(i)
  /\ UNCHANGED <<scheme, guestEnd, nat, tcpSession, sent, finished>>

\* Not an HTTP head, or too large a one: the socket is left open and paused.
HeadMalformed(i) ==
  /\ task[i] = "head" /\ upstream[i].state = "open" /\ upstream[i].flowing
  /\ Refuse(i, Refusal)
  /\ upstream' = [upstream EXCEPT ![i].flowing = FALSE]
  /\ UNCHANGED <<scheme, guestEnd, nat, tcpSession, ses, sent, finished>>

\* The upstream ends, fails or is closed first, or the header timer destroys it.
HeadFails(i) ==
  /\ task[i] = "head"
  /\ Refuse(i, Refusal)
  /\ Destroy(i)
  /\ UNCHANGED <<scheme, guestEnd, nat, tcpSession, ses, sent, finished>>
----------------------------------------------------------------------------
(* The upstream peer and the tunnel. *)

PeerReads(i) ==
  /\ upstream[i].unread > 0 /\ upstream[i].state # "closed"
  /\ upstream' = [upstream EXCEPT ![i].unread = @ - 1]
  /\ UNCHANGED <<scheme, guestEnd, nat, tcpSession, ses, task, wsPending, sent, finished, heard, ended>>

UpstreamData(i) ==
  /\ task[i] = "tunnel" /\ upstream[i].state \in {"open", "ending"} /\ upstream[i].flowing
  /\ Said(i, {"data"})
  /\ UNCHANGED <<scheme, guestEnd, nat, tcpSession, ses, task, wsPending, upstream, sent, finished>>

FinishOnce(i) ==
  /\ finished' = [finished EXCEPT ![i] = TRUE]
  /\ IF finished[i] THEN UNCHANGED <<heard, ended>> ELSE Said(i, {"fin"})

\* The peer's end; without half-open sockets Node ends the other direction too.
UpstreamEnds(i) ==
  /\ task[i] = "tunnel" /\ upstream[i].state \in {"open", "ending"} /\ upstream[i].flowing
  /\ upstream' = [upstream EXCEPT ![i].state = "ended"]
  /\ FinishOnce(i)
  /\ UNCHANGED <<scheme, guestEnd, nat, tcpSession, ses, task, wsPending, sent>>

\* 'close': a plain flow's session is dropped from under the key.
WsUpstreamCloses(i) ==
  /\ task[i] = "tunnel" /\ upstream[i].state \in {"ended", "closed"}
  /\ task' = [task EXCEPT ![i] = "over"]
  /\ Destroy(i)
  /\ ses' = [ses EXCEPT ![i].ws = FALSE]
  /\ FinishOnce(i)
  /\ tcpSession' = IF scheme = "http" THEN 0 ELSE tcpSession
  /\ UNCHANGED <<scheme, guestEnd, nat, wsPending, sent>>

\* A socket nobody tunnels any more, ended by the guest's close.
StraySocketCloses(i) ==
  /\ task[i] = "over" /\ upstream[i].state = "ending"
  /\ Destroy(i)
  /\ UNCHANGED <<scheme, guestEnd, nat, tcpSession, ses, task, wsPending, sent, finished, heard, ended>>

UpstreamErrors(i) ==
  /\ task[i] = "tunnel" /\ upstream[i].state \in {"open", "ending"}
  /\ AbortSession(i)
  /\ Destroy(i)
  /\ UNCHANGED <<scheme, guestEnd, task, wsPending, sent, finished, heard, ended>>
----------------------------------------------------------------------------
TunnelNext ==
  \E i \in WsFlows :
    \/ Upgrades(i) \/ GuestSends(i)
    \/ \E b \in BOOLEAN : WsGuestCloses(i, b) \/ Paces(i, b)
    \/ HooksSettle(i) \/ DialSucceeds(i) \/ DialFails(i)
    \/ HeadJoins(i) \/ HeadDeclines(i) \/ HeadMalformed(i) \/ HeadFails(i)
    \/ PeerReads(i) \/ UpstreamData(i) \/ UpstreamEnds(i) \/ WsUpstreamCloses(i)
    \/ StraySocketCloses(i) \/ UpstreamErrors(i)

TunnelSpec == TunnelInit /\ [][TunnelNext]_tunnelVars
----------------------------------------------------------------------------
\* What an upstream receives is the request head and then the guest's bytes in
\* the order they were sent, none missing before the last one: the bytes of the
\* handshake are flushed before any byte that comes after it
\* (bridgeWebSocketUpgrade, handleWebSocketClientData).
UpstreamGetsGuestBytes ==
  \A i \in WsFlows :
    upstream[i].got # <<>> =>
      /\ Head(upstream[i].got) = "head"
      /\ \A k \in 2..Len(upstream[i].got) : upstream[i].got[k] = k - 1

\* No bytes meant for one TLS flow reach another one, however late its upgrade
\* settles: a TLS flow is written to through its own TLS socket, which its close
\* and its abort take away (handleTlsHttpData).  Plain flows have no such socket.
TlsFlowsKeepApart == scheme = "https" => \A c \in heard : c[1] = c[2]

\* The bytes of a tunnel arrive whole, in order and at the flow they are for.
TunnelBytesInPlace == TunnelTypeOK /\ UpstreamGetsGuestBytes /\ TlsFlowsKeepApart
=============================================================================
