----------------------------- MODULE MCNetwork ------------------------------
(***************************************************************************)
(* The guest's network, component by component: its TCP flows, its HTTP     *)
(* exchanges on a host socket, its SSH commands, the policies and secrets   *)
(* of its requests, and its WebSocket upgrades.                             *)
(***************************************************************************)
EXTENDS Integers, Sequences, TLC, EgressPolicy, CredentialMediation, SshEgress,
        WebSocketTunnel

VARIABLES
  part,      \* the component that this behaviour is about
  tcp_setup, h, wire, toHost, tcp_guest,
  http_setup, link, channels, http_gen, batch, rxPaused, active, waiters, ex
-----------------------------------------------------------------------------
TcpBase == [conns |-> 1, guestBytes |-> 1, hostBytes |-> 3, rcvBuf |-> 2, stalls |-> 1, losses |-> 0,
            mapped |-> TRUE, rude |-> FALSE]

TcpSetups ==
  { TcpBase,
    [TcpBase EXCEPT !.rcvBuf = 3],
    [TcpBase EXCEPT !.guestBytes = 2, !.hostBytes = 1, !.losses = 1],
    [TcpBase EXCEPT !.hostBytes = 2, !.rude = TRUE],
    [TcpBase EXCEPT !.hostBytes = 1, !.rude = TRUE, !.conns = 2, !.stalls = 0],
    [TcpBase EXCEPT !.guestBytes = 2, !.mapped = FALSE, !.losses = 1] }

T == INSTANCE TcpFlow WITH
     Setups <- TcpSetups, MaxInFlight <- 3, Burst <- 1, TxMax <- 3,
     HighWater <- 1, LowWater <- 1, MaxPending <- 1, SniffLimit <- 2,
     MaxUnread <- 2, setup <- tcp_setup, guest <- tcp_guest

ASSUME T!FlowAssumption
-----------------------------------------------------------------------------
HttpBase == [limit |-> 2, detaches |-> 0, precheck |-> FALSE, mode |-> [u |-> "length", d |-> "length"],
             length |-> [u |-> 3, d |-> 0], extra |-> [u |-> 0, d |-> 0], answer |-> [u |-> 1, d |-> 2]]

\* An upload beside a download, with slots for both and for one of them; an
\* upload with bytes behind it and a lost socket; buffered requests with
\* policies, one slot and a lost socket.
HttpSetups ==
  { HttpBase,
    [HttpBase EXCEPT !.limit = 1],
    [HttpBase EXCEPT !.length.u = 1, !.extra.u = 1, !.answer = [u |-> 0, d |-> 1], !.detaches = 1],
    [HttpBase EXCEPT !.mode.u = "chunked", !.length = [u |-> 1, d |-> 1], !.limit = 1, !.precheck = TRUE,
                     !.detaches = 1] }

H == INSTANCE HttpExchange WITH
     Flows <- {"u", "d"}, Setups <- HttpSetups, PauseHigh <- 2,
     PauseLow <- 1, StreamMark <- 1, MaxPipeline <- 1, MaxRedirects <- 1,
     TxMark <- 1, MaxBatch <- 2, setup <- http_setup, gen <- http_gen

ASSUME H!ExchangeAssumption
-----------------------------------------------------------------------------
\* Three calls of the guest, two of them on one flow, to one host whose
\* known_hosts file revokes its old key.
Git == [host |-> "git", port |-> 22]
GitHosts == {Git}
CallFlow == [c \in {"c1", "c2", "c3"} |-> IF c = "c3" THEN "g" ELSE "f"]
FlowTarget == [f \in {"f", "g"} |-> Git]
GitKeys == <<[target |-> Git, key |-> "old", revoked |-> TRUE],
             [target |-> Git, key |-> "new", revoked |-> FALSE]>>
-----------------------------------------------------------------------------
\* Two secrets for two hosts, one of them internal; a policy and a callback that
\* rewrites; a fetch of the embedder's own, and secrets that share a value.
EgressBase == [value |-> ("a" :> "x") @@ ("b" :> "y"), hosts |-> ("a" :> {"h"}) @@ ("b" :> {"h", "k"}),
               allowed |-> {"h", "k"}, inside |-> {"k"}, query |-> FALSE, refused |-> {},
               rewrites |-> FALSE, ownFetch |-> FALSE]

EgressSetups ==
  { EgressBase,
    [EgressBase EXCEPT !.rewrites = TRUE, !.refused = {"k"}],
    [EgressBase EXCEPT !.value = [s \in {"a", "b"} |-> "x"], !.query = TRUE, !.ownFetch = TRUE] }

\* The guest puts a placeholder or a value it learned into one field or none.
EgressRequests ==
  LET token == [kind : {"ref"}, of : {"a", "b"}] \cup [kind : {"value"}, of : {"x", "y"}]
      plain == [auth |-> [kind |-> "none", of |-> "-"], header |-> [kind |-> "none", of |-> "-"],
                query |-> [kind |-> "none", of |-> "-"]]
      heads == {plain} \cup {[plain EXCEPT ![f] = t] : f \in DOMAIN plain, t \in token} IN
  {[host |-> to, post |-> p, auth |-> r.auth, header |-> r.header, query |-> r.query]
     : to \in {"h", "k"}, p \in BOOLEAN, r \in heads}

-----------------------------------------------------------------------------
\* A credential for one origin that redirects to another, which is granted too:
\* with a second credential that is short-lived; with methods the grant lacks; with
\* none and one origin; with a source file that holds its value.
Window(a, b) == [from |-> a, until |-> b]
Always == Window(0, MaxClock + 1)
Cred(v, l, o, ms, w) == [value |-> v, label |-> l, origin |-> o, methods |-> ms, window |-> w]
Both == {"GET", "POST"}

CredOffers ==
  { Cred("s", "c", "o1", Both, Always), Cred("t", "c", "o1", {"GET"}, Window(0, 1)),
    Cred("t", "d", "o2", Both, Always) }

Rule(o, ms, r, i) == [origin |-> o, methods |-> ms, redirects |-> r, internal |-> i]
Projection(r, o, ms, w) == [reference |-> r, label |-> r, origin |-> o, methods |-> ms, window |-> w]

CredBase ==
  [rules |-> {Rule("o1", Both, "follow-authorized", FALSE), Rule("o2", {"GET"}, "same-origin", TRUE)},
   projections |-> {Projection("c", "o1", {"GET"}, Always)},
   ceiling |->
     [rules |-> {Rule("o1", Both, "follow-authorized", FALSE), Rule("o2", Both, "same-origin", TRUE)},
      projections |-> {Projection("c", "o1", Both, Always), Projection("d", "o2", {"GET"}, Always)}],
   plain |-> TRUE, noNetwork |-> FALSE, hasStore |-> TRUE, carries |-> {},
   initial |-> ("c" :> [cred |-> Cred("s", "c", "o1", Both, Always), revoked |-> FALSE, deleted |-> FALSE])
                 @@ ("d" :> Missing)]

CredTerms ==
  { [CredBase EXCEPT !.projections = @ \cup {Projection("d", "o2", {"GET"}, Window(0, 1))}, !.carries = {"t"}],
    [CredBase EXCEPT !.projections = {Projection("c", "o1", Both, Always)},
                     !.rules = {Rule("o1", {"GET"}, "deny", FALSE)}],
    [CredBase EXCEPT !.projections = {}, !.rules = {Rule("o1", {"GET"}, "same-origin", FALSE)},
                     !.carries = {"s"}],
    [CredBase EXCEPT !.carries = {"s"}] }
-----------------------------------------------------------------------------
(* One component moves in a behaviour; the others wait in an initial state. *)

TWaits == T!Init /\ tcp_setup = TcpBase
HWaits == H!Init /\ http_setup = HttpBase
SWaits == SshInit /\ policy
EWaits == Init /\ setup = EgressBase
WWaits == TunnelInit /\ scheme = "http"
CWaits == MediationInit /\ terms.rules # CredBase.rules /\ terms.carries = {}

NetInit ==
  \/ part = "tcp" /\ T!Init /\ HWaits /\ SWaits /\ EWaits /\ WWaits /\ CWaits
  \/ part = "http" /\ H!Init /\ TWaits /\ SWaits /\ EWaits /\ WWaits /\ CWaits
  \/ part = "ssh" /\ SshInit /\ TWaits /\ HWaits /\ EWaits /\ WWaits /\ CWaits
  \/ part = "egress" /\ Init /\ TWaits /\ HWaits /\ SWaits /\ WWaits /\ CWaits
  \/ part = "ws" /\ TunnelInit /\ TWaits /\ HWaits /\ SWaits /\ EWaits /\ CWaits
  \/ part = "cred" /\ MediationInit /\ TWaits /\ HWaits /\ SWaits /\ EWaits /\ WWaits

TVars == <<tcp_setup, h, wire, toHost, tcp_guest>>
HVars == <<http_setup, link, channels, http_gen, batch, rxPaused, active,
            waiters, ex>>
TStep == part = "tcp" /\ T!Next /\ UNCHANGED <<part, HVars, sshVars, vars, tunnelVars, mediation>>
HStep == part = "http" /\ H!Next /\ UNCHANGED <<part, TVars, sshVars, vars, tunnelVars, mediation>>
SStep == part = "ssh" /\ SshNext /\ UNCHANGED <<part, TVars, HVars, vars, tunnelVars, mediation>>
EStep == part = "egress" /\ Next /\ UNCHANGED <<part, TVars, HVars, sshVars, tunnelVars, mediation>>
WStep == part = "ws" /\ TunnelNext /\ UNCHANGED <<part, TVars, HVars, sshVars, vars, mediation>>
CStep ==
  part = "cred" /\ MediationNext /\ UNCHANGED <<part, TVars, HVars, sshVars, vars, tunnelVars>>

NetNext == TStep \/ HStep \/ SStep \/ EStep \/ WStep \/ CStep

netVars == <<part, TVars, HVars, sshVars, vars, tunnelVars, mediation>>

NetSpec == NetInit /\ [][NetNext]_netVars
-----------------------------------------------------------------------------
(* Asked where their component moves: elsewhere it keeps its initial state. *)

\* A TCP flow whose sequence numbers stay below 2^32 gives its guest all that
\* upstream sent, never more than its buffer holds, and the end last; nothing
\* reaches another connection of the key, and upstream gets no byte twice, though
\* not always every one (network-stack.ts, net.ts).
TcpDelivers == part = "tcp" => T!TcpDelivers

\* HTTP exchanges: no upload is cut short unnoticed, a flow ends once and behind
\* its answer, slots and their holders agree, no operation of an older socket runs
\* beside a new one, and a paused socket can be resumed, unless the upload it is
\* paused for waits for slots whose holders wait for the guest (qemu/http.ts).
ExchangeInOrder == part = "http" => H!ExchangeInOrder

\* "Stop new work immediately and confirm bounded host HTTP settlement"
\* (http/utils.ts): a settlement fails only for a hook that does not return.
SettlementFailsForHooksOnly == H!SettlementFailsForHooksOnly
=============================================================================
