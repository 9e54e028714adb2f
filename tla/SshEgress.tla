----------------------------- MODULE SshEgress -----------------------------
(***************************************************************************)
(* SSH from the guest to allow-listed hosts (src/host/src/qemu/ssh.ts).    *)
(* A guest flow to an SSH port is terminated by a proxy of its own; every  *)
(* exec channel the guest opens on it is bridged to an upstream SSH        *)
(* connection with the host's credential or agent.  The bridge awaits the  *)
(* exec policy, the handshake and the upstream channel, and meanwhile the  *)
(* guest may close the channel or the flow, and reuse its ports.           *)
(*                                                                         *)
(* The bytes of a command and the SSH protocol itself are left out; ssh2   *)
(* is modelled by the events this file listens to.                         *)
(***************************************************************************)
EXTENDS FiniteSets, Naturals

CONSTANTS SshFlows,        \* guest flows, by their 4-tuple key
          Calls,        \* exec requests of the guest
          FlowOf,       \* the flow a call is made on
          Target,       \* the [host, port] a flow goes to
          Allowed,      \* ssh.allowedHosts
          Credentials,  \* the targets there is a private key for
          Agent,        \* is there an ssh-agent?
          HostKeys,     \* keys an upstream host may show
          KnownHosts,   \* known_hosts: a sequence of [target, key, revoked]
          MaxPerFlow,   \* maxUpstreamConnectionsPerTcpSession
          MaxTotal,     \* maxUpstreamConnectionsTotal
          MaxGen        \* bound: how often a flow's key is used

\* What createQemuSshInternals and assertSshDnsConfig check at the start.
SettingsChecked ==
  /\ MaxPerFlow \in Nat \ {0}
  /\ MaxTotal \in Nat \ {0}
  /\ Allowed # {} => Agent \/ Credentials # {}

ASSUME SshAssumption ==
  SettingsChecked /\ FlowOf \in [Calls -> SshFlows] /\ MaxGen \in Nat

VARIABLES policy,    \* is there an execPolicy callback?
          open,      \* is there a TCP session under the key?
          gen,       \* how many sessions the key has had
          of,        \* the session of its flow's key a call belongs to
          bridging,  \* where bridgeSshExecChannel stands
          guest,     \* the call's channel to the guest
          up,        \* its upstream SshClient
          wired,     \* the upstream's error handlers are attached
          counted,   \* backend.ssh.upstreams
          held       \* the proxies' upstreams sets, together

sshVars == <<policy, open, gen, of, bridging, guest, up, wired, counted, held>>

Live == {"dialing", "ready"}    \* an upstream nobody has ended

SshTypeOK ==
  /\ policy \in BOOLEAN
  /\ open \in [SshFlows -> BOOLEAN] /\ gen \in [SshFlows -> 0..MaxGen]
  /\ of \in [Calls -> 0..MaxGen]
  /\ bridging \in [Calls -> {"idle", "policy", "dial", "channel", "run", "over"}]
  /\ guest \in [Calls -> {"none", "open", "closed"}]
  /\ up \in [Calls -> Live \cup {"none", "ending", "closed"}]
  /\ wired \in SUBSET Calls /\ counted \in SUBSET Calls /\ held \in SUBSET Calls

SshInit ==
  /\ policy \in BOOLEAN
  /\ open = [f \in SshFlows |-> FALSE] /\ gen = [f \in SshFlows |-> 0]
  /\ of = [c \in Calls |-> 0]
  /\ bridging = [c \in Calls |-> "idle"]
  /\ guest = [c \in Calls |-> "none"]
  /\ up = [c \in Calls |-> "none"]
  /\ wired = {} /\ counted = {} /\ held = {}

\* The calls of a session, and those whose upstream its proxy holds.
CallsOf(f, g) == {c \in Calls : FlowOf[c] = f /\ of[c] = g /\ bridging[c] # "idle"}
HeldBy(f, g) == CallsOf(f, g) \cap held

-----------------------------------------------------------------------------
(* The flow.                                                               *)

\* isSshFlowAllowed: an allow-listed target that the host can log in to.
FlowAllowed(f) == Target[f] \in Allowed /\ (Target[f] \in Credentials \/ Agent)

Accept(f) ==
  /\ ~open[f] /\ gen[f] < MaxGen /\ FlowAllowed(f)
  /\ open' = [open EXCEPT ![f] = TRUE]
  /\ gen' = [gen EXCEPT ![f] = @ + 1]
  /\ UNCHANGED <<policy, of, bridging, guest, up, wired, counted, held>>

\* closeSshProxySession: every upstream the proxy holds is ended, and the
\* guest's channels go with the proxy's stream.
\* a bug: only the guest's side is closed
CloseProxyKeepsUpstreams(f, g) ==
  /\ UNCHANGED <<up, counted, held>>
  /\ guest' = [c \in Calls |->
                 IF c \in CallsOf(f, g) THEN "closed" ELSE guest[c]]

CloseProxy(f, g) ==
  /\ up' = [c \in Calls |->
              IF c \in HeldBy(f, g) /\ up[c] \in Live THEN "ending" ELSE up[c]]
  /\ counted' = counted \ HeldBy(f, g)
  /\ held' = held \ HeldBy(f, g)
  /\ guest' = [c \in Calls |->
                 IF c \in CallsOf(f, g) THEN "closed" ELSE guest[c]]

\* handleTcpClose: the guest ends or resets the flow.
CloseFlow(f) ==
  /\ open[f]
  /\ open' = [open EXCEPT ![f] = FALSE]
  /\ CloseProxy(f, gen[f])
  /\ UNCHANGED <<policy, gen, of, bridging, wired>>

-----------------------------------------------------------------------------
(* bridgeSshExecChannel.                                                   *)

\* The catch clause of the exec handler: a message, exit 255, close.
Fail(c) ==
  /\ bridging' = [bridging EXCEPT ![c] = "over"]
  /\ guest' = [guest EXCEPT ![c] = "closed"]

WithinLimits(c) ==
  /\ Cardinality(HeldBy(FlowOf[c], of[c])) < MaxPerFlow
  /\ Cardinality(counted) < MaxTotal

\* After the policy: the limits, the upstream client and its listeners.
Dial(c) ==
  /\ bridging' = [bridging EXCEPT ![c] = "dial"]
  /\ up' = [up EXCEPT ![c] = "dialing"]
  /\ counted' = counted \cup {c}
  /\ held' = held \cup {c}
  /\ UNCHANGED guest

Bridge(c) ==
  \/ WithinLimits(c) /\ Dial(c)
  \/ ~WithinLimits(c) /\ Fail(c) /\ UNCHANGED <<up, counted, held>>

\* The guest asks for a command: the policy decides first, if there is one.
AskPolicy(c) ==
  /\ bridging[c] = "idle" /\ open[FlowOf[c]] /\ policy
  /\ of' = [of EXCEPT ![c] = gen[FlowOf[c]]]
  /\ bridging' = [bridging EXCEPT ![c] = "policy"]
  /\ guest' = [guest EXCEPT ![c] = "open"]
  /\ UNCHANGED <<policy, open, gen, up, wired, counted, held>>

Permit(c) ==
  /\ bridging[c] = "policy"
  /\ Bridge(c)
  /\ UNCHANGED <<policy, open, gen, of, wired>>

Deny(c) ==
  /\ bridging[c] = "policy"
  /\ Fail(c)
  /\ UNCHANGED <<policy, open, gen, of, up, wired, counted, held>>

\* Without a policy nothing is awaited before the dial.
ExecAtOnce(c) ==
  /\ bridging[c] = "idle" /\ open[FlowOf[c]] /\ ~policy
  /\ of' = [of EXCEPT ![c] = gen[FlowOf[c]]]
  /\ LET f == FlowOf[c]
         fits == /\ Cardinality(HeldBy(f, gen[f])) < MaxPerFlow
                 /\ Cardinality(counted) < MaxTotal
     IN IF fits
        THEN /\ bridging' = [bridging EXCEPT ![c] = "dial"]
             /\ guest' = [guest EXCEPT ![c] = "open"]
             /\ up' = [up EXCEPT ![c] = "dialing"]
             /\ counted' = counted \cup {c}
             /\ held' = held \cup {c}
        ELSE Fail(c) /\ UNCHANGED <<up, counted, held>>
  /\ UNCHANGED <<policy, open, gen, wired>>

\* The verifier made of known_hosts: the first line for the host that has the
\* key decides.
Verified(target, key) ==
  LET lines == {i \in DOMAIN KnownHosts : /\ KnownHosts[i].target = target
                                          /\ KnownHosts[i].key = key}
  IN \E i \in lines : (\A j \in lines : i <= j) /\ ~KnownHosts[i].revoked

Ready(c) ==
  /\ bridging[c] = "dial" /\ up[c] = "dialing"
  /\ \E key \in HostKeys : Verified(Target[FlowOf[c]], key)
  /\ bridging' = [bridging EXCEPT ![c] = "channel"]
  /\ up' = [up EXCEPT ![c] = "ready"]
  /\ UNCHANGED <<policy, open, gen, of, guest, wired, counted, held>>

\* A refused host key, an error, a timeout, no channel: the upstream is ended.
BridgeFails(c) ==
  /\ bridging[c] \in {"dial", "channel"} /\ up[c] \in Live
  /\ Fail(c)
  /\ up' = [up EXCEPT ![c] = "ending"]
  /\ counted' = counted \ {c}
  /\ held' = held \ {c}
  /\ UNCHANGED <<policy, open, gen, of, wired>>

\* The command runs upstream: from here its events reach the guest.
Started(c) ==
  /\ bridging[c] = "channel" /\ up[c] = "ready"
  /\ bridging' = [bridging EXCEPT ![c] = "run"]
  /\ wired' = wired \cup {c}
  /\ UNCHANGED <<policy, open, gen, of, guest, up, counted, held>>

-----------------------------------------------------------------------------
(* Events of the two ends.                                                 *)

\* The guest closes the channel; the listener is there once the dial began.
GuestCloses(c) ==
  /\ guest[c] = "open"
  /\ open[FlowOf[c]] /\ of[c] = gen[FlowOf[c]]
  /\ guest' = [guest EXCEPT ![c] = "closed"]
  /\ up' = [up EXCEPT ![c] = IF @ \in Live THEN "ending" ELSE @]
  /\ UNCHANGED <<policy, open, gen, of, bridging, wired, counted, held>>

\* The upstream channel closes: the command is over.
CommandEnds(c) ==
  /\ bridging[c] = "run" /\ up[c] = "ready"
  /\ Fail(c)
  /\ up' = [up EXCEPT ![c] = "ending"]
  /\ counted' = counted \ {c}
  /\ held' = held \ {c}
  /\ UNCHANGED <<policy, open, gen, of, wired>>

\* 'close' of the upstream client, and what still waited for it.
UpstreamCloses(c) ==
  /\ up[c] \in {"ready", "ending"}
  /\ up' = [up EXCEPT ![c] = "closed"]
  /\ counted' = counted \ {c}
  /\ held' = held \ {c}
  /\ IF bridging[c] = "over" THEN UNCHANGED <<bridging, guest>> ELSE Fail(c)
  /\ UNCHANGED <<policy, open, gen, of, wired>>

\* 'error' of an upstream that ran: abortTcpSession of the key, with the
\* session the call belonged to.
UpstreamFails(c) ==
  LET f == FlowOf[c] IN
  /\ c \in wired /\ up[c] \in {"ready", "ending"}
  /\ IF open[f] /\ of[c] = gen[f] THEN CloseProxy(f, gen[f])
                                  ELSE UNCHANGED <<up, counted, held, guest>>
  /\ open' = [open EXCEPT ![f] = FALSE]
  /\ UNCHANGED <<policy, gen, of, bridging, wired>>

SshNext ==
  \/ \E f \in SshFlows : Accept(f) \/ CloseFlow(f)
  \/ \E c \in Calls : \/ AskPolicy(c) \/ Permit(c) \/ Deny(c) \/ ExecAtOnce(c)
                      \/ Ready(c) \/ BridgeFails(c) \/ Started(c)
                      \/ GuestCloses(c) \/ CommandEnds(c)
                      \/ UpstreamCloses(c) \/ UpstreamFails(c)

SshSpec == SshInit /\ [][SshNext]_sshVars

-----------------------------------------------------------------------------
(* Properties.                                                             *)

\* However the calls of a flow overlap while their policies, handshakes and
\* channels are awaited, every upstream connection nobody has ended is
\* counted, and the counts stay within the two limits (lines 674-691).
UpstreamsWithinLimits ==
  /\ \A c \in Calls : up[c] \in Live => c \in counted
  /\ Cardinality(counted) <= MaxTotal
  /\ \A f \in SshFlows, g \in 0..MaxGen : Cardinality(HeldBy(f, g)) <= MaxPerFlow

\* Whatever closes a guest's channel while its upstream connection is there
\* (the guest, the flow's end, the command's end, an error of a sibling) ends
\* that connection in the same step (lines 401-434, 722-734, 797-809).
GuestLeavesUpstreamEnds ==
  [][\A c \in Calls : guest[c] = "open" /\ guest'[c] = "closed"
                        => up'[c] \notin Live]_sshVars

\* Upstream connections stay within their limits and end with their channels.
UpstreamsHeldToTheirGuests == []UpstreamsWithinLimits /\ GuestLeavesUpstreamEnds
=============================================================================
