--------------------------- MODULE EgressPolicy ---------------------------
(***************************************************************************)
(* What may leave for which host: the hooks made by createHttpHooks        *)
(* (src/host/src/http/hooks.ts), the secrets they put in place of the      *)
(* guest's placeholders, and the policies every hop of a request passes    *)
(* before it is fetched (src/host/src/qemu/http.ts, src/host/src/http/     *)
(* utils.ts).  The host may rotate, restrict or delete a secret while a    *)
(* request awaits its policies, its answer or its next hop.                *)
(*                                                                         *)
(* A request is its origin and three fields that can carry a secret: the   *)
(* authorization header, some other header and the query.  A field holds   *)
(* nothing, a placeholder or a value; encodings (base64, percent) and the  *)
(* position of a value in a string are left out.                           *)
(***************************************************************************)
EXTENDS Naturals

CONSTANTS Secrets, Hosts, Values,
          Addresses, Internal,  \* what DNS may answer, and the private part
          Setups,               \* see below
          GuestRequests,        \* what the guest may send
          MaxRedirects,         \* MAX_HTTP_REDIRECTS
          MaxUpdates            \* bound: changes of the secrets

\* A setup is what createHttpHooks is given:
\*   value, hosts   the secrets
\*   allowed, inside   allowedHosts (merged) and allowedInternalHosts
\*   query      replaceSecretsInQuery
\*   refused    hosts that isRequestAllowed denies
\*   rewrites   is there an onRequest callback?
\*   ownFetch   does the embedder fetch, without the guarded lookup?
\* (EgressAssumption, below, gives their types.)

VARIABLES setup,
          value, hosts, revoked, deleted,  \* the SecretEntry records
          updates,
          phase,     \* where the request stands
          pending,   \* the request before this hop's hooks
          req,       \* and after them
          streamed,  \* does its body come as a stream?
          checked,   \* policyCheckedFirstHop
          hop,       \* redirectCount
          address,   \* where the fetch connected
          approved   \* history: the last head that passed the policies

secrets == <<value, hosts, revoked, deleted, updates>>
vars == <<setup, secrets, phase, pending, req, streamed, checked, hop, address,
          approved>>

None == [kind |-> "none", of |-> "-"]
Ref(s) == [kind |-> "ref", of |-> s]
Val(v) == [kind |-> "value", of |-> v]
Tokens == {None} \cup {Ref(s) : s \in Secrets} \cup {Val(v) : v \in Values}
Requests == [host : Hosts, post : BOOLEAN,
             auth : Tokens, header : Tokens, query : Tokens]
NoRequest == [host |-> "-", post |-> FALSE,
              auth |-> None, header |-> None, query |-> None]

ASSUME EgressAssumption ==
  /\ Internal \subseteq Addresses
  /\ Setups \subseteq [value : [Secrets -> Values], hosts : [Secrets -> SUBSET Hosts],
                     allowed : SUBSET Hosts, inside : SUBSET Hosts,
                     query : BOOLEAN, refused : SUBSET Hosts,
                     rewrites : BOOLEAN, ownFetch : BOOLEAN]
  /\ GuestRequests \subseteq Requests
  /\ MaxRedirects \in Nat /\ MaxUpdates \in Nat

TypeOK ==
  /\ setup \in Setups
  /\ value \in [Secrets -> Values] /\ hosts \in [Secrets -> SUBSET Hosts]
  /\ revoked \in [Secrets -> SUBSET Values] /\ deleted \in SUBSET Secrets
  /\ updates \in 0..MaxUpdates
  /\ phase \in {"idle", "precheck", "hook", "policy", "fetch", "wire", "over"}
  /\ {pending, req, approved} \subseteq Requests \cup {NoRequest}
  /\ streamed \in BOOLEAN /\ checked \in BOOLEAN
  /\ hop \in 0..MaxRedirects
  /\ address \in Addresses \cup {"-"}

Init ==
  /\ setup \in Setups
  /\ value = setup.value /\ hosts = setup.hosts
  /\ revoked = [s \in Secrets |-> {}] /\ deleted = {}
  /\ updates = 0
  /\ phase = "idle" /\ pending = NoRequest /\ req = NoRequest
  /\ streamed = FALSE /\ checked = FALSE /\ hop = 0
  /\ address = "-" /\ approved = NoRequest

-----------------------------------------------------------------------------
(* The secret manager.                                                     *)

\* updateSecret with a new value: the old one is revoked, the new one is not.
Rotate(s, v) ==
  /\ updates < MaxUpdates /\ s \notin deleted /\ v # value[s]
  /\ value' = [value EXCEPT ![s] = v]
  /\ revoked' = [revoked EXCEPT ![s] = (@ \cup {value[s]}) \ {v}]
  /\ updates' = updates + 1
  /\ UNCHANGED <<setup, hosts, deleted, phase, pending, req, streamed, checked,
                 hop, address, approved>>

\* updateSecret with new hosts.
ChangeHosts(s, to) ==
  /\ updates < MaxUpdates /\ s \notin deleted /\ to # hosts[s]
  /\ hosts' = [hosts EXCEPT ![s] = to]
  /\ updates' = updates + 1
  /\ UNCHANGED <<setup, value, revoked, deleted, phase, pending, req, streamed,
                 checked, hop, address, approved>>

DeleteSecret(s) ==
  /\ updates < MaxUpdates /\ s \notin deleted
  /\ deleted' = deleted \cup {s}
  /\ updates' = updates + 1
  /\ UNCHANGED <<setup, value, hosts, revoked, phase, pending, req, streamed,
                 checked, hop, address, approved>>

-----------------------------------------------------------------------------
(* The policies.                                                           *)

\* isIpAllowed: the host list, then the internal ranges.
IpAllowed(h, ip) ==
  /\ h \in setup.allowed
  /\ ip \in Internal => h \in setup.inside

RequestAllowed(r) == r.host \notin setup.refused

\* ensureRequestAllowed and ensureIpAllowed with what DNS answers now.
PoliciesAllow(r, answers) ==
  RequestAllowed(r) /\ \E ip \in answers : IpAllowed(r.host, ip)

Over == phase' = "over"

\* The guest sends a request; without an onRequest callback of the embedder
\* its head passes the policies before its body is read.
Send(r, stream) ==
  /\ phase = "idle"
  /\ stream => r.post
  /\ pending' = r /\ streamed' = stream
  /\ phase' = IF setup.rewrites THEN "hook" ELSE "precheck"
  /\ UNCHANGED <<setup, secrets, req, checked, hop, address, approved>>

Precheck(answers) ==
  /\ phase = "precheck"
  /\ IF PoliciesAllow(pending, answers)
     THEN phase' = "hook" /\ checked' = TRUE /\ approved' = pending
     ELSE Over /\ UNCHANGED <<checked, approved>>
  /\ UNCHANGED <<setup, secrets, pending, req, streamed, hop, address>>

-----------------------------------------------------------------------------
(* onRequest: the embedder's callback, then the secrets.                   *)

\* The fields that are searched for values and placeholders.
Fields == {"auth", "header"} \cup (IF setup.query THEN {"query"} ELSE {})

\* assertSecretValuesAllowedForHost.
Forbidden(s, v, h) ==
  \/ v \in revoked[s]
  \/ v = value[s] /\ (s \in deleted \/ h \notin hosts[s])

\* a bug: only the values of secrets that are still there are looked for
CarriesForbiddenLive(r) ==
  \E s \in Secrets \ deleted, f \in Fields :
    r[f].kind = "value" /\ Forbidden(s, r[f].of, r.host)

CarriesForbidden(r) ==
  \E s \in Secrets, f \in Fields :
    r[f].kind = "value" /\ Forbidden(s, r[f].of, r.host)

\* assertSecretAllowedForHost, for each placeholder that is replaced.
Refuses(r) ==
  \E f \in Fields : /\ r[f].kind = "ref"
                    /\ r[f].of \notin deleted
                    /\ r.host \notin hosts[r[f].of]

\* applySecretReplacements: a deleted secret leaves nothing behind.
Replaced(t) ==
  IF t.kind # "ref" THEN t
  ELSE IF t.of \in deleted THEN None ELSE Val(value[t.of])

WithSecrets(r) ==
  [f \in DOMAIN r |-> IF f \in Fields THEN Replaced(r[f]) ELSE r[f]]

\* What the embedder's callback may make of a request: another host or header.
Rewritten(r) ==
  IF ~setup.rewrites THEN {r}
  ELSE {r} \cup {[r EXCEPT !.host = h] : h \in Hosts}
           \cup {[r EXCEPT !.header = t] : t \in {Ref(s) : s \in Secrets}}

\* The callback may also answer by itself.
ShortCircuit ==
  /\ phase = "hook" /\ setup.rewrites
  /\ Over
  /\ UNCHANGED <<setup, secrets, pending, req, streamed, checked, hop, address,
                 approved>>

ApplyHooks ==
  /\ phase = "hook"
  /\ \E r \in Rewritten(pending) :
       IF CarriesForbidden(r) \/ Refuses(r)
       THEN Over /\ UNCHANGED req
       ELSE phase' = "policy" /\ req' = WithSecrets(r)
  /\ UNCHANGED <<setup, secrets, pending, streamed, checked, hop, address,
                 approved>>

-----------------------------------------------------------------------------
(* The hop.                                                                *)

\* a bug: the redirected request counts as checked
CanSkipRedirect == checked /\ pending = req

\* canSkipFirstHopPolicyChecks.
CanSkip == hop = 0 /\ checked /\ pending = req

CheckPolicies(answers) ==
  /\ phase = "policy"
  /\ IF CanSkip THEN phase' = "fetch" /\ UNCHANGED approved
     ELSE IF PoliciesAllow(req, answers) THEN phase' = "fetch" /\ approved' = req
     ELSE Over /\ UNCHANGED approved
  /\ UNCHANGED <<setup, secrets, pending, req, streamed, checked, hop, address>>

\* The fetch: the default one connects to an address createLookupGuard allows.
Connect(ip) ==
  /\ phase = "fetch"
  /\ IF setup.ownFetch \/ IpAllowed(req.host, ip)
     THEN phase' = "wire" /\ address' = ip
     ELSE Over /\ UNCHANGED address
  /\ UNCHANGED <<setup, secrets, pending, req, streamed, checked, hop, approved>>

\* applyRedirectRequest: no credentials for another origin.  The location is
\* the upstream's choice, and may repeat what it was sent.
Redirected(h, query, keepsMethod) ==
  [host |-> h, post |-> req.post /\ keepsMethod, header |-> req.header,
   auth |-> IF h = req.host THEN req.auth ELSE None, query |-> query]

Redirect(h, query, keepsMethod) ==
  /\ phase = "wire"
  /\ query \in {None, req.auth, req.header, req.query}
  /\ IF hop = MaxRedirects \/ (streamed /\ keepsMethod)
     THEN Over /\ UNCHANGED <<pending, streamed, hop>>
     ELSE /\ pending' = Redirected(h, query, keepsMethod)
          /\ streamed' = FALSE /\ hop' = hop + 1 /\ phase' = "hook"
  /\ UNCHANGED <<setup, secrets, req, checked, address, approved>>

\* isRedirectAllowed denies it, or the answer is no redirect.
Answered ==
  /\ phase = "wire"
  /\ Over
  /\ UNCHANGED <<setup, secrets, pending, req, streamed, checked, hop, address,
                 approved>>

Next ==
  \/ \E s \in Secrets, v \in Values : Rotate(s, v)
  \/ \E s \in Secrets, to \in SUBSET Hosts : ChangeHosts(s, to)
  \/ \E s \in Secrets : DeleteSecret(s)
  \/ \E r \in GuestRequests, stream \in BOOLEAN : Send(r, stream)
  \/ \E answers \in SUBSET Addresses : Precheck(answers)
  \/ ShortCircuit
  \/ ApplyHooks
  \/ \E answers \in SUBSET Addresses : CheckPolicies(answers)
  \/ \E ip \in Addresses : Connect(ip)
  \/ \E h \in Hosts, query \in Tokens, keepsMethod \in BOOLEAN :
       Redirect(h, query, keepsMethod)
  \/ Answered

Spec == Init /\ [][Next]_vars

-----------------------------------------------------------------------------
(* Properties.                                                             *)

\* However the secrets are rotated, restricted and deleted while a request
\* and its redirects are under way, a hop leaves the hooks with a value some
\* secret has or had only if a secret that is still there has that value and
\* may be sent to the hop's host (assertSecretValuesAllowedForHost, lines
\* 533-608; applySecretReplacements, 1012-1040).
Known(v) ==
  \E s \in Secrets : v \in {setup.value[s], value[s]} \cup revoked[s]
Granted(v, h) ==
  \E s \in Secrets \ deleted : value[s] = v /\ h \in hosts[s]

SecretsOnlyToTheirHosts ==
  [][phase = "hook" /\ phase' = "policy" =>
       \A f \in Fields : req'[f].kind = "value" /\ Known(req'[f].of)
                           => Granted(req'[f].of, req'.host)]_vars

\* Every hop that is on the wire, redirected or rewritten, has exactly the
\* head that passed the policies last, and the default fetch has connected it
\* to an address its host may have ("each redirect target is re-validated
\* against policy", docs/network.md:284; lines 1395-1421, 2209-2315).
EveryHopApproved ==
  phase = "wire" => /\ approved = req
                    /\ setup.ownFetch \/ IpAllowed(req.host, address)
=============================================================================
