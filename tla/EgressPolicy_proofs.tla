------------------------ MODULE EgressPolicy_proofs ------------------------
(***************************************************************************)
(* No hop leaves with a secret that its host may not have, and no hop is   *)
(* on the wire with a head its policies have not passed, for every set of  *)
(* secrets, hosts and addresses and any number of changes and redirects.   *)
(*                                                                         *)
(* Both rest on what the code remembers: a value that a secret was created *)
(* with is still its value or among its revoked ones, and a first hop that *)
(* was checked before its body was read was checked with the head that is  *)
(* still pending.                                                          *)
(*                                                                         *)
(* Below: no hop of an invocation with credentials leaves its mediator with *)
(* a value that its grant does not cover; the upstream SSH connections of  *)
(* the guest stay within their limits and end with their channels; and the *)
(* bytes of its WebSocket tunnels arrive whole, in order and in their flow. *)
(***************************************************************************)
EXTENDS EgressPolicy, CredentialMediation, SshEgress, WebSocketTunnel, FiniteSetTheorems,
        TLAPS

\* A value that was ever replaced is still looked for.
OldValuesRevoked ==
  \A s \in Secrets : setup.value[s] \in {value[s]} \cup revoked[s]

\* What the early check of a first hop has seen.
EarlyCheckStands ==
  /\ phase \in {"idle", "precheck"} => ~checked
  /\ phase \in {"hook", "policy"} /\ hop = 0 /\ checked => approved = pending

\* What the check of a hop has seen, and where the fetch went.
HopStands ==
  /\ phase \in {"fetch", "wire"} => approved = req
  /\ phase = "wire" => setup.ownFetch \/ IpAllowed(req.host, address)

\* Where there is a request to be hooked or to be sent.
HeadsThere ==
  /\ phase \in {"precheck", "hook"} => pending \in Requests
  /\ phase \in {"policy", "fetch", "wire"} => req \in Requests

IInv == TypeOK /\ HeadsThere /\ OldValuesRevoked /\ EarlyCheckStands /\ HopStands

-----------------------------------------------------------------------------
(* Requests and what the hooks make of them. *)

LEMMA TokenKinds ==
  ASSUME NEW t \in Tokens
  PROVE  \/ t = None /\ t.kind = "none"
         \/ \E s \in Secrets : t = Ref(s) /\ t.kind = "ref" /\ t.of = s
         \/ \E v \in Values : t = Val(v) /\ t.kind = "value" /\ t.of = v
BY DEF Tokens, None, Ref, Val

LEMMA ReplacedTokens ==
  ASSUME TypeOK, NEW t \in Tokens
  PROVE  Replaced(t) \in Tokens
BY TokenKinds DEF TypeOK, Replaced, Tokens

\* The hooks leave the shape, the host and the method of a request alone.
LEMMA WithSecretsShape ==
  ASSUME NEW r \in Requests
  PROVE  /\ WithSecrets(r).host = r.host /\ WithSecrets(r).post = r.post
         /\ WithSecrets(r).auth = Replaced(r.auth)
         /\ WithSecrets(r).header = Replaced(r.header)
         /\ WithSecrets(r).query
              = (IF setup.query THEN Replaced(r.query) ELSE r.query)
         /\ WithSecrets(r)
              = [host |-> WithSecrets(r).host, post |-> WithSecrets(r).post,
                 auth |-> WithSecrets(r).auth, header |-> WithSecrets(r).header,
                 query |-> WithSecrets(r).query]
<1>1. DOMAIN r = {"host", "post", "auth", "header", "query"}
  BY DEF Requests
<1>2. QED BY <1>1 DEF WithSecrets, Fields

LEMMA WithSecretsTypes ==
  ASSUME TypeOK, NEW r \in Requests
  PROVE  WithSecrets(r) \in Requests
<1>1. /\ Replaced(r.auth) \in Tokens /\ Replaced(r.header) \in Tokens
      /\ Replaced(r.query) \in Tokens /\ r.query \in Tokens
  BY ReplacedTokens DEF Requests
<1>2. r.host \in Hosts /\ r.post \in BOOLEAN
  BY DEF Requests
<1>3. QED BY <1>1, <1>2, WithSecretsShape DEF Requests

LEMMA RewrittenTypes ==
  ASSUME NEW r \in Requests, NEW w \in Rewritten(r)
  PROVE  w \in Requests
BY DEF Rewritten, Requests, Tokens

LEMMA RedirectedTypes ==
  ASSUME req \in Requests, NEW h \in Hosts, NEW query \in Tokens,
         NEW keepsMethod \in BOOLEAN
  PROVE  Redirected(h, query, keepsMethod) \in Requests
BY DEF Redirected, Requests, Tokens

-----------------------------------------------------------------------------
(* The invariant. *)

LEMMA InitInvariant == ASSUME Init PROVE IInv
<1> USE EgressAssumption DEF Init
<1>1. /\ setup.value \in [Secrets -> Values]
      /\ setup.hosts \in [Secrets -> SUBSET Hosts]
  OBVIOUS
<1>2. revoked \in [Secrets -> SUBSET Values] /\ hop \in 0..MaxRedirects
      /\ updates \in 0..MaxUpdates
  OBVIOUS
<1>3. TypeOK
  BY <1>1, <1>2 DEF TypeOK
<1>4. QED BY <1>1, <1>2, <1>3 DEF IInv, HeadsThere, OldValuesRevoked, EarlyCheckStands, HopStands

\* The manager of the secrets does not touch the request.
LEMMA SecretsStep ==
  ASSUME IInv,
         \/ \E s \in Secrets, v \in Values : Rotate(s, v)
         \/ \E s \in Secrets, to \in SUBSET Hosts : ChangeHosts(s, to)
         \/ \E s \in Secrets : DeleteSecret(s)
  PROVE  IInv'
<1> USE DEF IInv
<1>1. TypeOK'
  BY EgressAssumption DEF TypeOK, Rotate, ChangeHosts, DeleteSecret
<1>2. OldValuesRevoked'
  BY DEF TypeOK, OldValuesRevoked, Rotate, ChangeHosts, DeleteSecret
<1>3. UNCHANGED <<setup, phase, pending, req, streamed, checked, hop, address,
                  approved>>
  BY DEF Rotate, ChangeHosts, DeleteSecret
<1>4. HeadsThere' /\ EarlyCheckStands' /\ HopStands'
  BY <1>3 DEF HeadsThere, EarlyCheckStands, HopStands, IpAllowed
<1>5. QED BY <1>1, <1>2, <1>4

LEMMA RequestStep ==
  ASSUME IInv,
         \/ \E r \in GuestRequests, stream \in BOOLEAN : Send(r, stream)
         \/ \E answers \in SUBSET Addresses : Precheck(answers)
         \/ ShortCircuit
         \/ ApplyHooks
         \/ \E answers \in SUBSET Addresses : CheckPolicies(answers)
         \/ \E ip \in Addresses : Connect(ip)
         \/ \E h \in Hosts, query \in Tokens, keepsMethod \in BOOLEAN :
              Redirect(h, query, keepsMethod)
         \/ Answered
  PROVE  IInv'
<1> USE DEF Over, secrets
<1>1. UNCHANGED <<setup, value, hosts, revoked, deleted, updates>>
  BY DEF Send, Precheck, ShortCircuit, ApplyHooks, CheckPolicies, Connect,
         Redirect, Answered
<1>2. OldValuesRevoked'
  BY <1>1 DEF IInv, OldValuesRevoked
<1> DEFINE Rest == TypeOK /\ HeadsThere /\ EarlyCheckStands /\ HopStands
<1> USE DEF IInv
<1>3. ASSUME NEW r \in GuestRequests, NEW stream \in BOOLEAN, Send(r, stream)
      PROVE  Rest'
  BY <1>3, EgressAssumption DEF Send, TypeOK, HeadsThere, EarlyCheckStands, HopStands
<1>4. ASSUME NEW answers \in SUBSET Addresses, Precheck(answers) PROVE Rest'
  BY <1>4 DEF Precheck, TypeOK, HeadsThere, EarlyCheckStands, HopStands
<1>5. ASSUME ShortCircuit \/ Answered PROVE Rest'
  BY <1>5 DEF ShortCircuit, Answered, TypeOK, HeadsThere, EarlyCheckStands, HopStands
<1>6. ASSUME ApplyHooks PROVE Rest'
  <2>1. CASE Over /\ UNCHANGED req
    <3>1. TypeOK'
      BY <1>1, <1>6, <2>1 DEF ApplyHooks, TypeOK
    <3>2. QED BY <2>1, <3>1 DEF HeadsThere, EarlyCheckStands, HopStands
  <2>2. ASSUME NEW r \in Rewritten(pending), phase' = "policy",
               req' = WithSecrets(r)
        PROVE  Rest'
    <3>1. req' \in Requests
      BY <1>6, <2>2, RewrittenTypes, WithSecretsTypes DEF ApplyHooks, HeadsThere
    <3>2. TypeOK'
      BY <1>1, <1>6, <2>2, <3>1 DEF ApplyHooks, TypeOK
    <3>3. QED BY <1>6, <2>2, <3>1, <3>2
              DEF ApplyHooks, HeadsThere, EarlyCheckStands, HopStands
  <2>3. QED BY <1>6, <2>1, <2>2 DEF ApplyHooks
<1>7. ASSUME NEW answers \in SUBSET Addresses, CheckPolicies(answers) PROVE Rest'
  <2>1. TypeOK'
    BY <1>1, <1>7 DEF CheckPolicies, TypeOK
  <2>2. CASE Over
    BY <2>1, <2>2 DEF HeadsThere, EarlyCheckStands, HopStands
  <2>3. CASE phase' = "fetch" /\ approved' = req
    BY <1>7, <2>1, <2>3 DEF CheckPolicies, HeadsThere, EarlyCheckStands, HopStands
  <2>4. CASE phase' = "fetch" /\ UNCHANGED approved /\ CanSkip
    BY <1>7, <2>1, <2>4
    DEF CheckPolicies, CanSkip, HeadsThere, EarlyCheckStands, HopStands
  <2>5. QED BY <1>7, <2>2, <2>3, <2>4 DEF CheckPolicies
<1>8. ASSUME NEW ip \in Addresses, Connect(ip) PROVE Rest'
  BY <1>8 DEF Connect, TypeOK, HeadsThere, EarlyCheckStands, HopStands, IpAllowed
<1>9. ASSUME NEW h \in Hosts, NEW query \in Tokens, NEW keepsMethod \in BOOLEAN,
             Redirect(h, query, keepsMethod)
      PROVE  Rest'
  <2>1. Redirected(h, query, keepsMethod) \in Requests
    BY <1>9, RedirectedTypes DEF Redirect, HeadsThere
  <2>2. CASE Over
    <3>1. TypeOK'
      BY <1>1, <1>9, <2>2 DEF Redirect, TypeOK
    <3>2. QED BY <2>2, <3>1 DEF HeadsThere, EarlyCheckStands, HopStands
  <2>3. CASE /\ pending' = Redirected(h, query, keepsMethod) /\ streamed' = FALSE
             /\ hop' = hop + 1 /\ phase' = "hook" /\ hop # MaxRedirects
    <3>1. hop' \in 0..MaxRedirects /\ hop' # 0
      BY <2>3, EgressAssumption DEF TypeOK
    <3>2. TypeOK'
      BY <1>1, <1>9, <2>1, <2>3, <3>1 DEF Redirect, TypeOK
    <3>3. QED BY <1>9, <2>1, <2>3, <3>1, <3>2
              DEF Redirect, HeadsThere, EarlyCheckStands, HopStands
  <2>4. QED BY <1>9, <2>2, <2>3 DEF Redirect
<1>10. Rest'
  BY <1>3, <1>4, <1>5, <1>6, <1>7, <1>8, <1>9
<1>11. QED BY <1>2, <1>10

LEMMA StepInvariant ==
  ASSUME IInv, [Next]_vars PROVE IInv'
<1>1. CASE Next
  BY <1>1, SecretsStep, RequestStep DEF Next
<1>2. CASE UNCHANGED vars
  BY <1>2 DEF vars, secrets, IInv, TypeOK, HeadsThere, OldValuesRevoked,
     EarlyCheckStands, HopStands, IpAllowed
<1>3. QED BY <1>1, <1>2

\* The inductive invariant of requests and secrets.
THEOREM Invariance == Spec => []IInv
<1>1. QED BY InitInvariant, StepInvariant, PTL DEF Spec

-----------------------------------------------------------------------------
(* The theorems. *)

\* Every hop on the wire, redirected or rewritten by the embedder, has the head
\* that passed the policies last, at an address its host may have.
THEOREM HopsAreApproved ==
  Spec => []EveryHopApproved
<1>1. IInv => EveryHopApproved
  BY DEF IInv, HopStands, EveryHopApproved
<1>2. QED BY <1>1, Invariance, PTL

\* What passes the two searches of the hooks carries granted values only.
LEMMA HooksGrant ==
  ASSUME IInv, NEW r \in Requests, ~CarriesForbidden(r), ~Refuses(r),
         NEW f \in Fields, WithSecrets(r)[f].kind = "value",
         Known(WithSecrets(r)[f].of)
  PROVE  Granted(WithSecrets(r)[f].of, WithSecrets(r).host)
<1> DEFINE h == r.host
<1>1. f \in {"auth", "header", "query"} /\ r[f] \in Tokens
  BY DEF Fields, Requests
<1>2. WithSecrets(r)[f] = Replaced(r[f]) /\ WithSecrets(r).host = h
  BY <1>1, WithSecretsShape DEF Fields
<1>3. ASSUME NEW s \in Secrets, r[f] = Ref(s), r[f].kind = "ref", r[f].of = s
      PROVE  Granted(WithSecrets(r)[f].of, WithSecrets(r).host)
  <2>1. s \notin deleted
    BY <1>2, <1>3 DEF Replaced, None
  <2>2. h \in hosts[s]
    BY <1>3, <2>1 DEF Refuses
  <2>3. WithSecrets(r)[f].of = value[s]
    BY <1>2, <1>3, <2>1 DEF Replaced, Val
  <2>4. QED BY <1>2, <2>1, <2>2, <2>3 DEF Granted
<1>4. ASSUME NEW v \in Values, r[f].kind = "value", r[f].of = v
      PROVE  Granted(WithSecrets(r)[f].of, WithSecrets(r).host)
  <2>1. WithSecrets(r)[f].of = v
    BY <1>2, <1>4 DEF Replaced
  <2>2. PICK s \in Secrets : v \in {setup.value[s], value[s]} \cup revoked[s]
    BY <2>1 DEF Known
  <2>3. ~Forbidden(s, v, h)
    BY <1>4 DEF CarriesForbidden
  <2>4. v = value[s]
    BY <2>2, <2>3 DEF IInv, OldValuesRevoked, Forbidden
  <2>5. s \notin deleted /\ h \in hosts[s]
    BY <2>3, <2>4 DEF Forbidden
  <2>6. QED BY <1>2, <2>1, <2>4, <2>5 DEF Granted
<1>5. CASE r[f] = None
  BY <1>2, <1>5 DEF Replaced, None
<1>6. QED BY <1>1, <1>3, <1>4, <1>5, TokenKinds

\* However the secrets change while the request and its redirects wait, a value
\* that some secret has or had leaves the hooks only for a host it is granted to.
THEOREM SecretsStayWithTheirHosts ==
  Spec => SecretsOnlyToTheirHosts
<1> DEFINE Leaves == phase = "hook" /\ phase' = "policy"
           Safe == \A f \in Fields :
                     req'[f].kind = "value" /\ Known(req'[f].of)
                       => Granted(req'[f].of, req'.host)
<1>1. ASSUME IInv, [Next]_vars, Leaves PROVE Safe
  <2>1. ApplyHooks
    BY <1>1 DEF Next, vars, Rotate, ChangeHosts, DeleteSecret, Send, Precheck,
       ShortCircuit, CheckPolicies, Connect, Redirect, Answered, Over
  <2>2. PICK r \in Rewritten(pending) :
          ~CarriesForbidden(r) /\ ~Refuses(r) /\ req' = WithSecrets(r)
    BY <1>1, <2>1 DEF ApplyHooks, Over
  <2>3. r \in Requests
    BY <1>1, <2>2, RewrittenTypes DEF IInv, HeadsThere
  <2>4. QED BY <1>1, <2>2, <2>3, HooksGrant
<1>2. IInv /\ [Next]_vars => [Leaves => Safe]_vars
  BY <1>1
<1>3. QED BY <1>2, Invariance, PTL DEF Spec, SecretsOnlyToTheirHosts

-----------------------------------------------------------------------------
(* Credentials: what the mediator leaves in a header *)

MInv == MediationTypeOK /\ HistoryComplete /\ RunsMediated /\ HookAllowed

LEMMA TermsTypes ==
  ASSUME MediationTypeOK
  PROVE  /\ terms \in TermsType
         /\ terms.projections \subseteq Projections
         /\ \A p \in terms.projections : p.reference \in References
         /\ terms.carries \subseteq SecretValues
  BY MediationAssumption DEF MediationTypeOK, TermsType, Projections

\* What a header may hold, by kind.
LEMMA AllTokenKinds ==
  ASSUME NEW t \in AllTokens
  PROVE  \/ t.kind = "placeholder" /\ \E r \in References : t = Placeholder(r)
         \/ t = Foreign /\ t.kind = "foreign"
         \/ t.kind = "value" /\ t.of \in SecretValues /\ t = Secret(t.of)
<1>1. CASE t = Foreign
  BY <1>1 DEF Foreign
<1>2. CASE t # Foreign
  BY <1>2 DEF AllTokens, Placeholder, Secret
<1>3. QED BY <1>1, <1>2

LEMMA HeldValues ==
  ASSUME MediationTypeOK, NEW r \in Held(entries)
  PROVE  /\ entries[r] \in Stored /\ entries[r].cred \in Trusted
         /\ entries[r].cred.value \in SecretValues
  BY DEF MediationTypeOK, Held, Stored, Trusted

LEMMA OwnersChosen ==
  ASSUME NEW vs, NEW owner \in Blamable(vs), NEW v \in vs
  PROVE  /\ owner[v] \in terms.projections
         /\ Owners(v) # {} => owner[v] \in Owners(v)
  BY DEF Blamable

LEMMA FirstProjects ==
  ASSUME terms.projections # {}
  PROVE  First \in terms.projections
  BY DEF First

LEMMA SearchedTypes ==
  ASSUME NEW tokens, NEW o, NEW m, NEW owner \in Blamable(Sensitive(Redeemed(tokens))),
         Redeemed(tokens) \subseteq AllTokens, NEW r \in Searched(tokens, owner, o, m)
  PROVE  /\ r.attempted \subseteq terms.projections
         /\ r.observed \subseteq terms.projections
         /\ r.denied \subseteq terms.projections
         /\ r.out \subseteq AllTokens
<1> DEFINE ps == InPlace(tokens)
           vs == Sensitive(Redeemed(tokens))
           bad == Misused(owner, vs, o, m)
<1>1. ps \subseteq terms.projections /\ bad \subseteq vs
  BY DEF InPlace, Misused
<1>2. ASSUME NEW some \in SUBSET vs
      PROVE  UsesOf(ps, {owner[v] : v \in some}) \subseteq terms.projections
  BY <1>1, OwnersChosen DEF UsesOf
<1>3. CASE bad = {}
  <2>1. r = Passed(Redeemed(tokens), ps, UsesOf(ps, {owner[v] : v \in vs}))
    BY <1>3 DEF Searched
  <2>2. QED BY <1>1, <1>2, <2>1 DEF Passed
<1>4. CASE bad # {}
  <2>1. PICK w \in bad :
          r \in {Rejected(ps, UsesOf(ps, {owner[v] : v \in before}), owner[w]) :
                   before \in SUBSET (vs \ bad)}
    BY <1>4 DEF Searched
  <2>2. PICK before \in SUBSET (vs \ bad) :
          r = Rejected(ps, UsesOf(ps, {owner[v] : v \in before}), owner[w])
    BY <2>1
  <2>3. owner[w] \in terms.projections
    BY <1>1, OwnersChosen
  <2>4. before \in SUBSET vs
    BY <1>1, <2>2
  <2>5. UsesOf(ps, {owner[v] : v \in before}) \subseteq terms.projections
    BY <1>2, <2>4
  <2>6. QED BY <1>1, <2>2, <2>3, <2>5 DEF Rejected
<1>5. QED BY <1>3, <1>4

LEMMA SearchedPasses ==
  ASSUME NEW tokens, NEW owner, NEW o, NEW m, NEW r \in Searched(tokens, owner, o, m),
         r.denied = {}
  PROVE  /\ \A v \in Sensitive(Redeemed(tokens)) : Owners(v) # {} /\ InScope(owner[v], o, m)
         /\ r.out = Redeemed(tokens) /\ InPlace(tokens) \subseteq r.observed
<1> DEFINE ps == InPlace(tokens)
           vs == Sensitive(Redeemed(tokens))
           bad == Misused(owner, vs, o, m)
<1>1. bad = {}
  <2>1. SUFFICES ASSUME bad # {} PROVE FALSE
    OBVIOUS
  <2>2. PICK w \in bad :
          r \in {Rejected(ps, UsesOf(ps, {owner[v] : v \in before}), owner[w]) :
                   before \in SUBSET (vs \ bad)}
    BY <2>1 DEF Searched
  <2>3. PICK before \in SUBSET (vs \ bad) :
          r = Rejected(ps, UsesOf(ps, {owner[v] : v \in before}), owner[w])
    BY <2>2
  <2>4. QED BY <2>3 DEF Rejected
<1>2. r = Passed(Redeemed(tokens), ps, UsesOf(ps, {owner[v] : v \in vs}))
  BY <1>1 DEF Searched
<1>3. QED BY <1>1, <1>2 DEF Misused, Passed, UsesOf

\* A header is refused with the projections it was found to use so far.
LEMMA RefusedTypes ==
  ASSUME NEW tokens, NEW o, NEW m, NEW r \in RefusedOnes(tokens, o, m)
  PROVE  /\ r.attempted \subseteq terms.projections
         /\ r.observed \subseteq terms.projections
         /\ r.denied \subseteq terms.projections /\ r.denied # {}
         /\ r.out = {}
<1>1. PICK p \in InPlace(tokens) \ Fit(tokens, o, m) :
        r \in {Rejected(before \cup {p}, before, p) : before \in SUBSET Fit(tokens, o, m)}
  BY DEF RefusedOnes
<1>2. PICK before \in SUBSET Fit(tokens, o, m) : r = Rejected(before \cup {p}, before, p)
  BY <1>1
<1>3. before \subseteq terms.projections /\ p \in terms.projections
  BY DEF Fit, InPlace
<1>4. QED BY <1>2, <1>3 DEF Rejected

\* What replaceValue records is about projections of the invocation.
LEMMA ReplacementTypes ==
  ASSUME MediationTypeOK, terms.projections # {}, NEW tokens \in SUBSET AllTokens,
         NEW o, NEW m, NEW r \in Replacements(tokens, o, m)
  PROVE  /\ r.attempted \subseteq terms.projections
         /\ r.observed \subseteq terms.projections
         /\ r.denied \subseteq terms.projections
         /\ r.out \subseteq AllTokens
<1> DEFINE ps == InPlace(tokens)
           out == Redeemed(tokens)
<1>1. ps \subseteq terms.projections
  BY DEF InPlace
<1>2. CASE Fit(tokens, o, m) # ps
  BY <1>2, RefusedTypes DEF Replacements
<1>3. CASE Fit(tokens, o, m) = ps /\ Foreign \in out
  <2>1. r = Rejected(ps, ps, First)
    BY <1>3 DEF Replacements
  <2>2. QED BY <1>1, <2>1, FirstProjects DEF Rejected
<1>4. CASE Fit(tokens, o, m) = ps /\ Foreign \notin out
  <2>1. PICK owner \in Blamable(Sensitive(out)) : r \in Searched(tokens, owner, o, m)
    BY <1>4 DEF Replacements
  <2>2. out \subseteq AllTokens
    <3>1. \A p \in ps : p.reference \in Held(entries)
      BY <1>4 DEF Fit, Redeemable
    <3>2. \A p \in ps : Secret(entries[p.reference].cred.value) \in AllTokens
      BY <3>1, HeldValues DEF AllTokens
    <3>3. QED BY <3>2 DEF Redeemed
  <2>3. QED BY <2>1, <2>2, SearchedTypes
<1>5. QED BY <1>2, <1>3, <1>4

\* A header that passes holds no placeholder; a value in it that the store has
\* or had is now that of a credential that is in scope, and of a live one if it
\* was put there.
LEMMA PassedHeader ==
  ASSUME MediationTypeOK, HistoryComplete, NEW tokens \in SUBSET AllTokens, NEW o, NEW m,
         NEW r \in Replacements(tokens, o, m), r.denied = {}, NEW t \in r.out
  PROVE  /\ t.kind = "value"
         /\ t \notin tokens => \E p \in InPlace(tokens) :
              Redeemable(p, o, m) /\ p \in r.observed /\ p \in Owners(t.of)
         /\ t.of \in history => \E p \in Owners(t.of) : InScope(p, o, m)
<1> DEFINE ps == InPlace(tokens)
           out == Redeemed(tokens)
<1>1. Fit(tokens, o, m) = ps
  BY RefusedTypes DEF Replacements
<1>2. Foreign \notin out
  BY <1>1 DEF Replacements, Rejected
<1>3. PICK owner \in Blamable(Sensitive(out)) : r \in Searched(tokens, owner, o, m)
  BY <1>1, <1>2 DEF Replacements
<1>4. \A v \in Sensitive(out) : Owners(v) # {} /\ InScope(owner[v], o, m)
  BY <1>3, SearchedPasses
<1>5. t \in out /\ ps \subseteq r.observed
  BY <1>3, SearchedPasses
<1>6. \A p \in ps : Redeemable(p, o, m) /\ p \in terms.projections /\ p.reference \in Held(entries)
  BY <1>1 DEF Fit, Redeemable, InPlace
<1>7. t.kind = "value"
  <2>1. CASE t \in tokens /\ t.kind # "placeholder"
    BY <1>2, <1>5, <2>1, AllTokenKinds
  <2>2. CASE \E p \in ps : t = Secret(entries[p.reference].cred.value)
    BY <2>2 DEF Secret
  <2>3. QED BY <1>5, <2>1, <2>2 DEF Redeemed
<1>8. ASSUME t \notin tokens
      PROVE  \E p \in ps : Redeemable(p, o, m) /\ p \in r.observed /\ p \in Owners(t.of)
  <2>1. PICK p \in ps : t = Secret(entries[p.reference].cred.value)
    BY <1>5, <1>8 DEF Redeemed
  <2>2. p \in Owners(t.of)
    BY <1>6, <2>1 DEF Owners, Secret
  <2>3. QED BY <1>5, <1>6, <2>1, <2>2
<1>9. ASSUME t.of \in history PROVE \E p \in Owners(t.of) : InScope(p, o, m)
  <2>1. t = Secret(t.of)
    <3>1. CASE t \in tokens
      BY <1>7, <3>1, AllTokenKinds
    <3>2. CASE t \notin tokens
      BY <1>5, <3>2 DEF Redeemed, Secret
    <3>3. QED BY <3>1, <3>2
  <2>2. t.of \in Sensitive(out)
    BY <1>5, <1>9, <2>1 DEF Sensitive
  <2>3. QED BY <1>4, <2>2, OwnersChosen
<1>10. QED BY <1>7, <1>8, <1>9

-----------------------------------------------------------------------------
(* Credentials: the invariant *)

LEMMA EffectTypes ==
  ASSUME NEW o \in Origins, NEW m \in Methods, NEW b \in Buckets
  PROVE  /\ \A op \in Operations : Decided(op, o, m, b) \subseteq Effects
         /\ MediationTypeOK => \A ps \in SUBSET terms.projections : Uses(b, ps, o, m) \subseteq Effects
  BY TermsTypes DEF Decided, Uses, Effect, Effects, Buckets, Operations

LEMMA PolicyTypes ==
  ASSUME flow \in Flows, NEW answers \in SUBSET BOOLEAN
  PROVE  /\ Policies(answers).effects \subseteq Effects
         /\ Policies(answers).ok \in BOOLEAN
         /\ Policies(answers).ok => Allows(flow.origin, flow.method)
<1> DEFINE o == flow.origin
           m == flow.method
           resolved == \E internal \in answers : AddressAllowed(o, internal)
           refusals == IF \E internal \in answers : ~AddressAllowed(o, internal) THEN {"denied"} ELSE {}
           buckets == refusals \cup (IF resolved THEN {"observed"} ELSE {})
           looked == UNION {Decided("resolution", o, m, b) : b \in buckets}
<1>1. o \in Origins /\ m \in Methods
  BY DEF Flows
<1>2. buckets \subseteq Buckets
  BY DEF Buckets
<1>3. looked \subseteq Effects
  <2>1. \A b \in buckets : Decided("resolution", o, m, b) \subseteq Effects
    BY <1>1, <1>2, EffectTypes DEF Operations
  <2>2. QED BY <2>1
<1>4. /\ Decided("request", o, m, "denied") \subseteq Effects
      /\ Decided("request", o, m, "attempted") \subseteq Effects
  BY <1>1, EffectTypes DEF Buckets, Operations
<1>5. Policies(answers) = IF ~Allows(o, m) THEN [ok |-> FALSE, effects |-> Decided("request", o, m, "denied")]
                          ELSE [ok |-> resolved, effects |-> Decided("request", o, m, "attempted") \cup looked]
  BY DEF Policies
<1> HIDE DEF looked, resolved
<1>6. CASE Allows(o, m)
  <2>1. resolved \in BOOLEAN
    BY DEF resolved
  <2>2. QED BY <1>3, <1>4, <1>5, <1>6, <2>1
<1>7. CASE ~Allows(o, m)
  BY <1>4, <1>5, <1>7
<1>8. QED BY <1>6, <1>7

\* In every run of an invocation with credentials: the mediator's state has its
\* types, the store remembers every value it held, an admitted invocation runs
\* with its mediator, and a request is hooked only where its grant allows it
\* (CapabilityCredentialStore, admitCredentialAuthority, isRequestAllowed).
THEOREM MediationInvariance == MediationSpec => []MInv
<1>1. MediationInit => MInv
  <2>1. SUFFICES ASSUME MediationInit PROVE MInv
    OBVIOUS
  <2>2. terms \in TermsType
    BY <2>1, MediationAssumption DEF MediationInit
  <2>3. entries \in [References -> Stored \cup {Missing}]
    BY <2>1, <2>2 DEF MediationInit, TermsType
  <2>4. history \subseteq SecretValues /\ HistoryComplete
    BY <2>1, <2>3 DEF MediationInit, Held, Stored, Trusted, HistoryComplete
  <2>5. 0 \in 0 .. MaxClock
    BY MediationAssumption
  <2>6. QED BY <2>1, <2>3, <2>4, <2>5 DEF MediationInit, MInv, MediationTypeOK, RunsMediated, HookAllowed, Idle
<1>2. MInv /\ [MediationNext]_mediation => MInv'
  <2> SUFFICES ASSUME MInv, [MediationNext]_mediation PROVE MInv'
    OBVIOUS
  <2> USE DEF MInv
  <2>1. ASSUME NEW r \in References, NEW cred \in Offers, SetCredential(r, cred) PROVE MInv'
    <3>1. cred \in Trusted
      BY MediationAssumption
    <3>2. [cred |-> cred, revoked |-> FALSE, deleted |-> FALSE] \in Stored
      BY <3>1 DEF Stored
    <3>3. cred.value \in SecretValues
      BY <3>1 DEF Trusted
    <3>4. MediationTypeOK'
      BY <2>1, <3>2, <3>3 DEF SetCredential, StoreMoves, MediationTypeOK
    <3>5. HistoryComplete'
      BY <2>1 DEF SetCredential, HistoryComplete, Held, MediationTypeOK
    <3>6. QED BY <2>1, <3>4, <3>5 DEF SetCredential, StoreMoves, RunsMediated, HookAllowed, Allows, RuleFor
  <2>2. ASSUME NEW r \in References, NEW deletes \in BOOLEAN, Withdraw(r, deletes) PROVE MInv'
    <3>1. entries[r] \in Stored
      BY <2>2, HeldValues DEF Withdraw
    <3>2. entries' = [entries EXCEPT ![r] = [entries[r] EXCEPT !.revoked = TRUE, !.deleted = @ \/ deletes]]
      BY <2>2, Zenon DEF Withdraw
    <3>3. /\ [entries[r] EXCEPT !.revoked = TRUE, !.deleted = @ \/ deletes] \in Stored
          /\ [entries[r] EXCEPT !.revoked = TRUE, !.deleted = @ \/ deletes].cred = entries[r].cred
      BY <3>1 DEF Stored
    <3>4. MediationTypeOK'
      BY <2>2, <3>2, <3>3 DEF Withdraw, StoreMoves, MediationTypeOK
    <3>5. HistoryComplete'
      BY <2>2, <3>2, <3>3 DEF Withdraw, HistoryComplete, Held, MediationTypeOK
    <3>6. QED BY <2>2, <3>4, <3>5 DEF Withdraw, StoreMoves, RunsMediated, HookAllowed, Allows, RuleFor
  <2>3. CASE Tick
    <3>1. MediationTypeOK'
      BY <2>3, MediationAssumption DEF Tick, StoreMoves, MediationTypeOK
    <3>2. QED BY <2>3, <3>1 DEF Tick, StoreMoves, HistoryComplete, Held, RunsMediated, HookAllowed, Allows, RuleFor
  <2>4. CASE Begin
    <3>1. /\ UNCHANGED <<terms, store, flow, sends, trail>>
          /\ stage' \in {"refused", "thrown", "running", "closing"}
          /\ seen' \in {seen, terms.carries} /\ outcome' \in {outcome, "failed"}
      BY <2>4 DEF Begin, Starts, Smuggles
    <3>2. /\ stage' = "thrown" => mediating' = TRUE /\ terms.projections # {}
          /\ stage' = "refused" => mediating' = mediating
          /\ stage' \in {"running", "closing"} =>
               AdmittedTerms(terms) /\ mediating' = (terms.projections # {})
      BY <2>4 DEF Begin, Starts, Smuggles
    <3>3. mediating' \in BOOLEAN /\ RunsMediated'
      BY <3>1, <3>2 DEF RunsMediated, AdmittedTerms, NetworkWithin, CredentialsWithin, MediationTypeOK
    <3>4. seen' \subseteq SecretValues
      BY <3>1, TermsTypes DEF MediationTypeOK
    <3>5. MediationTypeOK'
      BY <3>1, <3>3, <3>4 DEF MediationTypeOK, store
    <3>6. QED BY <3>1, <3>3, <3>5 DEF store, HistoryComplete, Held, HookAllowed, Allows, RuleFor
  <2>5. ASSUME NEW o \in Origins, NEW m \in Methods, NEW tokens \in Writable,
               SendRequest(o, m, tokens)
        PROVE  MInv'
    <3>1. tokens.url \subseteq AllTokens /\ tokens.auth \subseteq AllTokens /\ tokens.header \subseteq AllTokens
      <4>1. GuestTokens \subseteq AllTokens
        BY TermsTypes DEF GuestTokens, AllTokens, MediationTypeOK
      <4>2. QED BY <4>1 DEF Writable
    <3>2. flow' \in Flows /\ flow'.at = "precheck"
      BY <2>5, <3>1, MediationAssumption DEF SendRequest, Flows
    <3>3. MediationTypeOK'
      BY <2>5, <3>2 DEF SendRequest, MediationTypeOK, store
    <3>4. QED BY <2>5, <3>2, <3>3 DEF SendRequest, store, HistoryComplete, Held, RunsMediated, HookAllowed
  <2> DEFINE Moved == /\ stage \in {"running", "closing"}
                      /\ UNCHANGED <<terms, store, stage, mediating, outcome>>
                      /\ flow' \in Flows \cup {Idle} /\ trail' \subseteq Effects
                      /\ seen' \subseteq SecretValues /\ sends' \in Nat
                      /\ HookAllowed'
  <2>6. ASSUME Moved PROVE MInv'
    BY <2>6 DEF store, MediationTypeOK, HistoryComplete, Held, RunsMediated
  <2>6a. ASSUME NEW at, Flowing(at), UNCHANGED <<sends, seen>>, trail' \subseteq Effects,
                flow' \in Flows \cup {Idle}, flow'.at # "hook"
         PROVE  MInv'
    BY <2>6, <2>6a DEF Flowing, HookAllowed, MediationTypeOK
  <2>6b. Idle.at # "hook"
    BY DEF Idle
  <2>6c. ASSUME NEW at, Flowing(at), at # "idle" PROVE flow \in Flows
    BY <2>6c DEF Flowing, MediationTypeOK, Idle
  <2>7. ASSUME NEW answers \in SUBSET BOOLEAN, PrecheckRequest(answers) PROVE MInv'
    <3>1. flow \in Flows
      BY <2>7 DEF PrecheckRequest, Flowing, MediationTypeOK, Idle
    <3>2. /\ Policies(answers).effects \subseteq Effects
          /\ Policies(answers).ok => Allows(flow.origin, flow.method)
      BY <3>1, PolicyTypes
    <3>3. CASE Policies(answers).ok
      <4>1. /\ flow' = [flow EXCEPT !.at = "hook", !.checked = TRUE]
        BY <2>7, <3>3 DEF PrecheckRequest
      <4>2. flow' \in Flows /\ flow'.origin = flow.origin /\ flow'.method = flow.method
        BY <3>1, <4>1 DEF Flows
      <4>3. HookAllowed'
        BY <2>7, <3>2, <3>3, <4>2 DEF PrecheckRequest, Flowing, HookAllowed, Allows, RuleFor
      <4>4. trail' \subseteq Effects
        BY <2>7, <3>2 DEF PrecheckRequest, Records, MediationTypeOK
      <4>5. QED BY <2>6, <2>7, <4>2, <4>3, <4>4 DEF PrecheckRequest, Flowing, MediationTypeOK
    <3>4. CASE ~Policies(answers).ok
      <4>1. trail' \subseteq Effects
        BY <2>7, <3>2 DEF PrecheckRequest, Records, MediationTypeOK
      <4>2. flow' = Idle
        BY <2>7, <3>4 DEF PrecheckRequest
      <4>3. QED BY <2>6a, <2>6b, <2>7, <4>1, <4>2 DEF PrecheckRequest
    <3>5. QED BY <3>3, <3>4
  <2>8. CASE ApplyMediator
    <3>1. flow \in Flows /\ flow.origin \in Origins /\ flow.method \in Methods
      <4>1. flow \in Flows
        BY <2>6c, <2>8 DEF ApplyMediator
      <4>2. QED BY <4>1 DEF Flows
    <3> DEFINE o == flow.origin
               m == flow.method
               left(r) == Uses("attempted", r.attempted, o, m) \cup Uses("observed", r.observed, o, m)
                            \cup Uses("denied", r.denied, o, m)
    <3>2. CASE ~mediating
      <4>1. flow' = [flow EXCEPT !.at = "policy"] /\ UNCHANGED trail
        BY <2>8, <3>2 DEF ApplyMediator
      <4>2. flow' \in Flows /\ flow'.at = "policy"
        BY <3>1, <4>1 DEF Flows
      <4>3. QED BY <2>6, <2>8, <4>1, <4>2 DEF ApplyMediator, Flowing, HookAllowed, MediationTypeOK
    <3>3. CASE mediating /\ Material(flow.url)
      <4>1. Uses("denied", {First}, o, m) \subseteq Effects
        BY <3>1, <3>3, FirstProjects, EffectTypes DEF RunsMediated, Buckets
      <4>2. flow' = Idle /\ Records(Uses("denied", {First}, o, m))
        BY <2>8, <3>3 DEF ApplyMediator
      <4>3. QED BY <2>6, <2>8, <4>1, <4>2 DEF ApplyMediator, Flowing, Records, HookAllowed, Idle, MediationTypeOK
    <3>4. CASE mediating /\ ~Material(flow.url)
      <4>1. terms.projections # {} /\ \A h \in Headers : flow[h] \in SUBSET AllTokens
        BY <3>1, <3>4 DEF RunsMediated, Headers, Flows
      <4>2. ASSUME NEW h \in Headers, NEW r \in Replacements(flow[h], o, m)
            PROVE  left(r) \subseteq Effects /\ r.out \subseteq AllTokens
        BY <3>1, <4>1, ReplacementTypes, EffectTypes DEF Buckets
      <4>3. PICK one \in Headers : \E r \in Replacements(flow[one], o, m) :
              LET other == CHOOSE h \in Headers : h # one IN
              \/ r.denied # {} /\ flow' = Idle /\ Records(left(r))
              \/ /\ r.denied = {}
                 /\ \E q \in Replacements(flow[other], o, m) :
                      /\ Records(left(r) \cup left(q))
                      /\ flow' = IF q.denied # {} THEN Idle
                           ELSE [flow EXCEPT !.at = "policy", ![one] = r.out, ![other] = q.out,
                                   !.checked = @ /\ r.out = flow[one] /\ q.out = flow[other]]
        BY <2>8, <3>4 DEF ApplyMediator
      <4> DEFINE other == CHOOSE h \in Headers : h # one
      <4>4. other \in Headers
        BY DEF Headers
      <4> HIDE DEF left, other
      <4>5. PICK r \in Replacements(flow[one], o, m) :
              \/ r.denied # {} /\ flow' = Idle /\ Records(left(r))
              \/ /\ r.denied = {}
                 /\ \E q \in Replacements(flow[other], o, m) :
                      /\ Records(left(r) \cup left(q))
                      /\ flow' = IF q.denied # {} THEN Idle
                           ELSE [flow EXCEPT !.at = "policy", ![one] = r.out, ![other] = q.out,
                                   !.checked = @ /\ r.out = flow[one] /\ q.out = flow[other]]
        BY <4>3 DEF other
      <4>6. CASE flow' = Idle /\ Records(left(r))
        BY <2>6, <2>8, <4>2, <4>6 DEF ApplyMediator, Flowing, Records, HookAllowed, Idle, MediationTypeOK
      <4>7. ASSUME NEW q \in Replacements(flow[other], o, m), Records(left(r) \cup left(q)),
                   \/ flow' = Idle
                   \/ flow' = [flow EXCEPT !.at = "policy", ![one] = r.out, ![other] = q.out,
                                 !.checked = @ /\ r.out = flow[one] /\ q.out = flow[other]]
            PROVE  MInv'
        <5>1. left(r) \subseteq Effects /\ left(q) \subseteq Effects /\ r.out \subseteq AllTokens /\ q.out \subseteq AllTokens
          BY <4>2, <4>4
        <5>2. flow' \in Flows \cup {Idle} /\ flow'.at # "hook"
          <6>1. CASE flow' = Idle
            BY <6>1 DEF Idle
          <6>2. CASE flow' # Idle
            <7>1. one \in {"auth", "header"} /\ other \in {"auth", "header"}
              BY <4>4 DEF Headers
            <7>2. flow' = [flow EXCEPT !.at = "policy", ![one] = r.out, ![other] = q.out,
                            !.checked = @ /\ r.out = flow[one] /\ q.out = flow[other]]
              BY <4>7, <6>2
            <7>3. flow' \in Flows
              BY <3>1, <5>1, <7>1, <7>2 DEF Flows
            <7>4. flow'.at = "policy"
              BY <3>1, <7>1, <7>2 DEF Flows
            <7>5. QED BY <7>3, <7>4
          <6>3. QED BY <6>1, <6>2
        <5>3. QED BY <2>6, <2>8, <4>7, <5>1, <5>2 DEF ApplyMediator, Flowing, Records, HookAllowed, MediationTypeOK
      <4>8. QED BY <4>5, <4>6, <4>7, Zenon
    <3>5. QED BY <3>2, <3>3, <3>4
  <2>9. ASSUME NEW answers \in SUBSET BOOLEAN, PoliciesOfHop(answers) PROVE MInv'
    <3>1. flow \in Flows
      BY <2>9 DEF PoliciesOfHop, Flowing, MediationTypeOK, Idle
    <3>2. trail' \subseteq Effects /\ flow' \in {Idle, [flow EXCEPT !.at = "fetch"]}
      BY <2>9, <3>1, PolicyTypes DEF PoliciesOfHop, Records, MediationTypeOK
    <3>3. [flow EXCEPT !.at = "fetch"] \in Flows /\ [flow EXCEPT !.at = "fetch"].at = "fetch"
      BY <3>1 DEF Flows
    <3>4. QED BY <2>6a, <2>6b, <2>9, <3>2, <3>3 DEF PoliciesOfHop
  <2>10. ASSUME NEW internal \in BOOLEAN, ConnectUpstream(internal) PROVE MInv'
    <3>1. flow \in Flows
      BY <2>10 DEF ConnectUpstream, Flowing, MediationTypeOK, Idle
    <3>2. \A b \in {"observed", "denied"} : Decided("connection", flow.origin, flow.method, b) \subseteq Effects
      BY <3>1, EffectTypes DEF Flows, Buckets, Operations
    <3>3. trail' \subseteq Effects /\ flow' \in {Idle, [flow EXCEPT !.at = "wire"]}
      BY <2>10, <3>2 DEF ConnectUpstream, Records, MediationTypeOK
    <3>4. [flow EXCEPT !.at = "wire"] \in Flows /\ [flow EXCEPT !.at = "wire"].at = "wire"
      BY <3>1 DEF Flows
    <3>5. QED BY <2>6a, <2>6b, <2>10, <3>3, <3>4 DEF ConnectUpstream
  <2>11. ASSUME NEW o \in Origins, NEW m \in Methods, NEW url \in SUBSET AllTokens, FollowRedirect(o, m, url)
         PROVE  MInv'
    <3>1. flow \in Flows
      BY <2>11 DEF FollowRedirect, Flowing, MediationTypeOK, Idle
    <3>2. trail' \subseteq Effects
      BY <2>11, EffectTypes DEF FollowRedirect, Records, MediationTypeOK, Buckets, Operations
    <3>3. CASE RedirectAllowed(o, m)
      <4> DEFINE next == [flow EXCEPT !.at = "hook", !.origin = o, !.method = m, !.url = url,
                            !.auth = IF o = flow.origin THEN @ ELSE {}, !.hop = @ + 1, !.checked = FALSE]
      <4>1. flow' = next
        BY <2>11, <3>3 DEF FollowRedirect
      <4>2. flow.hop + 1 \in 0 .. MaxHops
        BY <2>11, <3>1, MediationAssumption DEF FollowRedirect, Flows
      <4>3. next \in Flows /\ next.origin = o /\ next.method = m
        BY <3>1, <4>2 DEF Flows
      <4>4. HookAllowed'
        BY <2>11, <3>3, <4>1, <4>3 DEF FollowRedirect, Flowing, RedirectAllowed, HookAllowed, Allows, RuleFor
      <4>5. QED BY <2>6, <2>11, <3>2, <4>1, <4>3, <4>4 DEF FollowRedirect, Flowing, MediationTypeOK
    <3>4. CASE ~RedirectAllowed(o, m)
      BY <2>6, <2>11, <3>2, <3>4 DEF FollowRedirect, Flowing, HookAllowed, Idle, MediationTypeOK
    <3>5. QED BY <3>3, <3>4
  <2>12. ASSUME NEW content \in SUBSET SecretValues, Respond(content) PROVE MInv'
    <3>1. flow \in Flows
      BY <2>12 DEF Respond, Flowing, MediationTypeOK, Idle
    <3>2. trail' \subseteq Effects
      BY <2>12, <3>1 DEF Respond, Records, MediationTypeOK, Flows, Effect, Effects, Buckets, Operations
    <3>3. QED BY <2>6, <2>12, <3>2 DEF Respond, Redacted, Flowing, HookAllowed, Idle, MediationTypeOK
  <2>13. CASE DropRequest
    BY <2>6, <2>13 DEF DropRequest, Flowing, HookAllowed, Idle, MediationTypeOK
  <2>14. CASE ExecEnds
    <3>1. \E to \in {"failed", "policy_denied", "success", "command_failed"} : EndsExec(to)
      BY <2>14 DEF ExecEnds
    <3>2. QED BY <3>1 DEF EndsExec, store, MediationTypeOK, HistoryComplete, Held, RunsMediated, HookAllowed, Allows, RuleFor
  <2>15. ASSUME NEW ok \in BOOLEAN, CloseVm(ok) PROVE MInv'
    <3>1. MediationTypeOK'
      BY <2>15 DEF CloseVm, store, MediationTypeOK
    <3>2. HookAllowed'
      BY <2>15 DEF CloseVm, HookAllowed, Allows, RuleFor, Idle
    <3>3. QED BY <2>15, <3>1, <3>2 DEF CloseVm, store, HistoryComplete, Held, RunsMediated
  <2>16. CASE LateHook
    BY <2>16 DEF LateHook, store, MediationTypeOK, HistoryComplete, Held, RunsMediated, HookAllowed, Idle
  <2>17. CASE UNCHANGED mediation
    BY <2>17 DEF mediation, store, MediationTypeOK, HistoryComplete, Held, RunsMediated, HookAllowed, Allows, RuleFor
  <2>18. QED BY <2>1, <2>2, <2>3, <2>4, <2>5, <2>7, <2>8, <2>9, <2>10, <2>11, <2>12, <2>13, <2>14, <2>15,
                <2>16, <2>17 DEF MediationNext
<1>3. QED BY <1>1, <1>2, PTL DEF MediationSpec

\* Whatever is set, revoked or deleted while the hops of a request wait, a header
\* leaves the mediator with no placeholder, and with a value of the store only as
\* that of a credential that is granted for the hop, live if it was put there.
THEOREM CredentialsKept ==
  MediationSpec => CredentialsKeepToTheirGrant
<1> DEFINE Leaves == flow.at = "hook" /\ flow'.at = "policy" /\ terms.projections # {}
           Good(t, h) ==
             /\ t.kind = "value"
             /\ t.of \in history =>
                  \E p \in Owners(t.of) :
                    /\ GrantedHere(p)
                    /\ t \notin flow[h] =>
                         /\ LiveHere(p)
                         /\ Effect("observed", "use", p.reference, flow.origin, flow.method) \in trail'
           Safe == /\ mediating /\ ~Material(flow.url)
                   /\ \A h \in Headers : \A t \in flow'[h] : Good(t, h)
<1>1. ASSUME MInv, [MediationNext]_mediation, Leaves PROVE Safe
  <2>1. ApplyMediator
    <3>1. flow' \notin {flow, Idle} /\ flow.at = "hook"
      BY <1>1 DEF Idle
    <3>2. ~UNCHANGED mediation /\ ~Tick /\ ~DropRequest /\ ~LateHook
      BY <3>1 DEF mediation, Tick, StoreMoves, DropRequest, LateHook
    <3>3. /\ \A r \in References, cred \in Offers : ~SetCredential(r, cred)
          /\ \A r \in References, deletes \in BOOLEAN : ~Withdraw(r, deletes)
      BY <3>1 DEF SetCredential, Withdraw, StoreMoves
    <3>4. ~Begin /\ ~ExecEnds
      BY <3>1 DEF Begin, Starts, ExecEnds, EndsExec
    <3>5. \A to \in Origins, m \in Methods, tokens \in Writable : ~SendRequest(to, m, tokens)
      BY <3>1 DEF SendRequest
    <3>6. \A answers \in SUBSET BOOLEAN : ~PrecheckRequest(answers) /\ ~PoliciesOfHop(answers)
      BY <3>1 DEF PrecheckRequest, PoliciesOfHop, Flowing
    <3>7. /\ \A internal \in BOOLEAN : ~ConnectUpstream(internal)
          /\ \A to \in Origins, m \in Methods, url \in SUBSET AllTokens : ~FollowRedirect(to, m, url)
          /\ \A content \in SUBSET SecretValues : ~Respond(content)
      BY <3>1 DEF ConnectUpstream, FollowRedirect, Respond, Flowing
    <3>8. \A ok \in BOOLEAN : ~CloseVm(ok)
      BY <3>1 DEF CloseVm
    <3>9. QED BY <1>1, <3>2, <3>3, <3>4, <3>5, <3>6, <3>7, <3>8 DEF MediationNext
  <2>2. /\ MediationTypeOK /\ HistoryComplete /\ flow \in Flows
        /\ mediating /\ AdmittedTerms(terms) /\ Allows(flow.origin, flow.method)
    <3>1. stage \in {"running", "closing"}
      BY <2>1 DEF ApplyMediator, Flowing
    <3>2. MediationTypeOK /\ HistoryComplete /\ RunsMediated /\ HookAllowed
      BY <1>1 DEF MInv
    <3>3. flow \in Flows
      BY <1>1, <3>2 DEF MediationTypeOK, Idle
    <3>4. QED BY <1>1, <3>1, <3>2, <3>3 DEF RunsMediated, HookAllowed
  <2> DEFINE o == flow.origin
             m == flow.method
             left(r) == Uses("attempted", r.attempted, o, m) \cup Uses("observed", r.observed, o, m)
                          \cup Uses("denied", r.denied, o, m)
  <2>3. ~Material(flow.url) /\ \A h \in Headers : flow[h] \in SUBSET AllTokens
    <3>1. \A h \in Headers : flow[h] \in SUBSET AllTokens
      BY <2>2 DEF Headers, Flows
    <3>2. flow' # Idle
      BY <1>1 DEF Idle
    <3>3. QED BY <2>1, <2>2, <3>1, <3>2 DEF ApplyMediator
  <2>4. PICK one \in Headers : \E r \in Replacements(flow[one], o, m) :
          LET other == CHOOSE h \in Headers : h # one IN
          \/ r.denied # {} /\ flow' = Idle /\ Records(left(r))
          \/ /\ r.denied = {}
             /\ \E q \in Replacements(flow[other], o, m) :
                  /\ Records(left(r) \cup left(q))
                  /\ flow' = IF q.denied # {} THEN Idle
                       ELSE [flow EXCEPT !.at = "policy", ![one] = r.out, ![other] = q.out,
                               !.checked = @ /\ r.out = flow[one] /\ q.out = flow[other]]
    BY <2>1, <2>2, <2>3 DEF ApplyMediator
  <2> DEFINE other == CHOOSE h \in Headers : h # one
  <2>5. other \in Headers /\ other # one /\ Headers = {one, other}
    BY DEF Headers
  <2> HIDE DEF left, other
  <2>6. PICK r \in Replacements(flow[one], o, m) :
          \/ r.denied # {} /\ flow' = Idle /\ Records(left(r))
          \/ /\ r.denied = {}
             /\ \E q \in Replacements(flow[other], o, m) :
                  /\ Records(left(r) \cup left(q))
                  /\ flow' = IF q.denied # {} THEN Idle
                       ELSE [flow EXCEPT !.at = "policy", ![one] = r.out, ![other] = q.out,
                               !.checked = @ /\ r.out = flow[one] /\ q.out = flow[other]]
    BY <2>4 DEF other
  <2>7. flow' # Idle
    BY <1>1 DEF Idle
  <2>8. PICK q \in Replacements(flow[other], o, m) :
          /\ r.denied = {} /\ q.denied = {} /\ Records(left(r) \cup left(q))
          /\ flow' = [flow EXCEPT !.at = "policy", ![one] = r.out, ![other] = q.out,
                        !.checked = @ /\ r.out = flow[one] /\ q.out = flow[other]]
    BY <2>6, <2>7
  <2>9. flow'[one] = r.out /\ flow'[other] = q.out
    BY <2>2, <2>5, <2>8 DEF Flows, Headers
  <2>10. ASSUME NEW h \in Headers, NEW x \in Replacements(flow[h], o, m), x.denied = {},
                left(x) \subseteq trail', NEW t \in x.out
         PROVE  Good(t, h)
    <3>1. flow[h] \in SUBSET AllTokens
      BY <2>3
    <3>2. t.kind = "value"
      BY <2>2, <2>10, <3>1, PassedHeader
    <3>3. ASSUME t.of \in history, t \in flow[h]
          PROVE  \E p \in Owners(t.of) : GrantedHere(p)
      <4>1. PICK p \in Owners(t.of) : InScope(p, o, m)
        BY <2>2, <2>10, <3>1, <3>3, PassedHeader
      <4>2. p \in terms.projections
        BY DEF Owners
      <4>3. PICK c \in terms.ceiling.projections :
              c.reference = p.reference /\ c.origin = p.origin /\ p.methods \subseteq c.methods
        BY <2>2, <4>2 DEF AdmittedTerms, CredentialsWithin
      <4>4. InScope(c, o, m)
        BY <4>1, <4>3 DEF InScope
      <4>5. QED BY <2>2, <4>1, <4>3, <4>4 DEF GrantedHere
    <3>4. ASSUME t.of \in history, t \notin flow[h]
          PROVE  \E p \in Owners(t.of) : /\ GrantedHere(p) /\ LiveHere(p)
                   /\ Effect("observed", "use", p.reference, o, m) \in trail'
      <4>1. PICK p \in InPlace(flow[h]) : Redeemable(p, o, m) /\ p \in x.observed /\ p \in Owners(t.of)
        BY <2>2, <2>10, <3>1, <3>4, PassedHeader
      <4>2. p \in terms.projections /\ InScope(p, o, m)
        BY <4>1 DEF Owners, Redeemable
      <4>3. PICK c \in terms.ceiling.projections :
              c.reference = p.reference /\ c.origin = p.origin /\ p.methods \subseteq c.methods
        BY <2>2, <4>2 DEF AdmittedTerms, CredentialsWithin
      <4>4. GrantedHere(p)
        BY <2>2, <4>2, <4>3 DEF GrantedHere, InScope
      <4>5. LiveHere(p)
        BY <4>1 DEF Redeemable, LiveHere
      <4>6. Effect("observed", "use", p.reference, o, m) \in left(x)
        BY <4>1 DEF left, Uses
      <4>7. QED BY <2>10, <4>1, <4>4, <4>5, <4>6
    <3>5. QED BY <3>2, <3>3, <3>4
  <2>11. left(r) \subseteq trail' /\ left(q) \subseteq trail'
    BY <2>8 DEF Records
  <2>12. \A t \in flow'[one] : Good(t, one)
    BY <2>8, <2>9, <2>10, <2>11
  <2>13. \A t \in flow'[other] : Good(t, other)
    BY <2>5, <2>8, <2>9, <2>10, <2>11
  <2> HIDE DEF Good
  <2>14. QED BY <2>2, <2>3, <2>5, <2>12, <2>13
<1>2. MInv /\ [MediationNext]_mediation => [Leaves => Safe]_mediation
  BY <1>1
<1>3. QED BY <1>2, MediationInvariance, PTL DEF MediationSpec, CredentialsKeepToTheirGrant, MInv

-----------------------------------------------------------------------------
(* SSH upstreams (SshEgress).  Inductive: held and counted are one finite  *)
(* set of calls that have come to their dial, and every upstream that is   *)
(* alive is in it.                                                         *)

\* The sets of upstreams that the two limits count are one set of calls, finite
\* and within the limit, and the calls of a session are within its own.
UpstreamsCounted ==
  /\ held = counted /\ IsFiniteSet(counted)
  /\ Cardinality(counted) <= MaxTotal
  /\ \A f \in SshFlows, g \in 0..MaxGen : Cardinality(HeldBy(f, g)) <= MaxPerFlow

\* An upstream is held from its dial, and a call before its dial has none.
UpstreamsFromDial ==
  \A c \in Calls :
    /\ up[c] \in Live => c \in held
    /\ c \in held => bridging[c] \notin {"idle", "policy"}
    /\ bridging[c] \in {"idle", "policy"} => up[c] = "none"

SshInv == SshTypeOK /\ UpstreamsCounted /\ UpstreamsFromDial

\* The limits are positive, and every call is on a flow.
LEMMA SshConstants ==
  /\ FlowOf \in [Calls -> SshFlows] /\ MaxGen \in Nat
  /\ MaxPerFlow \in Nat \ {0} /\ MaxTotal \in Nat \ {0}
BY SshAssumption DEF SettingsChecked

\* Sets within sets that keep the limits keep them.
LEMMA FewerUpstreams ==
  ASSUME SshInv, held' \subseteq held, counted' = held',
         \A f \in SshFlows, g \in 0..MaxGen : HeldBy(f, g)' \subseteq HeldBy(f, g)
  PROVE  UpstreamsCounted'
<1>1. IsFiniteSet(held) /\ held = counted /\ Cardinality(held) \in Nat
  BY FS_CardinalityType DEF SshInv, UpstreamsCounted
<1>2. IsFiniteSet(held') /\ Cardinality(held') <= Cardinality(held) /\ Cardinality(held') \in Nat
  BY <1>1, FS_Subset, FS_CardinalityType
<1>3. Cardinality(held') <= MaxTotal
  BY <1>1, <1>2, SshConstants DEF SshInv, UpstreamsCounted
<1>4. ASSUME NEW f \in SshFlows, NEW g \in 0..MaxGen
      PROVE  Cardinality(HeldBy(f, g)') <= MaxPerFlow
  <2>1. HeldBy(f, g) \subseteq held
    BY DEF HeldBy
  <2>2. IsFiniteSet(HeldBy(f, g)) /\ Cardinality(HeldBy(f, g)) \in Nat
    BY <2>1, <1>1, FS_Subset, FS_CardinalityType
  <2>3. /\ Cardinality(HeldBy(f, g)') <= Cardinality(HeldBy(f, g))
        /\ Cardinality(HeldBy(f, g)') \in Nat
    BY <2>2, FS_Subset, FS_CardinalityType
  <2>4. Cardinality(HeldBy(f, g)) <= MaxPerFlow
    BY DEF SshInv, UpstreamsCounted
  <2> QED
    BY <2>2, <2>3, <2>4, SshConstants
<1> QED
  BY <1>2, <1>3, <1>4 DEF UpstreamsCounted

\* Two sets are below their limits: one more call keeps to them.
LEMMA OneMoreUpstream ==
  ASSUME SshInv, NEW c \in Calls,
         held' = held \cup {c}, counted' = counted \cup {c},
         Cardinality(counted) < MaxTotal,
         \A f \in SshFlows, g \in 0..MaxGen :
           \/ HeldBy(f, g)' \subseteq HeldBy(f, g)
           \/ /\ HeldBy(f, g)' \subseteq HeldBy(f, g) \cup {c}
              /\ Cardinality(HeldBy(f, g)) < MaxPerFlow
  PROVE  UpstreamsCounted'
<1>1. IsFiniteSet(held) /\ held = counted /\ Cardinality(held) \in Nat
  BY FS_CardinalityType DEF SshInv, UpstreamsCounted
<1>2. ASSUME NEW S, NEW R, IsFiniteSet(S), R \subseteq S \cup {c}, NEW n \in Nat, Cardinality(S) < n
      PROVE  IsFiniteSet(R) /\ Cardinality(R) <= n
  <2>1. Cardinality(S) \in Nat
    BY <1>2, FS_CardinalityType
  <2>2. /\ IsFiniteSet(S \cup {c})
        /\ Cardinality(S \cup {c}) = IF c \in S THEN Cardinality(S) ELSE Cardinality(S) + 1
    BY <1>2, FS_AddElement
  <2>3. Cardinality(S \cup {c}) \in Nat /\ Cardinality(S \cup {c}) <= Cardinality(S) + 1
    BY <2>1, <2>2, FS_CardinalityType
  <2>4. IsFiniteSet(R) /\ Cardinality(R) <= Cardinality(S \cup {c}) /\ Cardinality(R) \in Nat
    BY <1>2, <2>2, FS_Subset, FS_CardinalityType
  <2> QED
    BY <1>2, <2>1, <2>3, <2>4
<1>3. IsFiniteSet(held') /\ Cardinality(held') <= MaxTotal
  BY <1>1, <1>2, SshConstants
<1>4. ASSUME NEW f \in SshFlows, NEW g \in 0..MaxGen
      PROVE  Cardinality(HeldBy(f, g)') <= MaxPerFlow
  <2>1. HeldBy(f, g) \subseteq held
    BY DEF HeldBy
  <2>2. IsFiniteSet(HeldBy(f, g)) /\ Cardinality(HeldBy(f, g)) \in Nat
    BY <2>1, <1>1, FS_Subset, FS_CardinalityType
  <2>3. CASE HeldBy(f, g)' \subseteq HeldBy(f, g)
    <3>1. /\ Cardinality(HeldBy(f, g)') <= Cardinality(HeldBy(f, g))
          /\ Cardinality(HeldBy(f, g)') \in Nat
      BY <2>2, <2>3, FS_Subset, FS_CardinalityType
    <3>2. Cardinality(HeldBy(f, g)) <= MaxPerFlow
      BY DEF SshInv, UpstreamsCounted
    <3> QED
      BY <2>2, <3>1, <3>2, SshConstants
  <2>4. CASE /\ HeldBy(f, g)' \subseteq HeldBy(f, g) \cup {c}
             /\ Cardinality(HeldBy(f, g)) < MaxPerFlow
    BY <2>2, <2>4, <1>2, SshConstants
  <2> QED
    BY <2>3, <2>4
<1>5. held' = counted'
  BY <1>1
<1> QED
  BY <1>3, <1>4, <1>5 DEF UpstreamsCounted

\* A step that closes a guest's channel leaves no upstream of it alive.
ChannelsEndUpstreams ==
  \A c \in Calls : guest[c] = "open" /\ guest'[c] = "closed" => up'[c] \notin Live

\* The end of a proxy.
LEMMA ProxyCloses ==
  ASSUME SshInv, NEW f \in SshFlows, CloseProxy(f, gen[f]),
         open' \in [SshFlows -> BOOLEAN], UNCHANGED <<policy, gen, of, bridging, wired>>
  PROVE  SshInv' /\ ChannelsEndUpstreams
<1> USE DEF CloseProxy
<1>1. SshTypeOK'
  BY DEF SshInv, SshTypeOK, Live
<1>2. \A h \in SshFlows, g \in 0..MaxGen : HeldBy(h, g)' \subseteq HeldBy(h, g)
  BY DEF HeldBy, CallsOf
<1>3. UpstreamsCounted'
  <2>1. held' \subseteq held /\ counted' = held'
    BY DEF SshInv, UpstreamsCounted
  <2> QED
    BY <1>2, <2>1, FewerUpstreams
<1>4. ASSUME NEW c \in Calls
      PROVE  /\ up'[c] \in Live => c \in held'
             /\ c \in held' => bridging'[c] \notin {"idle", "policy"}
             /\ bridging'[c] \in {"idle", "policy"} => up'[c] = "none"
  BY DEF SshInv, SshTypeOK, UpstreamsFromDial, Live
<1>5. ASSUME NEW c \in Calls, guest[c] = "open", guest'[c] = "closed"
      PROVE  up'[c] \notin Live
  <2>1. c \in CallsOf(f, gen[f])
    BY <1>5
  <2>2. up[c] \in Live => c \in HeldBy(f, gen[f])
    BY <2>1 DEF SshInv, UpstreamsFromDial, HeldBy
  <2> QED
    BY <2>2 DEF Live
<1> QED
  BY <1>1, <1>3, <1>4, <1>5 DEF SshInv, UpstreamsFromDial, ChannelsEndUpstreams

LEMMA FlowStepKept ==
  ASSUME SshInv, NEW f \in SshFlows, Accept(f) \/ CloseFlow(f)
  PROVE  SshInv' /\ ChannelsEndUpstreams
<1>1. CASE Accept(f)
  <2> USE <1>1 DEF Accept
  <2>1. gen[f] + 1 \in 0..MaxGen
    BY SshConstants DEF SshInv, SshTypeOK
  <2>2. SshTypeOK'
    BY <2>1 DEF SshInv, SshTypeOK
  <2>3. UpstreamsCounted'
    BY DEF SshInv, UpstreamsCounted, HeldBy, CallsOf
  <2> QED
    BY <2>2, <2>3 DEF SshInv, SshTypeOK, UpstreamsFromDial, ChannelsEndUpstreams
<1>2. CASE CloseFlow(f)
  <2>1. open' \in [SshFlows -> BOOLEAN]
    BY <1>2 DEF CloseFlow, SshInv, SshTypeOK
  <2> QED
    BY <1>2, <2>1, ProxyCloses DEF CloseFlow
<1> QED
  BY <1>1, <1>2

\* A call that comes to its dial: its session holds one more.
LEMMA DialKept ==
  ASSUME SshInv, NEW c \in Calls, up[c] = "none", c \notin held,
         of' \in [Calls -> 0..MaxGen], \A d \in Calls : d # c => of'[d] = of[d],
         guest' \in [Calls -> {"none", "open", "closed"}],
         \A d \in Calls : guest'[d] = "closed" => guest[d] = "closed",
         Cardinality(HeldBy(FlowOf[c], of'[c])) < MaxPerFlow,
         Cardinality(counted) < MaxTotal,
         bridging' = [bridging EXCEPT ![c] = "dial"],
         up' = [up EXCEPT ![c] = "dialing"],
         counted' = counted \cup {c}, held' = held \cup {c},
         UNCHANGED <<policy, open, gen, wired>>
  PROVE  SshInv' /\ ChannelsEndUpstreams
<1>1. SshTypeOK'
  BY DEF SshInv, SshTypeOK, Live
<1>2. ASSUME NEW f \in SshFlows, NEW g \in 0..MaxGen
      PROVE  \/ HeldBy(f, g)' \subseteq HeldBy(f, g)
             \/ /\ HeldBy(f, g)' \subseteq HeldBy(f, g) \cup {c}
                /\ Cardinality(HeldBy(f, g)) < MaxPerFlow
  <2>1. \A d \in Calls : d \in HeldBy(f, g)' /\ d # c => d \in HeldBy(f, g)
    BY DEF HeldBy, CallsOf, SshInv, SshTypeOK
  <2>2. HeldBy(f, g)' \subseteq Calls
    BY DEF HeldBy, CallsOf
  <2>3. CASE f = FlowOf[c] /\ g = of'[c]
    BY <2>1, <2>2, <2>3
  <2>4. CASE ~(f = FlowOf[c] /\ g = of'[c])
    <3>1. c \notin HeldBy(f, g)'
      BY <2>4 DEF HeldBy, CallsOf
    <3> QED
      BY <2>1, <2>2, <3>1
  <2> QED
    BY <2>3, <2>4
<1>3. UpstreamsCounted'
  BY <1>2, OneMoreUpstream
<1>4. ASSUME NEW d \in Calls
      PROVE  /\ up'[d] \in Live => d \in held'
             /\ d \in held' => bridging'[d] \notin {"idle", "policy"}
             /\ bridging'[d] \in {"idle", "policy"} => up'[d] = "none"
  BY DEF SshInv, SshTypeOK, UpstreamsFromDial, Live
<1>5. ChannelsEndUpstreams
  BY DEF ChannelsEndUpstreams, SshInv, SshTypeOK
<1> QED
  BY <1>1, <1>3, <1>4, <1>5 DEF SshInv, UpstreamsFromDial

\* A call that changes and takes no new upstream, or gives up its own.
LEMMA CallKept ==
  ASSUME SshInv, NEW c \in Calls, SshTypeOK',
         held' = held \/ held' = held \ {c}, counted' = held',
         \A d \in Calls : d # c => /\ of'[d] = of[d] /\ up'[d] = up[d]
                                  /\ bridging'[d] = bridging[d] /\ guest'[d] = guest[d],
         c \in held => of'[c] = of[c],
         up'[c] \in Live => c \in held',
         c \in held' => bridging'[c] \notin {"idle", "policy"},
         bridging'[c] \in {"idle", "policy"} => up'[c] = "none",
         guest'[c] = "closed" /\ guest[c] # "closed" => up'[c] \notin Live
  PROVE  SshInv' /\ ChannelsEndUpstreams
<1>1. \A f \in SshFlows, g \in 0..MaxGen : HeldBy(f, g)' \subseteq HeldBy(f, g)
  <2> SUFFICES ASSUME NEW f \in SshFlows, NEW g \in 0..MaxGen, NEW d \in HeldBy(f, g)'
               PROVE  d \in HeldBy(f, g)
    OBVIOUS
  <2>1. d \in Calls /\ d \in held /\ FlowOf[d] = f /\ of'[d] = g
    BY DEF HeldBy, CallsOf
  <2>2. of[d] = g /\ bridging[d] # "idle"
    BY <2>1 DEF SshInv, UpstreamsFromDial
  <2> QED
    BY <2>1, <2>2 DEF HeldBy, CallsOf
<1>2. UpstreamsCounted'
  BY <1>1, FewerUpstreams
<1>3. UpstreamsFromDial'
  BY DEF SshInv, UpstreamsFromDial
<1>4. ChannelsEndUpstreams
  BY DEF ChannelsEndUpstreams
<1> QED
  BY <1>2, <1>3, <1>4 DEF SshInv

LEMMA CallStepKept ==
  ASSUME SshInv, NEW c \in Calls,
         \/ AskPolicy(c) \/ Permit(c) \/ Deny(c) \/ ExecAtOnce(c)
         \/ Ready(c) \/ BridgeFails(c) \/ Started(c)
         \/ GuestCloses(c) \/ CommandEnds(c)
         \/ UpstreamCloses(c) \/ UpstreamFails(c)
  PROVE  SshInv' /\ ChannelsEndUpstreams
<1>0. /\ SshTypeOK /\ FlowOf[c] \in SshFlows /\ held = counted
      /\ gen[FlowOf[c]] \in 0..MaxGen
      /\ up[c] \in Live => c \in held
      /\ c \in held => bridging[c] \notin {"idle", "policy"}
      /\ bridging[c] \in {"idle", "policy"} => up[c] = "none"
  BY SshConstants DEF SshInv, SshTypeOK, UpstreamsCounted, UpstreamsFromDial
<1>1. CASE AskPolicy(c)
  <2> USE <1>1 DEF AskPolicy
  <2>1. SshTypeOK'
    BY <1>0 DEF SshTypeOK, Live
  <2> QED
    BY <1>0, <2>1, CallKept DEF SshTypeOK, Live
<1>2. CASE Permit(c)
  <2>1. CASE WithinLimits(c) /\ Dial(c)
    BY <1>0, <1>2, <2>1, DialKept DEF Permit, WithinLimits, Dial, SshTypeOK
  <2>2. CASE Fail(c) /\ UNCHANGED <<up, counted, held>>
    <3> USE <1>2, <2>2 DEF Permit, Fail
    <3>1. SshTypeOK'
      BY <1>0 DEF SshTypeOK
    <3> QED
      BY <1>0, <3>1, CallKept DEF SshTypeOK, Live
  <2> QED
    BY <1>2, <2>1, <2>2 DEF Permit, Bridge
<1>3. CASE Deny(c)
  <2> USE <1>3 DEF Deny, Fail
  <2>1. SshTypeOK'
    BY <1>0 DEF SshTypeOK, Live
  <2> QED
    BY <1>0, <2>1, CallKept DEF SshTypeOK, Live
<1>4. CASE ExecAtOnce(c)
  <2> DEFINE fits == /\ Cardinality(HeldBy(FlowOf[c], gen[FlowOf[c]])) < MaxPerFlow
                     /\ Cardinality(counted) < MaxTotal
  <2>1. CASE fits
    <3>1. /\ bridging[c] = "idle"
          /\ of' = [of EXCEPT ![c] = gen[FlowOf[c]]]
          /\ bridging' = [bridging EXCEPT ![c] = "dial"]
          /\ guest' = [guest EXCEPT ![c] = "open"]
          /\ up' = [up EXCEPT ![c] = "dialing"]
          /\ counted' = counted \cup {c} /\ held' = held \cup {c}
          /\ UNCHANGED <<policy, open, gen, wired>>
      BY <1>4, <2>1 DEF ExecAtOnce
    <3>2. /\ of' \in [Calls -> 0..MaxGen] /\ of'[c] = gen[FlowOf[c]]
          /\ \A d \in Calls : d # c => of'[d] = of[d]
          /\ guest' \in [Calls -> {"none", "open", "closed"}]
          /\ \A d \in Calls : guest'[d] = "closed" => guest[d] = "closed"
      BY <1>0, <3>1 DEF SshTypeOK
    <3> QED
      BY <1>0, <2>1, <3>1, <3>2, DialKept
  <2>2. CASE ~fits
    <3>1. /\ bridging[c] = "idle"
          /\ of' = [of EXCEPT ![c] = gen[FlowOf[c]]]
          /\ Fail(c) /\ UNCHANGED <<up, counted, held>>
          /\ UNCHANGED <<policy, open, gen, wired>>
      BY <1>4, <2>2 DEF ExecAtOnce
    <3>2. SshTypeOK'
      BY <1>0, <3>1 DEF SshTypeOK, Fail
    <3> QED
      BY <1>0, <3>1, <3>2, CallKept DEF SshTypeOK, Live, Fail
  <2> QED
    BY <2>1, <2>2
<1>5. CASE Ready(c)
  <2> USE <1>5 DEF Ready
  <2>1. SshTypeOK'
    BY <1>0 DEF SshTypeOK, Live
  <2> QED
    BY <1>0, <2>1, CallKept DEF SshTypeOK, Live
<1>6. CASE BridgeFails(c)
  <2> USE <1>6 DEF BridgeFails, Fail
  <2>1. SshTypeOK'
    BY <1>0 DEF SshTypeOK, Live
  <2> QED
    BY <1>0, <2>1, CallKept DEF SshTypeOK, Live
<1>7. CASE Started(c)
  <2> USE <1>7 DEF Started
  <2>1. SshTypeOK'
    BY <1>0 DEF SshTypeOK, Live
  <2> QED
    BY <1>0, <2>1, CallKept DEF SshTypeOK, Live
<1>8. CASE GuestCloses(c)
  <2> USE <1>8 DEF GuestCloses
  <2>1. SshTypeOK'
    BY <1>0 DEF SshTypeOK, Live
  <2> QED
    BY <1>0, <2>1, CallKept DEF SshTypeOK, Live
<1>9. CASE CommandEnds(c)
  <2> USE <1>9 DEF CommandEnds, Fail
  <2>1. SshTypeOK'
    BY <1>0 DEF SshTypeOK, Live
  <2> QED
    BY <1>0, <2>1, CallKept DEF SshTypeOK, Live
<1>10. CASE UpstreamCloses(c)
  <2> USE <1>10 DEF UpstreamCloses, Fail
  <2>1. SshTypeOK'
    BY <1>0 DEF SshTypeOK, Live
  <2> QED
    BY <1>0, <2>1, CallKept DEF SshTypeOK, Live
<1>11. CASE UpstreamFails(c)
  <2> DEFINE f == FlowOf[c]
  <2>1. open' \in [SshFlows -> BOOLEAN] /\ UNCHANGED <<policy, gen, of, bridging, wired>>
    BY <1>0, <1>11 DEF UpstreamFails, SshTypeOK
  <2>2. CASE CloseProxy(f, gen[f])
    BY <1>0, <2>1, <2>2, ProxyCloses
  <2>3. CASE UNCHANGED <<up, counted, held, guest>>
    <3>1. SshTypeOK'
      BY <1>0, <2>1, <2>3 DEF SshTypeOK
    <3> QED
      BY <1>0, <2>1, <2>3, <3>1, CallKept DEF SshTypeOK
  <2> QED
    BY <1>11, <2>2, <2>3 DEF UpstreamFails
<1> QED
  BY <1>1, <1>2, <1>3, <1>4, <1>5, <1>6, <1>7, <1>8, <1>9, <1>10, <1>11

\* Upstream SSH connections stay within their limits, and a step that closes
\* their guest's channel ends them (qemu/ssh.ts).
THEOREM UpstreamsHeldAlways == SshSpec => UpstreamsHeldToTheirGuests
<1>1. SshInit => SshInv
  <2> SUFFICES ASSUME SshInit PROVE SshInv
    OBVIOUS
  <2>1. SshTypeOK
    BY SshConstants DEF SshInit, SshTypeOK
  <2>2. IsFiniteSet({}) /\ Cardinality({}) = 0
    BY FS_EmptySet
  <2>3. counted = {} /\ held = {} /\ \A f \in SshFlows, g \in 0..MaxGen : HeldBy(f, g) = {}
    BY DEF SshInit, HeldBy
  <2>4. UpstreamsCounted
    BY <2>2, <2>3, SshConstants DEF UpstreamsCounted
  <2> QED
    BY <2>1, <2>4 DEF SshInit, SshInv, UpstreamsFromDial, Live
<1>2. SshInv /\ [SshNext]_sshVars => SshInv' /\ (ChannelsEndUpstreams \/ UNCHANGED sshVars)
  <2> SUFFICES ASSUME SshInv, [SshNext]_sshVars
               PROVE  SshInv' /\ (ChannelsEndUpstreams \/ UNCHANGED sshVars)
    OBVIOUS
  <2>1. CASE SshNext
    BY <2>1, FlowStepKept, CallStepKept DEF SshNext
  <2>2. CASE UNCHANGED sshVars
    BY <2>2 DEF sshVars, SshInv, SshTypeOK, UpstreamsCounted, UpstreamsFromDial, HeldBy, CallsOf
  <2> QED
    BY <2>1, <2>2
<1>3. SshInv => UpstreamsWithinLimits
  BY DEF SshInv, UpstreamsCounted, UpstreamsFromDial, UpstreamsWithinLimits
<1>4. SshSpec => []UpstreamsWithinLimits
  BY <1>1, <1>2, <1>3, PTL DEF SshSpec
<1>5. SshSpec => [][ChannelsEndUpstreams]_sshVars
  BY <1>1, <1>2, PTL DEF SshSpec
<1>6. SshSpec => GuestLeavesUpstreamEnds
  BY <1>5, PTL DEF GuestLeavesUpstreamEnds, ChannelsEndUpstreams
<1> QED
  BY <1>4, <1>6, PTL DEF UpstreamsHeldToTheirGuests
-----------------------------------------------------------------------------
(* The tunnels: the invariant, for each flow. *)

Sessions == [ws : BOOLEAN, socket : BOOLEAN, paused : BOOLEAN, tls : BOOLEAN]

GuestEnds == [fin : BOOLEAN, slow : BOOLEAN]

Chunks == 1..MaxChunks

UpstreamStates == {"none", "dialling", "open", "ending", "ended", "closed"}

Upstreams ==
  [state : UpstreamStates, flowing : BOOLEAN, got : Seq({"head"} \cup Chunks), unread : Int]

TunnelTyped ==
  /\ scheme \in Schemes
  /\ nat \in 0..MaxFlows /\ tcpSession \in 0..MaxFlows
  /\ task \in [WsFlows -> {"idle", "hooks", "dial", "head", "tunnel", "over"}]
  /\ ses \in [WsFlows -> Sessions]
  /\ guestEnd \in [WsFlows -> GuestEnds]
  /\ wsPending \in [WsFlows -> Seq(Chunks)]
  /\ upstream \in [WsFlows -> Upstreams]
  /\ sent \in [WsFlows -> 0..MaxChunks]

Listening(i) == tcpSession = i /\ ses[i].ws

\* Until the dial is through, what was sent waits, from its first chunk on.
BytesWait(i) ==
  task[i] \in {"idle", "hooks", "dial"} =>
    /\ upstream[i].got = <<>> /\ upstream[i].state # "open" /\ ~ses[i].socket
    /\ \A k \in 1..Len(wsPending[i]) : wsPending[i][k] = k
    /\ Len(wsPending[i]) <= sent[i]
    /\ Listening(i) => Len(wsPending[i]) = sent[i]

\* What an upstream has got starts with the head and has no gap.
BytesOrdered(i) ==
  upstream[i].got # <<>> =>
    /\ upstream[i].got[1] = "head"
    /\ \A k \in 2..Len(upstream[i].got) : upstream[i].got[k] = k - 1

\* As long as a flow listens to an open upstream, that has got all it sent.
BytesCounted(i) ==
  upstream[i].state = "open" =>
    /\ upstream[i].got # <<>>
    /\ Listening(i) => Len(upstream[i].got) = sent[i] + 1

\* A flow that the guest has not opened has neither a connection nor bytes.
NotYetOpened(i) ==
  task[i] = "idle" => nat # i /\ tcpSession # i /\ sent[i] = 0 /\ wsPending[i] = <<>>

FlowInPlace(i) == BytesWait(i) /\ BytesOrdered(i) /\ BytesCounted(i) /\ NotYetOpened(i)

TunnelIInv == TunnelTyped /\ (\A i \in WsFlows : FlowInPlace(i)) /\ TlsFlowsKeepApart

Early == {"idle", "hooks", "dial"}

LEMMA FlowKept ==
  ASSUME NEW i \in WsFlows, FlowInPlace(i),
         task'[i] = task[i], wsPending'[i] = wsPending[i], sent'[i] = sent[i],
         ses'[i].socket = ses[i].socket, ses'[i].ws => ses[i].ws,
         upstream'[i].got = upstream[i].got,
         upstream'[i].state = "open" => upstream[i].state = "open",
         tcpSession' = i => tcpSession = i, nat' = i => nat = i
  PROVE  FlowInPlace(i)'
BY DEF FlowInPlace, BytesWait, BytesOrdered, BytesCounted, NotYetOpened, Listening

LEMMA FlowAfterDial ==
  ASSUME NEW i \in WsFlows, FlowInPlace(i),
         task'[i] \notin Early, sent'[i] = sent[i],
         ses'[i].ws => ses[i].ws, tcpSession' = i => tcpSession = i,
         \/ upstream'[i].got = <<>> /\ upstream'[i].state # "open"
         \/ /\ upstream'[i].got = upstream[i].got
            /\ upstream'[i].state = "open" => upstream[i].state = "open"
  PROVE  FlowInPlace(i)'
BY DEF FlowInPlace, BytesWait, BytesOrdered, BytesCounted, NotYetOpened, Listening, Early

LEMMA SaidTyped ==
  ASSUME NEW i \in WsFlows, NEW words, Said(i, words), TlsFlowsKeepApart, scheme' = scheme
  PROVE  TlsFlowsKeepApart'
<1>1. CASE scheme = "https"
  <2>1. Reaches(i) => nat = i
    BY <1>1 DEF Reaches
  <2> QED
    BY <1>1, <2>1 DEF Said, TlsFlowsKeepApart
<1>2. CASE scheme # "https"
  BY <1>2 DEF TlsFlowsKeepApart
<1> QED
  BY <1>1, <1>2

LEMMA ClosedUpstream ==
  Destroyed \in Upstreams /\ Destroyed.got = <<>> /\ Destroyed.state = "closed"
<1>1. <<>> \in Seq({"head"} \cup Chunks)
  OBVIOUS
<1>2. NoUpstream \in Upstreams /\ NoUpstream.got = <<>>
  BY <1>1 DEF NoUpstream, Upstreams, UpstreamStates
<1> QED
  BY <1>2 DEF Destroyed, Upstreams, UpstreamStates

LEMMA UpgradesInPlace ==
  ASSUME TunnelIInv, NEW i \in WsFlows, Upgrades(i)
  PROVE  TunnelIInv'
<1> USE DEF TunnelIInv
<1>0. i \in 0..MaxFlows /\ i # 0
  BY TunnelAssumption DEF WsFlows
<1>1. TunnelTyped'
  BY <1>0 DEF Upgrades, TunnelTyped, Sessions
<1>2. ASSUME NEW j \in WsFlows PROVE FlowInPlace(j)'
  <2>1. CASE j # i
    BY <2>1, FlowKept DEF Upgrades, TunnelTyped
  <2>2. CASE j = i
    <3>1. /\ task'[i] = "hooks" /\ ses'[i].socket = FALSE
          /\ UNCHANGED <<wsPending, upstream, sent>>
      BY DEF Upgrades, TunnelTyped
    <3>2. FlowInPlace(i) /\ task[i] = "idle"
      BY DEF Upgrades
    <3> QED
      BY <2>2, <3>1, <3>2 DEF FlowInPlace, BytesWait, BytesOrdered, BytesCounted, NotYetOpened, Listening
  <2> QED
    BY <2>1, <2>2
<1>3. TlsFlowsKeepApart'
  BY DEF Upgrades, TlsFlowsKeepApart
<1> QED
  BY <1>1, <1>2, <1>3

LEMMA GuestSendsInPlace ==
  ASSUME TunnelIInv, NEW i \in WsFlows, GuestSends(i)
  PROVE  TunnelIInv'
<1> USE DEF TunnelIInv
<1>0. /\ sent[i] \in Nat /\ sent'[i] = sent[i] + 1 /\ sent'[i] \in Chunks
      /\ \A j \in WsFlows : j # i => sent'[j] = sent[j]
      /\ sent' \in [WsFlows -> 0..MaxChunks]
      /\ UNCHANGED <<scheme, guestEnd, task, finished, heard, ended>>
      /\ nat = i
  BY TunnelAssumption DEF GuestSends, TunnelTyped, Chunks
<1>a. /\ i # 0 /\ task[i] # "idle"
      /\ FlowInPlace(i)
  BY <1>0 DEF WsFlows, FlowInPlace, NotYetOpened
<1>T. TlsFlowsKeepApart'
  BY <1>0 DEF TlsFlowsKeepApart
<1>1. CASE ~Listening(i) /\ UNCHANGED <<upstream, wsPending, ses, nat, tcpSession>>
  <2>1. TunnelTyped'
    BY <1>0, <1>1 DEF TunnelTyped
  <2>2. ASSUME NEW j \in WsFlows PROVE FlowInPlace(j)'
    <3>1. CASE j # i
      BY <1>0, <1>1, <3>1, FlowKept
    <3>2. CASE j = i
      <4>1. Len(wsPending[i]) \in Nat
        BY DEF TunnelTyped
      <4> QED
        BY <4>1, <1>0, <1>a, <1>1, <3>2
        DEF FlowInPlace, BytesWait, BytesOrdered, BytesCounted, NotYetOpened, Listening
    <3> QED
      BY <3>1, <3>2
  <2> QED
    BY <2>1, <2>2, <1>T
<1>2. CASE /\ Listening(i) /\ WsWritable(i)
           /\ upstream' = [upstream EXCEPT ![i].got = Append(@, sent'[i]), ![i].unread = @ + 1]
           /\ UNCHANGED <<wsPending, ses, nat, tcpSession>>
  <2>1. PICK g : g = upstream[i].got
    OBVIOUS
  <2>2. /\ g \in Seq({"head"} \cup Chunks) /\ upstream[i].unread \in Int
        /\ upstream[i] \in Upstreams
    BY <2>1 DEF TunnelTyped, Upstreams
  <2>3. /\ upstream'[i] = [upstream[i] EXCEPT !.got = Append(g, sent'[i]),
                                               !.unread = upstream[i].unread + 1]
        /\ \A j \in WsFlows : j # i => upstream'[j] = upstream[j]
        /\ upstream' = [upstream EXCEPT ![i] = upstream'[i]]
    BY <1>2, <2>1 DEF TunnelTyped
  <2>4. Append(g, sent'[i]) \in Seq({"head"} \cup Chunks)
    BY <1>0, <2>2
  <2>5. /\ upstream'[i] \in Upstreams /\ upstream'[i].got = Append(g, sent'[i])
        /\ upstream'[i].state = "open" /\ upstream[i].state = "open"
        /\ task[i] \notin Early
    <3>1. upstream'[i] = [state |-> upstream[i].state, flowing |-> upstream[i].flowing,
                          got |-> Append(g, sent'[i]), unread |-> upstream[i].unread + 1]
      BY <2>2, <2>3 DEF Upstreams
    <3>2. /\ upstream[i].state \in UpstreamStates /\ upstream[i].flowing \in BOOLEAN
          /\ upstream[i].unread + 1 \in Int
      BY <2>2 DEF Upstreams
    <3>3. upstream'[i] \in Upstreams
      BY <3>1, <3>2, <2>4 DEF Upstreams
    <3>4. upstream[i].state = "open" /\ task[i] \notin Early
      BY <1>2 DEF WsWritable, Early
    <3> QED
      BY <3>1, <3>3, <3>4
  <2>6. upstream' \in [WsFlows -> Upstreams]
    BY <2>3, <2>5 DEF TunnelTyped
  <2>7. TunnelTyped'
    BY <1>0, <1>2, <2>6 DEF TunnelTyped
  <2>8. ASSUME NEW j \in WsFlows PROVE FlowInPlace(j)'
    <3>1. CASE j # i
      BY <1>0, <1>2, <2>3, <3>1, FlowKept
    <3>2. CASE j = i
      <4>1. /\ g # <<>> /\ g[1] = "head" /\ Len(g) = sent[i] + 1
            /\ \A k \in 2..Len(g) : g[k] = k - 1
        BY <1>a, <1>2, <2>1, <2>5 DEF FlowInPlace, BytesOrdered, BytesCounted
      <4>2. /\ Append(g, sent'[i]) # <<>>
            /\ Append(g, sent'[i])[1] = "head"
            /\ Len(Append(g, sent'[i])) = sent'[i] + 1
            /\ \A k \in 2..Len(Append(g, sent'[i])) : Append(g, sent'[i])[k] = k - 1
        BY <1>0, <2>2, <4>1
      <4>3. /\ sent'[i] \in Nat /\ task'[i] = task[i]
            /\ upstream'[i].got = Append(g, sent'[i])
        BY <1>0, <2>5
      <4> HIDE DEF TunnelIInv
      <4> QED
        BY <4>2, <4>3, <1>a, <2>5, <3>2
        DEF FlowInPlace, BytesWait, BytesOrdered, BytesCounted, NotYetOpened, Listening, Early
    <3> QED
      BY <3>1, <3>2
  <2> QED
    BY <2>7, <2>8, <1>T
<1>3. CASE /\ Listening(i) /\ ~WsWritable(i)
           /\ wsPending' = [wsPending EXCEPT ![i] = Append(@, sent'[i])]
           /\ UNCHANGED <<upstream, ses, nat, tcpSession>>
  <2>1. PICK p : p = wsPending[i]
    OBVIOUS
  <2>2. p \in Seq(Chunks)
    BY <2>1 DEF TunnelTyped
  <2>3. /\ wsPending'[i] = Append(p, sent'[i])
        /\ \A j \in WsFlows : j # i => wsPending'[j] = wsPending[j]
        /\ wsPending' = [wsPending EXCEPT ![i] = Append(p, sent'[i])]
    BY <1>3, <2>1 DEF TunnelTyped
  <2>4. Append(p, sent'[i]) \in Seq(Chunks)
    BY <1>0, <2>2
  <2>5. wsPending' \in [WsFlows -> Seq(Chunks)]
    BY <2>3, <2>4 DEF TunnelTyped
  <2>6. TunnelTyped'
    BY <1>0, <1>3, <2>5 DEF TunnelTyped
  <2>7. ASSUME NEW j \in WsFlows PROVE FlowInPlace(j)'
    <3>1. CASE j # i
      BY <1>0, <1>3, <2>3, <3>1, FlowKept
    <3>2. CASE j = i /\ task[i] \in Early
      <4>1. /\ \A k \in 1..Len(p) : p[k] = k
            /\ Len(p) = sent[i]
        BY <1>a, <1>3, <2>1, <3>2 DEF FlowInPlace, BytesWait, Early
      <4>2. /\ Len(Append(p, sent'[i])) = sent'[i]
            /\ \A k \in 1..Len(Append(p, sent'[i])) : Append(p, sent'[i])[k] = k
        BY <1>0, <2>2, <4>1
      <4> QED
        BY <4>2, <1>0, <1>a, <1>3, <2>3, <3>2
        DEF FlowInPlace, BytesWait, BytesOrdered, BytesCounted, NotYetOpened, Early
    <3>3. CASE j = i /\ task[i] \notin Early
      <4>1. task[i] \in {"head", "tunnel", "over"}
        BY <3>3 DEF TunnelTyped, Early
      <4>2. upstream[i].state # "open"
        BY <1>3, <4>1 DEF WsWritable
      <4> QED
        BY <4>2, <1>0, <1>a, <1>3, <3>3
        DEF FlowInPlace, BytesWait, BytesOrdered, BytesCounted, NotYetOpened, Early
    <3> QED
      BY <3>1, <3>2, <3>3
  <2> QED
    BY <2>6, <2>7, <1>T
<1>4. CASE /\ AbortSession(i) /\ UNCHANGED wsPending
           /\ upstream' = IF ses[i].socket THEN [upstream EXCEPT ![i] = Destroyed] ELSE upstream
  <2>1. /\ ses' \in [WsFlows -> Sessions] /\ ses'[i].ws = FALSE
        /\ ses'[i].socket = ses[i].socket
        /\ \A j \in WsFlows : j # i => ses'[j] = ses[j]
        /\ nat' = 0 /\ tcpSession' = 0
    BY <1>4 DEF AbortSession, TunnelTyped, Sessions
  <2>2. Destroyed \in Upstreams /\ Destroyed.got = <<>> /\ Destroyed.state = "closed"
    BY ClosedUpstream
  <2>3. /\ upstream' \in [WsFlows -> Upstreams]
        /\ \A j \in WsFlows : j # i => upstream'[j] = upstream[j]
        /\ upstream'[i] = IF ses[i].socket THEN Destroyed ELSE upstream[i]
    BY <1>4, <2>2 DEF TunnelTyped
  <2>4. TunnelTyped'
    BY <1>0, <1>4, <2>1, <2>3, TunnelAssumption DEF TunnelTyped
  <2>5. ASSUME NEW j \in WsFlows PROVE FlowInPlace(j)'
    <3>1. CASE j # i
      <4>1. j # 0
        BY DEF WsFlows
      <4> QED
        BY <4>1, <1>0, <1>4, <2>1, <2>3, <3>1, FlowKept
    <3>2. CASE j = i
      <4>1. Len(wsPending[i]) \in Nat
        BY DEF TunnelTyped
      <4> QED
        BY <4>1, <1>0, <1>a, <1>4, <2>1, <2>2, <2>3, <3>2
        DEF FlowInPlace, BytesWait, BytesOrdered, BytesCounted, NotYetOpened, Listening
    <3> QED
      BY <3>1, <3>2
  <2> QED
    BY <2>4, <2>5, <1>T
<1> QED
  BY <1>1, <1>2, <1>3, <1>4 DEF GuestSends, Listening

\* What the steps of a flow may do to the others.
OthersKept(i) ==
  /\ \A j \in WsFlows : j # i =>
       /\ task'[j] = task[j] /\ upstream'[j] = upstream[j] /\ ses'[j] = ses[j]
       /\ wsPending'[j] = wsPending[j]
  /\ sent' = sent /\ nat' \in {nat, 0} /\ tcpSession' \in {tcpSession, 0}

LEMMA AfterDialInPlace ==
  ASSUME TunnelIInv, NEW i \in WsFlows, OthersKept(i),
         task'[i] \notin Early, ses'[i].ws => ses[i].ws,
         \/ upstream'[i].got = <<>> /\ upstream'[i].state # "open"
         \/ /\ upstream'[i].got = upstream[i].got
            /\ upstream'[i].state = "open" => upstream[i].state = "open"
  PROVE  \A j \in WsFlows : FlowInPlace(j)'
<1> SUFFICES ASSUME NEW j \in WsFlows PROVE FlowInPlace(j)'
  OBVIOUS
<1>1. FlowInPlace(j) /\ j # 0 /\ sent'[j] = sent[j]
  BY DEF TunnelIInv, WsFlows, OthersKept
<1>2. CASE j # i
  BY <1>1, <1>2, FlowKept DEF OthersKept
<1>3. CASE j = i
  BY <1>1, <1>3, FlowAfterDial DEF OthersKept
<1> QED
  BY <1>2, <1>3

LEMMA KeptInPlace ==
  ASSUME TunnelIInv, NEW i \in WsFlows, OthersKept(i),
         task'[i] = task[i], wsPending'[i] = wsPending[i],
         ses'[i].socket = ses[i].socket, ses'[i].ws => ses[i].ws,
         upstream'[i].got = upstream[i].got,
         upstream'[i].state = "open" => upstream[i].state = "open"
  PROVE  \A j \in WsFlows : FlowInPlace(j)'
<1> SUFFICES ASSUME NEW j \in WsFlows PROVE FlowInPlace(j)'
  OBVIOUS
<1>1. FlowInPlace(j) /\ j # 0 /\ sent'[j] = sent[j]
  BY DEF TunnelIInv, WsFlows, OthersKept
<1> QED
  BY <1>1, FlowKept DEF OthersKept

SessionLeft(i) == ses' = ses \/ ses' = [ses EXCEPT ![i].ws = FALSE]

SocketLeft(i) ==
  \/ upstream' = upstream
  \/ Destroy(i)
  \/ upstream' = [upstream EXCEPT ![i].flowing = FALSE]

\* A refused upgrade is over, and its socket is as it was or gone.
LEMMA RefusedInPlace ==
  ASSUME TunnelIInv, NEW i \in WsFlows, NEW words, Refuse(i, words),
         UNCHANGED <<scheme, guestEnd, nat, tcpSession, sent>>,
         SessionLeft(i), SocketLeft(i)
  PROVE  TunnelIInv'
<1> USE DEF TunnelIInv
<1>1. TlsFlowsKeepApart'
  BY SaidTyped DEF Refuse
<1>2. /\ task' \in [WsFlows -> {"idle", "hooks", "dial", "head", "tunnel", "over"}]
      /\ task'[i] = "over" /\ \A j \in WsFlows : j # i => task'[j] = task[j]
  BY DEF Refuse, TunnelTyped
<1>3. /\ wsPending' \in [WsFlows -> Seq(Chunks)]
      /\ \A j \in WsFlows : j # i => wsPending'[j] = wsPending[j]
  <2>1. <<>> \in Seq(Chunks)
    OBVIOUS
  <2> QED
    BY <2>1 DEF Refuse, TunnelTyped
<1>4. /\ ses' \in [WsFlows -> Sessions]
      /\ ses'[i].ws => ses[i].ws
      /\ \A j \in WsFlows : j # i => ses'[j] = ses[j]
  <2>1. ses \in [WsFlows -> Sessions] /\ ses[i] \in Sessions
    BY DEF TunnelTyped
  <2>2. CASE ses' = [ses EXCEPT ![i].ws = FALSE]
    <3>1. [ses[i] EXCEPT !.ws = FALSE] \in Sessions
      BY <2>1 DEF Sessions
    <3>2. ses'[i] = [ses[i] EXCEPT !.ws = FALSE] /\ ~ses'[i].ws
      BY <2>1, <2>2 DEF Sessions
    <3> QED
      BY <2>1, <2>2, <3>1, <3>2
  <2> QED
    BY <2>1, <2>2 DEF SessionLeft
<1>5. /\ upstream' \in [WsFlows -> Upstreams]
      /\ \A j \in WsFlows : j # i => upstream'[j] = upstream[j]
      /\ \/ upstream'[i].got = <<>> /\ upstream'[i].state # "open"
         \/ /\ upstream'[i].got = upstream[i].got
            /\ upstream'[i].state = "open" => upstream[i].state = "open"
  <2>1. CASE upstream' = upstream
    BY <2>1 DEF TunnelTyped
  <2>2. CASE Destroy(i)
    BY <2>2, ClosedUpstream DEF Destroy, TunnelTyped
  <2>3. CASE upstream' = [upstream EXCEPT ![i].flowing = FALSE]
    <3>1. upstream[i] \in Upstreams
      BY DEF TunnelTyped
    <3>2. /\ upstream'[i] = [upstream[i] EXCEPT !.flowing = FALSE]
          /\ \A j \in WsFlows : j # i => upstream'[j] = upstream[j]
          /\ upstream' = [upstream EXCEPT ![i] = upstream'[i]]
      BY <2>3 DEF TunnelTyped
    <3>3. /\ upstream'[i] \in Upstreams /\ upstream'[i].got = upstream[i].got
          /\ upstream'[i].state = upstream[i].state
      BY <3>1, <3>2 DEF Upstreams
    <3> QED
      BY <3>2, <3>3 DEF TunnelTyped
  <2> QED
    BY <2>1, <2>2, <2>3 DEF SocketLeft
<1>6. TunnelTyped'
  <2>1. UNCHANGED scheme /\ UNCHANGED guestEnd /\ UNCHANGED nat
        /\ UNCHANGED tcpSession /\ UNCHANGED sent
    OBVIOUS
  <2> QED
    BY <2>1, <1>2, <1>3, <1>4, <1>5 DEF TunnelTyped
<1>7. OthersKept(i)
  BY <1>2, <1>3, <1>4, <1>5 DEF OthersKept
<1>8. task'[i] \notin Early
  BY <1>2 DEF Early
<1> HIDE DEF TunnelIInv
<1>9. \A j \in WsFlows : FlowInPlace(j)'
  <2>1. ses'[i].ws => ses[i].ws
    BY <1>4
  <2>2. \/ upstream'[i].got = <<>> /\ upstream'[i].state # "open"
        \/ /\ upstream'[i].got = upstream[i].got
           /\ upstream'[i].state = "open" => upstream[i].state = "open"
    BY <1>5
  <2> QED
    BY <2>1, <2>2, <1>7, <1>8, AfterDialInPlace
<1> QED
  BY <1>1, <1>6, <1>9 DEF TunnelIInv

LEMMA HooksSettleInPlace ==
  ASSUME TunnelIInv, NEW i \in WsFlows, HooksSettle(i)
  PROVE  TunnelIInv'
<1>1. CASE \E words \in {Refusal, {"answer", "fin"}} : Refuse(i, words) /\ UNCHANGED upstream
  BY <1>1, RefusedInPlace DEF HooksSettle, SessionLeft, SocketLeft
<1>2. CASE /\ task' = [task EXCEPT ![i] = "dial"]
           /\ upstream' = [upstream EXCEPT ![i].state = "dialling"]
           /\ UNCHANGED <<wsPending, heard, ended>>
  <2> USE DEF TunnelIInv
  <2>1. UNCHANGED <<scheme, guestEnd, nat, tcpSession, ses, sent, wsPending, heard>>
    BY <1>2 DEF HooksSettle
  <2>2. /\ task' \in [WsFlows -> {"idle", "hooks", "dial", "head", "tunnel", "over"}]
        /\ task'[i] = "dial" /\ task[i] = "hooks"
        /\ \A j \in WsFlows : j # i => task'[j] = task[j]
    BY <1>2 DEF HooksSettle, TunnelTyped
  <2>3. /\ upstream' \in [WsFlows -> Upstreams]
        /\ upstream'[i].got = upstream[i].got /\ upstream'[i].state = "dialling"
        /\ \A j \in WsFlows : j # i => upstream'[j] = upstream[j]
    BY <1>2 DEF TunnelTyped, Upstreams, UpstreamStates
  <2>4. TunnelTyped'
    BY <2>1, <2>2, <2>3 DEF TunnelTyped
  <2>5. ASSUME NEW j \in WsFlows PROVE FlowInPlace(j)'
    <3>1. CASE j # i
      BY <2>1, <2>2, <2>3, <3>1, FlowKept
    <3>2. CASE j = i
      BY <2>1, <2>2, <2>3, <3>2
      DEF FlowInPlace, BytesWait, BytesOrdered, BytesCounted, NotYetOpened, Listening
    <3> QED
      BY <3>1, <3>2
  <2>6. TlsFlowsKeepApart'
    BY <2>1 DEF TlsFlowsKeepApart
  <2> QED
    BY <2>4, <2>5, <2>6
<1> QED
  BY <1>1, <1>2 DEF HooksSettle

LEMMA DialSucceedsInPlace ==
  ASSUME TunnelIInv, NEW i \in WsFlows, DialSucceeds(i)
  PROVE  TunnelIInv'
<1> USE DEF TunnelIInv
<1>0. /\ UNCHANGED <<scheme, guestEnd, nat, tcpSession, sent, heard>>
      /\ task[i] = "dial" /\ sent[i] \in Nat
  BY DEF DialSucceeds, TunnelTyped
<1>1. /\ task' \in [WsFlows -> {"idle", "hooks", "dial", "head", "tunnel", "over"}]
      /\ task'[i] = "head" /\ \A j \in WsFlows : j # i => task'[j] = task[j]
  BY DEF DialSucceeds, TunnelTyped
<1>2. /\ ses' \in [WsFlows -> Sessions] /\ ses'[i].ws = ses[i].ws
      /\ \A j \in WsFlows : j # i => ses'[j] = ses[j]
  BY DEF DialSucceeds, TunnelTyped, Sessions
<1>3. PICK p : p = wsPending[i]
  OBVIOUS
<1>4. /\ p \in Seq(Chunks) /\ \A k \in 1..Len(p) : p[k] = k
      /\ Listening(i) => Len(p) = sent[i]
  BY <1>0, <1>3 DEF FlowInPlace, BytesWait, TunnelTyped
<1>5. PICK g : g = Flushed(i)
  OBVIOUS
<1>6. g = <<"head">> \o p
  BY <1>3, <1>5 DEF Flushed
<1>7. /\ <<"head">> \in Seq({"head"} \cup Chunks) /\ p \in Seq({"head"} \cup Chunks)
      /\ Len(<<"head">>) = 1 /\ <<"head">>[1] = "head"
  BY <1>4
<1>8. /\ g \in Seq({"head"} \cup Chunks) /\ Len(g) = Len(p) + 1 /\ Len(g) \in Nat
      /\ g # <<>> /\ g[1] = "head" /\ \A k \in 2..Len(g) : g[k] = k - 1
  <2>1. /\ g \in Seq({"head"} \cup Chunks) /\ Len(g) = Len(p) + 1 /\ g[1] = "head"
        /\ Len(p) \in Nat
    BY <1>6, <1>7, <1>4
  <2>2. ASSUME NEW k \in 2..Len(g) PROVE g[k] = k - 1
    <3>1. k - 1 \in 1..Len(p) /\ g[k] = p[k - 1]
      BY <1>6, <1>7, <2>1
    <3> QED
      BY <3>1, <1>4
  <2> QED
    BY <2>1, <2>2
<1> HIDE DEF Flushed
<1>9. /\ upstream'[i] = [state |-> "open", flowing |-> ~ses[i].paused, got |-> g, unread |-> Len(g)]
      /\ \A j \in WsFlows : j # i => upstream'[j] = upstream[j]
      /\ upstream' = [upstream EXCEPT ![i] = upstream'[i]]
  BY <1>5 DEF DialSucceeds, TunnelTyped, Upstreams
<1>10. upstream' \in [WsFlows -> Upstreams]
  <2>1. Len(g) \in Int /\ "open" \in UpstreamStates
    BY <1>8 DEF UpstreamStates
  <2>3. (~ses[i].paused) \in BOOLEAN
    OBVIOUS
  <2>2. upstream'[i] \in Upstreams
    BY <1>8, <1>9, <2>1, <2>3 DEF Upstreams
  <2> QED
    BY <1>9, <2>2 DEF TunnelTyped
<1>11. /\ wsPending' \in [WsFlows -> Seq(Chunks)]
       /\ \A j \in WsFlows : j # i => wsPending'[j] = wsPending[j]
  <2>1. <<>> \in Seq(Chunks)
    OBVIOUS
  <2> QED
    BY <2>1 DEF DialSucceeds, TunnelTyped
<1>12. TunnelTyped'
  BY <1>0, <1>1, <1>2, <1>10, <1>11 DEF TunnelTyped
<1>13. ASSUME NEW j \in WsFlows PROVE FlowInPlace(j)'
  <2>1. CASE j # i
    BY <1>0, <1>1, <1>2, <1>9, <1>11, <2>1, FlowKept
  <2>2. CASE j = i
    <3>1. upstream'[i].state = "open" /\ upstream'[i].got = g
      BY <1>9
    <3> HIDE DEF TunnelIInv
    <3> QED
      BY <1>0, <1>1, <1>2, <1>4, <1>8, <2>2, <3>1
      DEF FlowInPlace, BytesWait, BytesOrdered, BytesCounted, NotYetOpened, Listening
  <2> QED
    BY <2>1, <2>2
<1>14. TlsFlowsKeepApart'
  BY <1>0 DEF TlsFlowsKeepApart
<1> QED
  BY <1>12, <1>13, <1>14

\* The steps that leave the bytes alone, or take them away with the socket.
LEMMA OthersInPlace ==
  ASSUME TunnelIInv, NEW i \in WsFlows,
         \/ \E b \in BOOLEAN : WsGuestCloses(i, b) \/ Paces(i, b)
         \/ HeadJoins(i) \/ PeerReads(i) \/ UpstreamData(i) \/ UpstreamEnds(i)
         \/ WsUpstreamCloses(i) \/ StraySocketCloses(i) \/ UpstreamErrors(i)
  PROVE  TunnelIInv'
<1> USE DEF TunnelIInv
<1>C. Destroyed \in Upstreams /\ Destroyed.got = <<>> /\ Destroyed.state # "open"
  BY ClosedUpstream
<1>E. ses[i].socket => task[i] \notin Early
  BY DEF FlowInPlace, BytesWait, Early
<1>1. ASSUME NEW b \in BOOLEAN, WsGuestCloses(i, b) PROVE TunnelIInv'
  <2>1. UNCHANGED <<scheme, task, wsPending, sent, heard>>
    BY <1>1 DEF WsGuestCloses
  <2>2. guestEnd' \in [WsFlows -> GuestEnds]
    BY <1>1 DEF WsGuestCloses, TunnelTyped, GuestEnds
  <2>3. /\ nat' \in {nat, 0} /\ tcpSession' \in {tcpSession, 0}
        /\ nat' \in 0..MaxFlows /\ tcpSession' \in 0..MaxFlows
    BY <1>1, TunnelAssumption DEF WsGuestCloses, TunnelTyped
  <2>4. /\ ses' \in [WsFlows -> Sessions] /\ ses'[i].socket = ses[i].socket
        /\ ses'[i].ws => ses[i].ws
        /\ \A j \in WsFlows : j # i => ses'[j] = ses[j]
    <3>1. CASE ses' = ses
      BY <3>1 DEF TunnelTyped
    <3>2. CASE ses' = [ses EXCEPT ![i] = [@ EXCEPT !.ws = FALSE, !.paused = FALSE, !.tls = FALSE]]
      <4>1. /\ ses' = [ses EXCEPT ![i] = ses'[i]]
            /\ ses'[i] = [ses[i] EXCEPT !.ws = FALSE, !.paused = FALSE, !.tls = FALSE]
        BY <3>2 DEF TunnelTyped
      <4>2. ses[i] \in Sessions
        BY DEF TunnelTyped
      <4>3. ses'[i] \in Sessions /\ ses'[i].socket = ses[i].socket /\ ~ses'[i].ws
        BY <4>1, <4>2 DEF Sessions
      <4> QED
        BY <4>1, <4>3 DEF TunnelTyped
    <3> QED
      BY <1>1, <3>1, <3>2 DEF WsGuestCloses
  <2>5. \/ upstream' = upstream
        \/ ses[i].socket /\ upstream' = [upstream EXCEPT ![i] = Destroyed]
        \/ ses[i].socket /\ upstream' = [upstream EXCEPT ![i].state = IF @ = "open" THEN "ending" ELSE @]
    BY <1>1 DEF WsGuestCloses
  <2>6. /\ upstream' \in [WsFlows -> Upstreams]
        /\ \A j \in WsFlows : j # i => upstream'[j] = upstream[j]
        /\ \/ upstream'[i] = upstream[i]
           \/ ses[i].socket /\ upstream'[i].got = <<>> /\ upstream'[i].state # "open"
           \/ ses[i].socket /\ upstream'[i].got = upstream[i].got /\ upstream'[i].state # "open"
    <3>1. CASE upstream' = upstream
      BY <3>1 DEF TunnelTyped
    <3>2. CASE ses[i].socket /\ upstream' = [upstream EXCEPT ![i] = Destroyed]
      BY <1>C, <3>2 DEF TunnelTyped
    <3>3. CASE /\ ses[i].socket
               /\ upstream' = [upstream EXCEPT ![i].state = IF @ = "open" THEN "ending" ELSE @]
      <4>1. PICK s : s = IF upstream[i].state = "open" THEN "ending" ELSE upstream[i].state
        OBVIOUS
      <4>2. upstream[i] \in Upstreams /\ s \in UpstreamStates /\ s # "open"
        BY <4>1 DEF TunnelTyped, Upstreams, UpstreamStates
      <4>3. /\ upstream'[i] = [upstream[i] EXCEPT !.state = s]
            /\ upstream' = [upstream EXCEPT ![i] = upstream'[i]]
            /\ \A j \in WsFlows : j # i => upstream'[j] = upstream[j]
        BY <3>3, <4>1 DEF TunnelTyped
      <4>4. upstream'[i] \in Upstreams /\ upstream'[i].got = upstream[i].got /\ upstream'[i].state = s
        BY <4>2, <4>3 DEF Upstreams
      <4> QED
        BY <3>3, <4>2, <4>3, <4>4 DEF TunnelTyped
    <3> QED
      BY <2>5, <3>1, <3>2, <3>3
  <2>7. TunnelTyped'
    BY <2>1, <2>2, <2>3, <2>4, <2>6 DEF TunnelTyped
  <2>8. OthersKept(i)
    BY <2>1, <2>3, <2>4, <2>6 DEF OthersKept
  <2> HIDE DEF TunnelIInv
  <2>9. \A j \in WsFlows : FlowInPlace(j)'
    <3>1. CASE upstream'[i] = upstream[i]
      <4>1. /\ task'[i] = task[i] /\ wsPending'[i] = wsPending[i]
            /\ upstream'[i].got = upstream[i].got
            /\ upstream'[i].state = "open" => upstream[i].state = "open"
        BY <2>1, <3>1
      <4> QED
        BY <2>4, <2>8, <4>1, KeptInPlace
    <3>2. CASE /\ ses[i].socket /\ upstream'[i].got \in {<<>>, upstream[i].got}
               /\ upstream'[i].state # "open"
      <4>1. task'[i] \notin Early
        BY <1>E, <2>1, <3>2
      <4> QED
        BY <2>4, <2>8, <3>2, <4>1, AfterDialInPlace
    <3> QED
      BY <2>6, <3>1, <3>2
  <2>10. TlsFlowsKeepApart'
    BY <2>1 DEF TlsFlowsKeepApart, TunnelIInv
  <2> QED
    BY <2>7, <2>9, <2>10 DEF TunnelIInv
<1>2. ASSUME NEW b \in BOOLEAN, Paces(i, b) PROVE TunnelIInv'
  <2>1. UNCHANGED <<scheme, nat, tcpSession, task, wsPending, sent, heard>>
    BY <1>2 DEF Paces
  <2>2. guestEnd' \in [WsFlows -> GuestEnds]
    <3>1. guestEnd \in [WsFlows -> GuestEnds] /\ guestEnd[i] \in GuestEnds
      BY DEF TunnelTyped
    <3>2. guestEnd' = [guestEnd EXCEPT ![i] = [guestEnd[i] EXCEPT !.slow = b]]
      BY <1>2 DEF Paces
    <3>3. [guestEnd[i] EXCEPT !.slow = b] \in GuestEnds
      BY <3>1 DEF GuestEnds
    <3> QED
      BY <3>1, <3>2, <3>3
  <2>3. /\ ses' \in [WsFlows -> Sessions] /\ ses'[i].socket = ses[i].socket
        /\ ses'[i].ws => ses[i].ws
        /\ \A j \in WsFlows : j # i => ses'[j] = ses[j]
    <3>1. ses' = ses \/ ses' = [ses EXCEPT ![i].paused = b]
      BY <1>2 DEF Paces
    <3>2. ses[i] \in Sessions
      BY DEF TunnelTyped
    <3>3. CASE ses' = [ses EXCEPT ![i].paused = b]
      <4>1. ses' = [ses EXCEPT ![i] = ses'[i]] /\ ses'[i] = [ses[i] EXCEPT !.paused = b]
        BY <3>3 DEF TunnelTyped
      <4>2. ses'[i] \in Sessions /\ ses'[i].socket = ses[i].socket /\ ses'[i].ws = ses[i].ws
        BY <3>2, <4>1 DEF Sessions
      <4> QED
        BY <4>1, <4>2 DEF TunnelTyped
    <3> QED
      BY <3>1, <3>3 DEF TunnelTyped
  <2>4. upstream' = upstream \/ upstream' = [upstream EXCEPT ![i].flowing = ~b]
    BY <1>2 DEF Paces
  <2>5. /\ upstream' \in [WsFlows -> Upstreams] /\ upstream'[i].got = upstream[i].got
        /\ upstream'[i].state = upstream[i].state
        /\ \A j \in WsFlows : j # i => upstream'[j] = upstream[j]
    <3>1. PICK c \in BOOLEAN : c = ~b
      OBVIOUS
    <3>2. upstream' = upstream \/ upstream' = [upstream EXCEPT ![i].flowing = c]
      BY <2>4, <3>1
    <3>3. upstream \in [WsFlows -> Upstreams] /\ upstream[i] \in Upstreams
      BY DEF TunnelTyped
    <3>4. CASE upstream' = [upstream EXCEPT ![i].flowing = c]
      <4>1. /\ upstream'[i] = [upstream[i] EXCEPT !.flowing = c]
            /\ upstream' = [upstream EXCEPT ![i] = upstream'[i]]
        BY <3>3, <3>4
      <4>2. /\ upstream'[i] \in Upstreams /\ upstream'[i].got = upstream[i].got
            /\ upstream'[i].state = upstream[i].state
        BY <3>3, <4>1 DEF Upstreams
      <4> QED
        BY <3>3, <4>1, <4>2
    <3> QED
      BY <3>2, <3>3, <3>4
  <2>6. TunnelTyped' /\ OthersKept(i)
    BY <2>1, <2>2, <2>3, <2>5 DEF TunnelTyped, OthersKept
  <2> HIDE DEF TunnelIInv
  <2>7. \A j \in WsFlows : FlowInPlace(j)'
    BY <2>1, <2>3, <2>5, <2>6, KeptInPlace
  <2>8. TlsFlowsKeepApart'
    BY <2>1 DEF TlsFlowsKeepApart, TunnelIInv
  <2> QED
    BY <2>6, <2>7, <2>8 DEF TunnelIInv
<1>3. CASE HeadJoins(i)
  <2>1. /\ UNCHANGED <<scheme, guestEnd, nat, tcpSession, ses, wsPending, sent>>
        /\ task' = [task EXCEPT ![i] = "tunnel"]
        /\ upstream' = [upstream EXCEPT ![i].flowing = TRUE]
    BY <1>3 DEF HeadJoins
  <2>2. /\ upstream' \in [WsFlows -> Upstreams] /\ upstream'[i].got = upstream[i].got
        /\ upstream'[i].state = upstream[i].state
        /\ \A j \in WsFlows : j # i => upstream'[j] = upstream[j]
    BY <2>1 DEF TunnelTyped, Upstreams
  <2>3. /\ task' \in [WsFlows -> {"idle", "hooks", "dial", "head", "tunnel", "over"}]
        /\ task'[i] \notin Early
        /\ \A j \in WsFlows : j # i => task'[j] = task[j]
    BY <2>1 DEF TunnelTyped, Early
  <2>4. TunnelTyped' /\ OthersKept(i)
    BY <2>1, <2>2, <2>3 DEF TunnelTyped, OthersKept
  <2>5. TlsFlowsKeepApart'
    BY <1>3, <2>1, SaidTyped DEF HeadJoins
  <2> HIDE DEF TunnelIInv
  <2>6. \A j \in WsFlows : FlowInPlace(j)'
    BY <2>1, <2>2, <2>3, <2>4, AfterDialInPlace
  <2> QED
    BY <2>4, <2>5, <2>6 DEF TunnelIInv
<1>4. CASE PeerReads(i)
  <2>1. /\ UNCHANGED <<scheme, guestEnd, nat, tcpSession, ses, task, wsPending, sent, heard>>
        /\ upstream' = [upstream EXCEPT ![i].unread = @ - 1]
    BY <1>4 DEF PeerReads
  <2>2. /\ upstream' \in [WsFlows -> Upstreams] /\ upstream'[i].got = upstream[i].got
        /\ upstream'[i].state = upstream[i].state
        /\ \A j \in WsFlows : j # i => upstream'[j] = upstream[j]
    <3>1. PICK n \in Int : n = upstream[i].unread - 1
      BY DEF TunnelTyped, Upstreams
    <3>2. upstream' = [upstream EXCEPT ![i].unread = n]
      BY <2>1, <3>1
    <3> QED
      BY <3>2 DEF TunnelTyped, Upstreams
  <2>3. TunnelTyped' /\ OthersKept(i)
    BY <2>1, <2>2 DEF TunnelTyped, OthersKept
  <2>4. TlsFlowsKeepApart'
    BY <2>1 DEF TlsFlowsKeepApart
  <2> HIDE DEF TunnelIInv
  <2>5. \A j \in WsFlows : FlowInPlace(j)'
    BY <2>1, <2>2, <2>3, KeptInPlace
  <2> QED
    BY <2>3, <2>4, <2>5 DEF TunnelIInv
<1>5. CASE UpstreamData(i)
  <2>1. UNCHANGED <<scheme, guestEnd, nat, tcpSession, ses, task, wsPending, upstream, sent>>
    BY <1>5 DEF UpstreamData
  <2>2. TunnelTyped' /\ \A j \in WsFlows : FlowInPlace(j)'
    BY <2>1
    DEF TunnelTyped, FlowInPlace, BytesWait, BytesOrdered, BytesCounted, NotYetOpened, Listening
  <2> QED
    BY <1>5, <2>1, <2>2, SaidTyped DEF UpstreamData
<1>F. ASSUME FinishOnce(i), scheme' = scheme PROVE TlsFlowsKeepApart'
  <2>1. CASE finished[i]
    BY <1>F, <2>1 DEF FinishOnce, TlsFlowsKeepApart
  <2>2. CASE ~finished[i]
    BY <1>F, <2>2, SaidTyped DEF FinishOnce
  <2> QED
    BY <2>1, <2>2
<1>6. CASE UpstreamEnds(i)
  <2>1. /\ UNCHANGED <<scheme, guestEnd, nat, tcpSession, ses, task, wsPending, sent>>
        /\ upstream' = [upstream EXCEPT ![i].state = "ended"] /\ task[i] = "tunnel"
    BY <1>6 DEF UpstreamEnds
  <2>2. /\ upstream' \in [WsFlows -> Upstreams] /\ upstream'[i].got = upstream[i].got
        /\ upstream'[i].state = "ended"
        /\ \A j \in WsFlows : j # i => upstream'[j] = upstream[j]
    BY <2>1 DEF TunnelTyped, Upstreams, UpstreamStates
  <2>3. TunnelTyped' /\ OthersKept(i)
    BY <2>1, <2>2 DEF TunnelTyped, OthersKept
  <2>4. TlsFlowsKeepApart'
    BY <1>6, <1>F, <2>1 DEF UpstreamEnds
  <2> HIDE DEF TunnelIInv
  <2>5. \A j \in WsFlows : FlowInPlace(j)'
    BY <2>1, <2>2, <2>3, KeptInPlace
  <2> QED
    BY <2>3, <2>4, <2>5 DEF TunnelIInv
<1>7. CASE WsUpstreamCloses(i)
  <2>1. UNCHANGED <<scheme, guestEnd, nat, wsPending, sent>> /\ FinishOnce(i)
    BY <1>7 DEF WsUpstreamCloses
  <2>2. /\ task' \in [WsFlows -> {"idle", "hooks", "dial", "head", "tunnel", "over"}]
        /\ task'[i] \notin Early
        /\ \A j \in WsFlows : j # i => task'[j] = task[j]
    BY <1>7 DEF WsUpstreamCloses, TunnelTyped, Early
  <2>3. /\ ses' \in [WsFlows -> Sessions] /\ ~ses'[i].ws
        /\ \A j \in WsFlows : j # i => ses'[j] = ses[j]
    BY <1>7 DEF WsUpstreamCloses, TunnelTyped, Sessions
  <2>4. /\ upstream' \in [WsFlows -> Upstreams]
        /\ upstream'[i].got = <<>> /\ upstream'[i].state # "open"
        /\ \A j \in WsFlows : j # i => upstream'[j] = upstream[j]
    BY <1>7, <1>C DEF WsUpstreamCloses, Destroy, TunnelTyped
  <2>5. tcpSession' \in {tcpSession, 0} /\ tcpSession' \in 0..MaxFlows
    BY <1>7, TunnelAssumption DEF WsUpstreamCloses, TunnelTyped
  <2>6. TunnelTyped' /\ OthersKept(i)
    BY <2>1, <2>2, <2>3, <2>4, <2>5 DEF TunnelTyped, OthersKept
  <2>7. TlsFlowsKeepApart'
    BY <1>F, <2>1
  <2> HIDE DEF TunnelIInv
  <2>8. \A j \in WsFlows : FlowInPlace(j)'
    BY <2>2, <2>3, <2>4, <2>6, AfterDialInPlace
  <2> QED
    BY <2>6, <2>7, <2>8 DEF TunnelIInv
<1>8. CASE StraySocketCloses(i)
  <2>1. /\ UNCHANGED <<scheme, guestEnd, nat, tcpSession, ses, task, wsPending, sent, heard>>
        /\ task'[i] \notin Early
    BY <1>8 DEF StraySocketCloses, Early
  <2>2. /\ upstream' \in [WsFlows -> Upstreams]
        /\ upstream'[i].got = <<>> /\ upstream'[i].state # "open"
        /\ \A j \in WsFlows : j # i => upstream'[j] = upstream[j]
    BY <1>8, <1>C DEF StraySocketCloses, Destroy, TunnelTyped
  <2>3. TunnelTyped' /\ OthersKept(i)
    BY <2>1, <2>2 DEF TunnelTyped, OthersKept
  <2>4. TlsFlowsKeepApart'
    BY <2>1 DEF TlsFlowsKeepApart
  <2> HIDE DEF TunnelIInv
  <2>5. \A j \in WsFlows : FlowInPlace(j)'
    BY <2>1, <2>2, <2>3, AfterDialInPlace
  <2> QED
    BY <2>3, <2>4, <2>5 DEF TunnelIInv
<1>9. CASE UpstreamErrors(i)
  <2>1. /\ UNCHANGED <<scheme, guestEnd, task, wsPending, sent, heard>>
        /\ task'[i] \notin Early /\ nat' = 0 /\ tcpSession' = 0
    BY <1>9 DEF UpstreamErrors, AbortSession, Early
  <2>2. /\ ses' \in [WsFlows -> Sessions] /\ ~ses'[i].ws
        /\ \A j \in WsFlows : j # i => ses'[j] = ses[j]
    BY <1>9 DEF UpstreamErrors, AbortSession, TunnelTyped, Sessions
  <2>3. /\ upstream' \in [WsFlows -> Upstreams]
        /\ upstream'[i].got = <<>> /\ upstream'[i].state # "open"
        /\ \A j \in WsFlows : j # i => upstream'[j] = upstream[j]
    BY <1>9, <1>C DEF UpstreamErrors, Destroy, TunnelTyped
  <2>4. TunnelTyped' /\ OthersKept(i)
    BY <2>1, <2>2, <2>3, TunnelAssumption DEF TunnelTyped, OthersKept
  <2>5. TlsFlowsKeepApart'
    BY <2>1 DEF TlsFlowsKeepApart
  <2> HIDE DEF TunnelIInv
  <2>6. \A j \in WsFlows : FlowInPlace(j)'
    BY <2>1, <2>2, <2>3, <2>4, AfterDialInPlace
  <2> QED
    BY <2>4, <2>5, <2>6 DEF TunnelIInv
<1> HIDE DEF TunnelIInv
<1> QED
  BY <1>1, <1>2, <1>3, <1>4, <1>5, <1>6, <1>7, <1>8, <1>9
-----------------------------------------------------------------------------
LEMMA TunnelStarts ==
  ASSUME TunnelInit
  PROVE  TunnelIInv
<1>1. <<>> \in Seq(Chunks) /\ <<>> \in Seq({"head"} \cup Chunks) /\ Len(<<>>) = 0
  OBVIOUS
<1>2. NoUpstream \in Upstreams /\ NoUpstream.got = <<>> /\ NoUpstream.state # "open"
  BY <1>1 DEF NoUpstream, Upstreams, UpstreamStates
<1>3. TunnelTyped
  BY <1>1, <1>2, TunnelAssumption DEF TunnelInit, TunnelTyped, Sessions, GuestEnds
<1>4. ASSUME NEW i \in WsFlows PROVE FlowInPlace(i)
  <2>1. i # 0 /\ wsPending[i] = <<>> /\ upstream[i] = NoUpstream /\ ~ses[i].socket
        /\ sent[i] = 0 /\ nat = 0 /\ tcpSession = 0
    BY DEF TunnelInit, WsFlows
  <2> QED
    BY <1>1, <1>2, <2>1
    DEF FlowInPlace, BytesWait, BytesOrdered, BytesCounted, NotYetOpened, Listening
<1>5. TlsFlowsKeepApart
  BY DEF TunnelInit, TlsFlowsKeepApart
<1> QED
  BY <1>3, <1>4, <1>5 DEF TunnelIInv

LEMMA TunnelStep ==
  ASSUME TunnelIInv, [TunnelNext]_tunnelVars
  PROVE  TunnelIInv'
<1>1. CASE UNCHANGED tunnelVars
  BY <1>1
  DEF tunnelVars, TunnelIInv, TunnelTyped, FlowInPlace, BytesWait, BytesOrdered, BytesCounted,
      NotYetOpened, Listening, TlsFlowsKeepApart
<1>2. ASSUME NEW i \in WsFlows, DialFails(i) \/ HeadDeclines(i) \/ HeadMalformed(i) \/ HeadFails(i)
      PROVE  TunnelIInv'
  <2>1. /\ SessionLeft(i) /\ SocketLeft(i)
        /\ UNCHANGED <<scheme, guestEnd, nat, tcpSession, sent>>
        /\ \E words \in {Refusal, {"answer", "fin"}} : Refuse(i, words)
    BY <1>2 DEF DialFails, HeadDeclines, HeadMalformed, HeadFails, SessionLeft, SocketLeft
  <2> QED
    BY <2>1, RefusedInPlace
<1> QED
  BY <1>1, <1>2, UpgradesInPlace, GuestSendsInPlace, HooksSettleInPlace, DialSucceedsInPlace,
     OthersInPlace
  DEF TunnelNext

LEMMA InPlaceIsEnough ==
  ASSUME TunnelIInv
  PROVE  TunnelBytesInPlace
<1>1. TunnelTypeOK
  BY DEF TunnelIInv, TunnelTyped, TunnelTypeOK, Sessions, GuestEnds, Upstreams, UpstreamStates
<1>2. UpstreamGetsGuestBytes
  BY DEF TunnelIInv, FlowInPlace, BytesOrdered, UpstreamGetsGuestBytes
<1> QED
  BY <1>1, <1>2 DEF TunnelIInv, TunnelBytesInPlace

\* What an upstream receives of a WebSocket upgrade is its request head and then
\* the guest's bytes, in order and none missing, and nothing meant for one TLS
\* flow reaches another, for any number of flows and chunks and every limit
\* (handleWebSocketUpgrade, bridgeWebSocketUpgrade).
THEOREM TunnelBytesAlways == TunnelSpec => []TunnelBytesInPlace
<1>1. TunnelInit => TunnelIInv
  BY TunnelStarts
<1>2. TunnelIInv /\ [TunnelNext]_tunnelVars => TunnelIInv'
  BY TunnelStep
<1>3. TunnelIInv => TunnelBytesInPlace
  BY InPlaceIsEnough
<1> QED
  BY <1>1, <1>2, <1>3, PTL DEF TunnelSpec
=============================================================================
