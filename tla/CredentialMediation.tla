------------------------ MODULE CredentialMediation ------------------------
(***************************************************************************)
(* The network and the credentials of one exact-reader invocation          *)
(* (src/host/src/capability-invocation.ts): its request against the        *)
(* immutable ceiling, the host's CapabilityCredentialStore, which may be   *)
(* changed at any time, the mediator that puts a credential in place of a  *)
(* placeholder at each hop of a request, the HTTP hooks that authorize the *)
(* hops (run by qemu/http.ts), and the effects they leave in the evidence. *)
(*                                                                         *)
(* A credential is a value; an origin is a protocol, a destination and a   *)
(* port.  A request carries sets of tokens in its URL and in two headers:  *)
(* authorization, which no redirect takes to another origin, and some      *)
(* other.  Encodings (Basic, base64, percent) are left out.                *)
(***************************************************************************)
EXTENDS Naturals, FiniteSets

CONSTANTS
  References,    \* of credentials; also their names in the guest's environment
  Labels,        \* redaction ids
  SecretValues,
  Origins, Methods,
  TermSets,      \* what is asked and granted, see TermsType
  Offers,        \* credentials the host may set while the invocation lasts
  MaxClock, MaxChanges, MaxSends, MaxTokens,  \* bounds of the model
  MaxHops        \* MAX_HTTP_REDIRECTS

VARIABLES
  terms,         \* the element of TermSets that this behaviour is about
  entries,       \* CapabilityCredentialStore.entries
  history,       \* its redactionHistory
  clock, changes,
  stage,         \* where the invocation stands
  mediating,     \* InvocationCredentialMediator.active
  flow,          \* the request under way
  sends,
  trail,         \* attempted, denied and observed effects
  seen,          \* values the guest has been shown
  outcome

store == <<entries, history, clock, changes>>
mediation == <<terms, store, stage, mediating, flow, sends, trail, seen, outcome>>

Redirects == {"deny", "same-origin", "follow-authorized"}
Rules == [origin : Origins, methods : SUBSET Methods \ {{}},
          redirects : Redirects, internal : BOOLEAN]
\* from and until are a validity window; 0 and MaxClock + 1 if not given
Windows == [from : 0 .. MaxClock, until : 1 .. MaxClock + 1]
Projections == [reference : References, label : Labels, origin : Origins,
                methods : SUBSET Methods \ {{}}, window : Windows]
Trusted == [value : SecretValues, label : Labels, origin : Origins,
            methods : SUBSET Methods \ {{}}, window : Windows]
Stored == [cred : Trusted, revoked : BOOLEAN, deleted : BOOLEAN]
Missing == [cred |-> "none"]

\* One rule per origin, one projection per reference; {} stands for "none".
WellFormedRules(rules) ==
  \A r, q \in rules : r.origin = q.origin => r = q
WellFormedProjections(ps) ==
  \A p, q \in ps : p.reference = q.reference => p = q

\* carries: the values that occur in the request or in the source file.
\* plain: does the rest of the request lie within the ceiling?
Ceilings == [rules : SUBSET Rules, projections : SUBSET Projections]
TermsType ==
  [rules : SUBSET Rules, projections : SUBSET Projections, ceiling : Ceilings,
   plain : BOOLEAN, noNetwork : BOOLEAN, hasStore : BOOLEAN,
   carries : SUBSET SecretValues, initial : [References -> Stored \cup {Missing}]]

Held(es) == {r \in References : es[r] # Missing}

\* set() refuses a value that another reference which is not deleted has.
Unambiguous(es) ==
  \A r, q \in Held(es) :
    ~es[r].deleted /\ ~es[q].deleted /\ es[r].cred.value = es[q].cred.value => r = q

ASSUME MediationAssumption ==
  /\ TermSets \subseteq TermsType /\ Offers \subseteq Trusted
  /\ \A t \in TermSets :
       /\ WellFormedRules(t.rules) /\ WellFormedRules(t.ceiling.rules)
       /\ WellFormedProjections(t.projections)
       /\ WellFormedProjections(t.ceiling.projections)
       /\ Unambiguous(t.initial)
  /\ {MaxClock, MaxChanges, MaxSends, MaxTokens, MaxHops} \subseteq Nat

Placeholder(r) == [kind |-> "placeholder", of |-> r]
Foreign        == [kind |-> "foreign", of |-> "-"]   \* of another invocation
Secret(v)      == [kind |-> "value", of |-> v]
AllTokens == {Placeholder(r) : r \in References} \cup {Foreign}
               \cup {Secret(v) : v \in SecretValues}

Headers == {"auth", "header"}
Idle == [at |-> "idle"]
Flows == [at : {"precheck", "hook", "policy", "fetch", "wire"}, origin : Origins,
          method : Methods, url : SUBSET AllTokens, auth : SUBSET AllTokens,
          header : SUBSET AllTokens, hop : 0 .. MaxHops, checked : BOOLEAN]

MediationInit ==
  /\ terms \in TermSets
  /\ entries = terms.initial
  /\ history = {entries[r].cred.value : r \in Held(entries)}
  /\ clock = 0 /\ changes = 0 /\ sends = 0
  /\ stage = "new" /\ mediating = FALSE /\ flow = Idle
  /\ trail = {} /\ seen = {} /\ outcome = "none"

-----------------------------------------------------------------------------
(* The credential store *)

StoreMoves == UNCHANGED <<terms, stage, mediating, flow, sends, trail, seen, outcome>>

SetCredential(r, cred) ==
  /\ changes < MaxChanges
  /\ LET new == [entries EXCEPT ![r] = [cred |-> cred, revoked |-> FALSE, deleted |-> FALSE]] IN
       Unambiguous(new) /\ entries' = new
  /\ history' = history \cup {cred.value}
  /\ changes' = changes + 1
  /\ UNCHANGED clock /\ StoreMoves

Withdraw(r, deletes) ==
  /\ changes < MaxChanges /\ r \in Held(entries)
  /\ entries' = [entries EXCEPT ![r].revoked = TRUE, ![r].deleted = @ \/ deletes]
  /\ changes' = changes + 1
  /\ UNCHANGED <<history, clock>> /\ StoreMoves

Tick ==
  /\ clock < MaxClock
  /\ clock' = clock + 1
  /\ UNCHANGED <<entries, history, changes>> /\ StoreMoves

-----------------------------------------------------------------------------
(* Admission *)

RedirectRank(r) ==
  CASE r = "deny" -> 0 [] r = "same-origin" -> 1 [] r = "follow-authorized" -> 2

NetworkWithin(rules, ceiling) ==
  \A r \in rules : \E c \in ceiling :
    /\ c.origin = r.origin /\ r.methods \subseteq c.methods
    /\ RedirectRank(r.redirects) <= RedirectRank(c.redirects)
    /\ r.internal => c.internal

ValidityContracts(w, ceiling) == w.from >= ceiling.from /\ w.until <= ceiling.until

CredentialsWithin(t) ==
  /\ t.projections # {} => t.rules # {}
  /\ \A p \in t.projections :
       /\ \E c \in t.ceiling.projections :
            /\ c.reference = p.reference /\ c.label = p.label /\ c.origin = p.origin
            /\ p.methods \subseteq c.methods /\ ValidityContracts(p.window, c.window)
       /\ \E r \in t.rules : r.origin = p.origin /\ p.methods \subseteq r.methods

AdmittedTerms(t) ==
  /\ t.plain
  /\ NetworkWithin(t.rules, t.ceiling.rules) /\ CredentialsWithin(t)
  /\ ~(t.rules # {} /\ t.noNetwork)
  /\ t.projections # {} => t.hasStore

\* assertCredentialMaterialAbsent of the request and of the source fails
Smuggles == terms.projections # {} /\ terms.carries \cap history # {}

Starts(to) ==
  /\ stage = "new" /\ stage' = to
  /\ UNCHANGED <<terms, store, flow, sends, trail>>

\* invoke() and executeReader up to the launch: the placeholders are made
\* before the request and the source are searched for credentials.
Begin ==
  \/ /\ ~AdmittedTerms(terms)
     /\ Starts("refused") /\ UNCHANGED <<mediating, seen, outcome>>
  \/ /\ AdmittedTerms(terms) /\ Smuggles
     /\ Starts("thrown") /\ mediating' = TRUE /\ UNCHANGED <<seen, outcome>>
  \/ /\ AdmittedTerms(terms) /\ ~Smuggles
     /\ mediating' = (terms.projections # {})
     /\ \/ Starts("running") /\ seen' = terms.carries /\ UNCHANGED outcome
        \/ Starts("closing") /\ outcome' = "failed" /\ UNCHANGED seen

-----------------------------------------------------------------------------
(* The mediator *)

InScope(p, o, m) == p.origin = o /\ m \in p.methods
InTime(w) == w.from <= clock /\ clock < w.until

\* a bug: revoke() is only looked at when a value is set
RedeemableRevoked(p, o, m) ==
  /\ InScope(p, o, m)
  /\ p.reference \in Held(entries)
  /\ LET e == entries[p.reference] IN
       /\ ~e.deleted
       /\ e.cred.label = p.label /\ e.cred.origin = p.origin /\ p.methods \subseteq e.cred.methods
       /\ InTime(p.window) /\ InTime(e.cred.window)

Redeemable(p, o, m) ==
  /\ InScope(p, o, m)
  /\ p.reference \in Held(entries)
  /\ LET e == entries[p.reference] IN
       /\ ~e.deleted /\ ~e.revoked
       /\ e.cred.label = p.label /\ e.cred.origin = p.origin /\ p.methods \subseteq e.cred.methods
       /\ InTime(p.window) /\ InTime(e.cred.window)

InPlace(tokens) == {p \in terms.projections : Placeholder(p.reference) \in tokens}
Redeemed(tokens) ==
  {t \in tokens : t.kind # "placeholder"}
    \cup {Secret(entries[p.reference].cred.value) : p \in InPlace(tokens)}

Sensitive(tokens) == {v \in history : Secret(v) \in tokens}
Material(tokens) == Sensitive(tokens) # {} \/ \E t \in tokens : t.kind # "value"

\* the projections whose reference has the value now, revoked or not
Owners(v) ==
  {p \in terms.projections : p.reference \in Held(entries) /\ entries[p.reference].cred.value = v}
\* the one that is blamed when none is concerned
First == CHOOSE p \in terms.projections : TRUE

\* for each value, the projection that is found for it or blamed
Blamable(vs) ==
  {owner \in [vs -> terms.projections] :
     \A v \in vs : IF Owners(v) = {} THEN owner[v] = First ELSE owner[v] \in Owners(v)}

Passed(out, attempted, observed) ==
  [out |-> out, attempted |-> attempted, observed |-> observed, denied |-> {}]
Rejected(attempted, observed, p) ==
  [out |-> {}, attempted |-> attempted, observed |-> observed, denied |-> {p}]

Fit(tokens, o, m) == {p \in InPlace(tokens) : Redeemable(p, o, m)}

\* replaceValue puts values in place of placeholders until one is refused
RefusedOnes(tokens, o, m) ==
  UNION {{Rejected(before \cup {p}, before, p) : before \in SUBSET Fit(tokens, o, m)} :
           p \in InPlace(tokens) \ Fit(tokens, o, m)}

Misused(owner, vs, o, m) == {v \in vs : Owners(v) = {} \/ ~InScope(owner[v], o, m)}

\* the uses on record: a raw value's only if nothing has been put in place
UsesOf(ps, owners) == ps \cup (IF ps = {} THEN owners ELSE {})

\* then it looks for values that must not be sent
Searched(tokens, owner, o, m) ==
  LET ps == InPlace(tokens)
      vs == Sensitive(Redeemed(tokens))
      bad == Misused(owner, vs, o, m) IN
  IF bad = {} THEN {Passed(Redeemed(tokens), ps, UsesOf(ps, {owner[v] : v \in vs}))}
  ELSE UNION {{Rejected(ps, UsesOf(ps, {owner[v] : v \in before}), owner[w]) :
                 before \in SUBSET (vs \ bad)} : w \in bad}

\* What replaceValue may make of a header.
Replacements(tokens, o, m) ==
  IF Fit(tokens, o, m) # InPlace(tokens) THEN RefusedOnes(tokens, o, m)
  ELSE IF Foreign \in Redeemed(tokens)
  THEN {Rejected(InPlace(tokens), InPlace(tokens), First)}
  ELSE UNION {Searched(tokens, owner, o, m) : owner \in Blamable(Sensitive(Redeemed(tokens)))}

-----------------------------------------------------------------------------
(* Effects *)

Effect(bucket, op, of, o, m) ==
  [bucket |-> bucket, op |-> op, of |-> of, origin |-> o, method |-> m]
Uses(bucket, ps, o, m) == {Effect(bucket, "use", p.reference, o, m) : p \in ps}
Decided(op, o, m, bucket) == {Effect(b, op, "-", o, m) : b \in {"attempted", bucket}}

DeniedEffects == {e \in trail : e.bucket = "denied"}

-----------------------------------------------------------------------------
(* A request of the guest and its hops *)

RuleFor(o) == {r \in terms.rules : r.origin = o}
Allows(o, m) == \E r \in RuleFor(o) : m \in r.methods
AddressAllowed(o, internal) == \E r \in RuleFor(o) : r.internal \/ ~internal

\* a step of the network while the hooks may record effects
Flowing(at) ==
  /\ flow.at = at /\ stage \in {"running", "closing"}
  /\ UNCHANGED <<terms, store, stage, mediating, outcome>>
Records(effects) == trail' = trail \cup effects

SendRequest(o, m, tokens) ==
  /\ flow.at = "idle" /\ stage = "running" /\ terms.rules # {} /\ sends < MaxSends
  /\ sends' = sends + 1
  /\ flow' = [at |-> "precheck", origin |-> o, method |-> m, url |-> tokens.url,
              auth |-> tokens.auth, header |-> tokens.header, hop |-> 0, checked |-> FALSE]
  /\ UNCHANGED <<terms, store, stage, mediating, trail, seen, outcome>>

\* isRequestAllowed, and isIpAllowed for what DNS answers until one is allowed
Policies(answers) ==
  LET o == flow.origin
      m == flow.method
      resolved == \E internal \in answers : AddressAllowed(o, internal)
      refusals == IF \E internal \in answers : ~AddressAllowed(o, internal) THEN {"denied"} ELSE {} IN
  IF ~Allows(o, m) THEN [ok |-> FALSE, effects |-> Decided("request", o, m, "denied")]
  ELSE [ok |-> resolved,
        effects |-> Decided("request", o, m, "attempted")
          \cup UNION {Decided("resolution", o, m, b) :
                        b \in refusals \cup (IF resolved THEN {"observed"} ELSE {})}]

\* before the body is read: the hook is marked as safe for early policies
PrecheckRequest(answers) ==
  /\ Flowing("precheck") /\ UNCHANGED <<sends, seen>>
  /\ Records(Policies(answers).effects)
  /\ flow' = IF Policies(answers).ok THEN [flow EXCEPT !.at = "hook", !.checked = TRUE] ELSE Idle

\* apply(): the URL, then the headers in either order
ApplyMediator ==
  /\ Flowing("hook") /\ UNCHANGED <<sends, seen>>
  /\ LET o == flow.origin
         m == flow.method
         left(r) == Uses("attempted", r.attempted, o, m) \cup Uses("observed", r.observed, o, m)
                      \cup Uses("denied", r.denied, o, m) IN
     \/ /\ ~mediating
        /\ flow' = [flow EXCEPT !.at = "policy"] /\ UNCHANGED trail
     \/ /\ mediating /\ Material(flow.url)
        /\ flow' = Idle /\ Records(Uses("denied", {First}, o, m))
     \/ /\ mediating /\ ~Material(flow.url)
        /\ \E one \in Headers : \E r \in Replacements(flow[one], o, m) :
             LET other == CHOOSE h \in Headers : h # one IN
             \/ r.denied # {} /\ flow' = Idle /\ Records(left(r))
             \/ /\ r.denied = {}
                /\ \E q \in Replacements(flow[other], o, m) :
                     /\ Records(left(r) \cup left(q))
                     /\ flow' = IF q.denied # {} THEN Idle
                          ELSE [flow EXCEPT !.at = "policy", ![one] = r.out, ![other] = q.out,
                                  !.checked = @ /\ r.out = flow[one] /\ q.out = flow[other]]

\* the policies of this hop, unless the early ones saw the same head
PoliciesOfHop(answers) ==
  /\ Flowing("policy") /\ UNCHANGED <<sends, seen>>
  /\ IF flow.hop = 0 /\ flow.checked
     THEN flow' = [flow EXCEPT !.at = "fetch"] /\ UNCHANGED trail
     ELSE /\ Records(Policies(answers).effects)
          /\ flow' = IF Policies(answers).ok THEN [flow EXCEPT !.at = "fetch"] ELSE Idle

\* the guarded lookup of a new connection, or a connection made before
ConnectUpstream(internal) ==
  /\ Flowing("fetch") /\ UNCHANGED <<sends, seen>>
  /\ LET allowed == AddressAllowed(flow.origin, internal)
         decided(b) == Decided("connection", flow.origin, flow.method, b) IN
     \/ /\ allowed
        /\ flow' = [flow EXCEPT !.at = "wire"] /\ Records(decided("observed"))
     \/ ~allowed /\ flow' = Idle /\ Records(decided("denied"))
     \/ /\ \E e \in trail : e.bucket = "observed" /\ e.op = "connection" /\ e.origin = flow.origin
        /\ flow' = [flow EXCEPT !.at = "wire"] /\ UNCHANGED trail

\* isRedirectAllowed
RedirectAllowed(o, m) ==
  /\ Allows(o, m)
  /\ \E r \in RuleFor(flow.origin) :
       /\ flow.method \in r.methods
       /\ \/ r.redirects = "follow-authorized"
          \/ r.redirects = "same-origin" /\ o = flow.origin

\* applyRedirectRequest; the location may repeat what the upstream was sent.
FollowRedirect(o, m, url) ==
  /\ Flowing("wire") /\ UNCHANGED <<sends, seen>>
  /\ flow.hop < MaxHops
  /\ url \subseteq flow.auth \cup flow.header
  /\ Records(Decided("redirect", o, m, IF RedirectAllowed(o, m) THEN "observed" ELSE "denied"))
  /\ flow' = IF RedirectAllowed(o, m)
             THEN [flow EXCEPT !.at = "hook", !.origin = o, !.method = m, !.url = url,
                     !.auth = IF o = flow.origin THEN @ ELSE {}, !.hop = @ + 1, !.checked = FALSE]
             ELSE Idle

Redacted(content) == IF terms.projections # {} THEN content \ history ELSE content

\* onResponse: the response is redacted if the invocation has credentials.
Respond(content) ==
  /\ Flowing("wire") /\ UNCHANGED sends
  /\ flow' = Idle
  /\ Records({Effect("observed", "completion", "-", flow.origin, flow.method)})
  /\ seen' = seen \cup Redacted(content)

\* The guest leaves, the upstream fails, or the redirects are too many.
DropRequest ==
  /\ Flowing(flow.at) /\ flow.at # "idle"
  /\ flow' = Idle /\ UNCHANGED <<sends, trail, seen>>

-----------------------------------------------------------------------------
(* The end of the invocation *)

EndsExec(to) ==
  /\ stage = "running" /\ stage' = "closing" /\ outcome' = to
  /\ UNCHANGED <<terms, store, mediating, flow, sends, trail, seen>>

ExecEnds ==
  \/ EndsExec("failed")
  \/ DeniedEffects # {} /\ EndsExec("policy_denied")
  \/ DeniedEffects = {} /\ \E to \in {"success", "command_failed"} : EndsExec(to)

\* vm.close(), deactivate() and the seal.  A close that fails may leave a
\* request behind.
CloseVm(ok) ==
  /\ stage = "closing" /\ stage' = "sealed"
  /\ mediating' = FALSE
  /\ outcome' = IF ok THEN outcome ELSE "teardown_failure"
  /\ flow' = IF ok THEN Idle ELSE flow
  /\ UNCHANGED <<terms, store, sends, trail, seen>>

\* The identity is finished: every hook of a request left behind throws.
LateHook ==
  /\ stage = "sealed" /\ flow.at # "idle"
  /\ flow' = Idle
  /\ UNCHANGED <<terms, store, stage, mediating, sends, trail, seen, outcome>>

\* What the guest can write: its placeholders, one of another invocation, and
\* what it was shown.
GuestTokens ==
  {Placeholder(p.reference) : p \in terms.projections} \cup {Foreign}
    \cup {Secret(v) : v \in seen}
Writable ==
  LET some == {ts \in SUBSET GuestTokens : Cardinality(ts) <= MaxTokens} IN
  {w \in [url : some, auth : some, header : some] :
     Cardinality(w.url) + Cardinality(w.auth) + Cardinality(w.header) <= MaxTokens}

MediationNext ==
  \/ \E r \in References, cred \in Offers : SetCredential(r, cred)
  \/ \E r \in References, deletes \in BOOLEAN : Withdraw(r, deletes)
  \/ Tick
  \/ Begin
  \/ \E o \in Origins, m \in Methods, tokens \in Writable : SendRequest(o, m, tokens)
  \/ \E answers \in SUBSET BOOLEAN : PrecheckRequest(answers) \/ PoliciesOfHop(answers)
  \/ ApplyMediator
  \/ \E internal \in BOOLEAN : ConnectUpstream(internal)
  \/ \E o \in Origins, m \in Methods, url \in SUBSET AllTokens : FollowRedirect(o, m, url)
  \/ \E content \in SUBSET SecretValues : Respond(content)
  \/ DropRequest
  \/ ExecEnds
  \/ \E ok \in BOOLEAN : CloseVm(ok)
  \/ LateHook

MediationSpec == MediationInit /\ [][MediationNext]_mediation

-----------------------------------------------------------------------------
(* Properties *)

Buckets == {"attempted", "denied", "observed"}
Operations == {"use", "request", "resolution", "connection", "redirect", "completion"}
Effects == [bucket : Buckets, op : Operations, of : References \cup {"-"},
            origin : Origins, method : Methods]

MediationTypeOK ==
  /\ terms \in TermSets
  /\ entries \in [References -> Stored \cup {Missing}] /\ history \subseteq SecretValues
  /\ clock \in 0 .. MaxClock /\ changes \in Nat /\ sends \in Nat
  /\ stage \in {"new", "refused", "thrown", "running", "closing", "sealed"}
  /\ mediating \in BOOLEAN /\ flow \in Flows \cup {Idle}
  /\ trail \subseteq Effects
  /\ seen \subseteq SecretValues
  /\ outcome \in {"none", "success", "command_failed", "failed", "policy_denied", "teardown_failure"}

\* The store remembers every value it ever held.
HistoryComplete == \A r \in Held(entries) : entries[r].cred.value \in history

\* Only an admitted invocation runs, its mediator at its side.
RunsMediated ==
  /\ mediating => terms.projections # {}
  /\ stage \in {"running", "closing"} =>
       AdmittedTerms(terms) /\ (terms.projections # {} => mediating)

\* A request reaches the mediator only where the active grant allows it.
HookAllowed == flow.at = "hook" => Allows(flow.origin, flow.method)

\* Within the ceiling, the active grant and the declared scope, at this hop.
GrantedHere(p) ==
  /\ InScope(p, flow.origin, flow.method)
  /\ Allows(flow.origin, flow.method)
  /\ \E c \in terms.ceiling.projections :
       c.reference = p.reference /\ InScope(c, flow.origin, flow.method)

\* Live now: neither revoked nor deleted, and in time for both windows.
LiveHere(p) ==
  LET e == entries[p.reference] IN
  ~e.revoked /\ ~e.deleted /\ InTime(p.window) /\ InTime(e.cred.window)

\* Whatever the host sets, revokes or deletes between the hops of a request, and
\* whatever upstreams redirect, a hop leaves the mediator without a placeholder,
\* and with a value the store has or had only if it is now the value of a
\* credential that the ceiling and the request grant for the hop's origin and
\* method; a value put in place of a placeholder is of a live credential, and its
\* use is on record (apply, replaceValue, resolve, 2685-2849; admitCredentialAuthority).
CredentialsKeepToTheirGrant ==
  [][flow.at = "hook" /\ flow'.at = "policy" /\ terms.projections # {} =>
       /\ mediating /\ ~Material(flow.url)
       /\ \A h \in Headers : \A t \in flow'[h] :
            /\ t.kind = "value"
            /\ t.of \in history =>
                 \E p \in Owners(t.of) :
                   /\ GrantedHere(p)
                   /\ t \notin flow[h] =>
                        /\ LiveHere(p)
                        /\ Effect("observed", "use", p.reference, flow.origin, flow.method)
                             \in trail']_mediation
=============================================================================
